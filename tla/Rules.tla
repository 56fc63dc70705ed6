---------------------------------- MODULE Rules ----------------------------------
(***************************************************************************)
(* What the decision rules must never decide, of any input: rule names the *)
(* rule that is looked at and given holds its input under that name.       *)
(***************************************************************************)
EXTENDS ReviewPolicy, NamespacePolicy, Visibility, SourceResolution, Compatibility, Discovery

VARIABLES rule,   \* the rule a behaviour looks at
          given   \* its input, under the rule's name

case == given[rule]

-------------------------------------------------------------------------------
(* Versions and where skills come from *)

\* compare_versions is a total order in which a release follows its pre-releases.
VersionsAreOrdered == rule = "versions" => VersionOrder(case[1], case[2], case[3])

\* Caret and tilde ranges admit no breaking release (caret_upper_bound, tilde_upper_bound).
RangesAreSafe == rule = "versions" => RangesNeverBreak(case[1], case[2])

\* The newest version of an index is the installer's newest.
KeysOrderVersions == rule = "versions" => KeysAgree(case[1], case[2])

\* What is configured validly can be synced, and moves only when trusted to.
SyncFollowsPolicy == rule = "registry" => SyncAgreesWithPolicy(case)

\* A cache serves installs exactly as long as its policy lets it.
CachesAreFreshEnough == rule = "source" => FreshEnough(case.regs, case.ask)

\* What is installed is what was asked for, of an allowed publisher.
SourcesAreAsked == rule = "source" => AskedAndAllowed(case.regs, case.ask)

\* The manifest installed from is of the chosen publisher and version.
ManifestsMatch == rule = "source" => ManifestIsThisVersion(case.regs, case.ask)

\* Registries serve in the order of their priority.
PriorityDecides == rule = "source" => HighestPriorityServes(case.regs, case.ask)

\* A version held by a registry in use is found.
HeldVersionsAreFound == rule = "source" => FoundWhenHeld(case.regs, case.ask)

\* What is installed by name is what the index described.
DescribedInstalled == rule = "named" => InstalledIsDescribed(case.config, case.file, case.ask)

\* Other registries and failing servers change nothing that is installed by name.
OthersDoNotMatter == rule = "named" => OnlyDefaultMatters(case.config, case.ask)

\* What a new index offers from the default registry is installed from its distribution.
OfferedInstalls == rule = "named" => OfferedIsInstallable(case.config, case.ask)

\* resolve, search and recommend agree on which skills suit an agent.
AgentViewsAgree == rule = "ranked" => ViewsAgree(case.x, case.agent)

\* No merit makes a skill precede the default registry's, or an incompatible one a compatible one.
RankingIsSensible == rule = "ranked" => RanksSensibly(case.x, case.y, case.agent, "r1")

-------------------------------------------------------------------------------
(* Which releases a request sees *)

\* No path of the discovery and registry APIs shows a release its caller may not read;
\* what is not a release is of the committed index, on the public paths.
NothingLeaks == rule = "visible" => OnlyReadableShown(case.db, case.files, case.ctx, case.ref, case.limit, case.most)

\* What a caller may read is in its catalog and its registry, once.
ReadableShown == rule = "visible" => ReadableIsShown(case.db, case.ctx, case.limit)

\* Releases a caller may not read do not change what an install resolves to.
HiddenIsIrrelevant == rule = "visible" => HiddenDoesNotMatter(case.db, case.ctx, case.ref, case.limit)

\* Index, artifact paths and install agree.
IndexInstallable == rule = "visible" => IndexIsInstallable(case.db, case.files, case.ctx, case.limit)

\* The server's latest release is the command line's latest.
ServerLatestIsNewest == rule = "visible" => LatestIsNewest(case.db, case.ctx, case.limit)

-------------------------------------------------------------------------------
(* Gates: reviews and promotions, names, compatibility *)

\* An open gate rests on enough standing approvals, the owner's only if unavoidable.
OpenGatesAreBacked == rule = "review" => OpenGateIsBacked(case.policy, case.skill)

\* Imported evidence that is older than reviews.json changes nothing.
LateEvidenceIgnored == rule = "review" => LateEvidenceIsIgnored(case.policy, case.skill)

\* Approvals only open the gate, rejections only close it.
DecisionsOneWay == rule = "review" => DecisionsPushOneWay(case.policy, case.skill, case.more)

\* A recommended reviewer's approval counts for the group it was asked for.
RecommendationsHelp == rule = "review" => RecommendedApprovalCounts(case.policy, case.skill, case.now)

\* A closed gate is passed only by a live exception about it.
PromotionsAreEarned == rule = "promotion" => PromotionIsEarned(case.policy, case.skill, case.exceptions, case.now)

\* Two publishers never hold one name at once without transfers both ways.
NamesHaveOneHolder == rule = "names" => NameHasOneHolder(case.policy, case.registry)

\* Whoever leaves the policy's teams and lists can sign no more, unless named as a signer.
SignersLeave == rule = "names" => LeaversCannotSign(case.policy, case.registry)

\* A blocked release is opened by newer evidence only.
OnlyNewerEvidence ==
    rule = "support" =>
        OnlyNewerEvidenceOpens(case.skill, case.evidence, case.more, {case.profile}, case.policy, case.now, case.later)

\* Another publisher's evidence does not count.
OwnEvidenceOnly ==
    rule = "support" =>
        OthersEvidenceIsIgnored(case.skill, case.evidence \cup case.more, {case.profile}, case.policy, case.now)

\* The catalog and the release gate agree.
CatalogMatchesGate ==
    rule = "support" =>
        CatalogShowsTheGate(case.skill, case.evidence \cup case.more, {case.profile}, case.policy, case.now)

\* A contract read anew blocks releases checked before.
ContractsReachGate ==
    rule = "support" =>
        ContractReviewReachesGate(case.skill, case.evidence \cup case.more, case.doc, case.profile, case.policy, case.maxAge, case.now)

-------------------------------------------------------------------------------
(* What is checked and proved of them *)

\* Versions are ordered rightly and ranges are safe; a skill comes from a registry that is
\* allowed, fresh enough and of the highest priority that holds it, with its own manifest;
\* and what discovery offers is what is installed.
SourcesAreRight ==
    /\ VersionsAreOrdered /\ RangesAreSafe /\ KeysOrderVersions
    /\ SyncFollowsPolicy /\ CachesAreFreshEnough /\ SourcesAreAsked /\ ManifestsMatch
    /\ PriorityDecides /\ HeldVersionsAreFound
    /\ DescribedInstalled /\ OthersDoNotMatter /\ OfferedInstalls /\ AgentViewsAgree /\ RankingIsSensible

\* All six paths to a release show what the caller may read and nothing else, newest first.
VisibilityIsRight ==
    NothingLeaks /\ ReadableShown /\ HiddenIsIrrelevant /\ IndexInstallable /\ ServerLatestIsNewest

\* The gates of reviews, promotions, names and compatibility open only when the people and
\* the evidence they ask for stand behind it.
GatesAreRight ==
    /\ OpenGatesAreBacked /\ LateEvidenceIgnored /\ DecisionsOneWay /\ RecommendationsHelp /\ PromotionsAreEarned
    /\ NamesHaveOneHolder /\ SignersLeave
    /\ OnlyNewerEvidence /\ OwnEvidenceOnly /\ CatalogMatchesGate /\ ContractsReachGate
===============================================================================
