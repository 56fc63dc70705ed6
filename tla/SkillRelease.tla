------------------------------ MODULE SkillRelease ------------------------------
(***************************************************************************)
(* The release of one version of a skill from a Git checkout               *)
(* (src/infinitas_skill/release): `release tag` and `release publish       *)
(* --write-attestation`, step by step, with the readiness checks between   *)
(* them, and the verification of what they leave on disk.                  *)
(*                                                                         *)
(* Any step may fail and the command may be killed at any of them; the     *)
(* operator then runs another one.  The developer edits, commits and       *)
(* pushes between commands; others push, the CI attests and evidence       *)
(* expires at any time.  One operator works in the checkout.               *)
(***************************************************************************)
EXTENDS Naturals, Sequences

CONSTANTS Contents,      \* what the skill's files may be
          LastCommit,    \* bound: commits of the branch
          LastTag,       \* bound: tags made
          LastAttempt,   \* bound: provenances written
          LastFault,     \* bound: kills and failures of git, ssh-keygen, the network, the log
          Policies,      \* signing policies: [trust, log]
          WaivedRules    \* issue ids an active release exception waives

ASSUME SkillReleaseAssumption ==
    /\ {LastCommit, LastTag, LastAttempt, LastFault} \subseteq Nat
    /\ Contents \subseteq Nat \ {0} /\ Contents # {}

VARIABLES sources,    \* skill files of each commit, local or upstream
          branch, remoteBranch,  \* the local branch and its upstream
          worktree,   \* skill files of the worktree
          unsaved,    \* generated artifacts are not committed
          tag,        \* the release tag in the checkout
          remoteTag,  \* ... and on the remote
          disk,       \* the release's files under catalog/
          logged,     \* attempts whose attestation the transparency log holds
          policy,     \* the signing policy
          release,    \* the running command
          tags,       \* tags made so far
          attempt,    \* provenances written so far
          faults,     \* kills and outside failures so far
          vouched     \* history variable: contents a verified attestation named

gitVars == <<sources, branch, remoteBranch, worktree, tag, remoteTag, tags>>
releaseVars == <<gitVars, unsaved, disk, logged, policy, release, attempt, faults, vouched>>

\* A file's id is the attempt whose attestation it belongs to: 0 for a file that is
\* not there, Torn for one whose writing was cut short.
Torn == LastAttempt + 1
Intact(file) == file.id \in 1 .. LastAttempt
Tag(at, signed, id) == [at |-> at, signed |-> signed, id |-> id]
NoTag == Tag(0, FALSE, 0)
Exists(t) == t # NoTag

\* What build_common_payload and build_distribution_payload put in a provenance:
\* the attempt stands for its digest.
Provenance(id, commit, bundle, mode, logMode) ==
    [id |-> id, commit |-> commit, bundle |-> bundle,
     pushed |-> (mode = "stable-release"), mode |-> mode, log |-> logMode]

CiPayload(commit, sha) == [id |-> 1, commit |-> commit, sha |-> sha]
Manifest(prov, sig, ci) ==
    [id |-> prov.id, sig |-> sig, bundle |-> prov.bundle, commit |-> prov.commit, ci |-> ci]
NoProvenance(id) == Provenance(id, 0, 0, "local-tag", "disabled")
NoManifest(id) == Manifest(NoProvenance(id), 0, FALSE)
NoFiles == [prov |-> NoProvenance(0), sig |-> 0, entry |-> 0, ci |-> [CiPayload(0, 0) EXCEPT !.id = 0],
            bundle |-> 0, manifest |-> NoManifest(0)]

\* A command that is not running.
NoRelease == [pc |-> "idle", publish |-> FALSE, push |-> FALSE, force |-> FALSE,
         unsigned |-> FALSE, local |-> FALSE, commit |-> 0, staged |-> 0]
AtStep(pc) == [release EXCEPT !.pc = pc]

-------------------------------------------------------------------------------
(* Release readiness: the issues a mode raises *)

\* What the release's own files say of an earlier publication; a torn file raises.
Unreadable ==
    \/ disk.prov.id = Torn \/ disk.manifest.id = Torn
    \/ disk.prov.id # 0 /\ disk.entry = Torn
SourceCommit == IF Intact(disk.prov) THEN disk.prov.commit ELSE 0
Available == Intact(disk.prov) \/ Intact(disk.manifest)
Consistent ==
    (Intact(disk.prov) /\ Intact(disk.manifest)) => disk.prov.bundle = disk.manifest.bundle
Published(target) == target = SourceCommit /\ Available /\ Consistent

\* ls-remote peels annotated tags only.
RemoteTarget == IF remoteTag.signed THEN remoteTag.at ELSE 0

\* `git status` sees the skill's files and the generated ones.
WorktreeFindings(mode) ==
    IF (worktree # sources[branch] \/ unsaved) /\ mode # "local-tag" THEN {"dirty-worktree"} ELSE {}

UpstreamFindings(mode) ==
    IF mode \notin {"preflight", "stable-release"} THEN {}
    ELSE (IF branch > remoteBranch THEN {"ahead-of-upstream"} ELSE {})
         \cup (IF branch < remoteBranch THEN {"behind-of-upstream"} ELSE {})

\* What a check finds outside the checkout's Git state: the evidence of runtime support
\* goes stale with time, the policies and the identity are the configuration's.
Problems == {"platform", "namespace", "releaser"}

\* Two problems block what one of them blocks: a check meets at most one.
Discoveries == {{}} \cup {{p} : p \in Problems}

PlatformFindings(mode, found) ==
    IF mode \in {"preflight", "stable-release"} /\ "platform" \in found
    THEN {"platform-verified-support"} ELSE {}

NamespaceFindings(found) == IF "namespace" \in found THEN {"namespace-policy"} ELSE {}

IdentityFindings(mode, found) ==
    IF mode \in {"preflight", "stable-release"} /\ "releaser" \in found
    THEN {"unauthorized-releaser-identity"} ELSE {}

LocalTagFindings(mode) ==
    IF mode \notin {"local-tag", "stable-release"} THEN {}
    ELSE IF ~Exists(tag) THEN {"missing-local-tag"}
    ELSE (IF tag.signed THEN {} ELSE {"lightweight-local-tag", "unsigned-local-tag",
                                      "unverified-local-tag"})
         \cup (IF tag.at = branch \/ (tag.at <= branch /\ Published(tag.at)) THEN {}
               ELSE {"local-tag-not-head"})

RemoteTagFindings(mode) ==
    IF mode # "stable-release" THEN {}
    ELSE IF ~Exists(remoteTag) THEN {"remote-tag-missing"}
    ELSE IF RemoteTarget = branch \/ Published(RemoteTarget) THEN {}
    ELSE {"remote-tag-mismatch"}

\* collect_release_state: the issues no exception waives.
Issues(mode, found) ==
    (NamespaceFindings(found) \cup PlatformFindings(mode, found) \cup IdentityFindings(mode, found)
     \cup WorktreeFindings(mode) \cup UpstreamFindings(mode)
     \cup LocalTagFindings(mode) \cup RemoteTagFindings(mode)) \ WaivedRules

Ready(mode, found) == ~Unreadable /\ Issues(mode, found) = {}

\* The commit a provenance names.
AttestedCommit ==
    IF RemoteTarget # 0 THEN RemoteTarget ELSE IF Exists(tag) THEN tag.at ELSE branch

-------------------------------------------------------------------------------
(* Verification *)

ValidProvenance(p) == Intact(p) /\ (p.pushed <=> p.mode = "stable-release")

\* verify_ci_attestation: the run's commit is the one its payload names.
CiVerified(d) == Intact(d.ci) /\ d.ci.sha = d.ci.commit

\* Mutant: an entry that is there is taken for this attestation's.
AnyEntry(d) == d.prov.log = "required" => d.entry # 0

\* summarize_transparency_log_state: an entry, wherever it comes from, must be for
\* this provenance; only a required one may not be missing.
LogVerified(d) ==
    /\ d.entry \in {0, d.prov.id}
    /\ d.prov.log = "required" => d.entry # 0

\* _verify_ssh_attestation: an allowed signer signed these bytes.
SshVerified(d) == d.sig = d.prov.id

RequiresCi == policy.trust \in {"ci", "both"}

AttestationVerified(d) ==
    /\ ValidProvenance(d.prov) /\ SshVerified(d)
    /\ RequiresCi => CiVerified(d)
    /\ LogVerified(d)

\* build_distribution_manifest_payload
ManifestOf(d) == Manifest(d.prov, d.sig, RequiresCi)

\* The three files are there and are the ones the manifest was made of.
DigestsMatch(d) ==
    /\ d.prov.id # 0 /\ d.sig # 0 /\ d.bundle # 0
    /\ d.manifest.id = d.prov.id /\ d.manifest.sig = d.sig /\ d.manifest.bundle = d.bundle

FormatsVerified(d) == AttestationVerified(d) /\ (d.manifest.ci => CiVerified(d))

\* What the manifest says, and what the bundle holds, is what was signed.
SignedFieldsMatch(d) ==
    /\ d.manifest.bundle = d.prov.bundle /\ d.manifest.commit = d.prov.commit
    /\ d.bundle = d.prov.bundle

ManifestVerified(d) ==
    Intact(d.manifest) /\ DigestsMatch(d) /\ FormatsVerified(d) /\ SignedFieldsMatch(d)

-------------------------------------------------------------------------------
(* The developer, the others, the CI *)

SkillReleaseInit ==
    /\ sources = <<CHOOSE c \in Contents : TRUE>> /\ branch = 1 /\ remoteBranch = 1 /\ worktree = sources[1]
    /\ unsaved = FALSE /\ tags = 0 /\ tag = NoTag /\ remoteTag = NoTag
    /\ policy \in Policies
    /\ disk = NoFiles /\ logged = {} /\ release = NoRelease /\ attempt = 0 /\ faults = 0 /\ vouched = {}

\* The developer works while no command runs.
AtRest == release = NoRelease /\ UNCHANGED <<release, tag, remoteTag, tags, logged, policy, attempt, faults, vouched>>

EditSkill(c) ==
    /\ AtRest /\ worktree' = c /\ c # worktree
    /\ UNCHANGED <<sources, branch, remoteBranch, unsaved, disk>>

CommitWork ==
    /\ AtRest
    /\ worktree # sources[branch] \/ unsaved
    /\ branch = Len(sources) /\ branch < LastCommit
    /\ sources' = Append(sources, worktree) /\ branch' = branch + 1 /\ unsaved' = FALSE
    /\ UNCHANGED <<remoteBranch, worktree, disk>>

PushBranch ==
    /\ AtRest /\ remoteBranch < branch /\ remoteBranch' = branch
    /\ UNCHANGED <<sources, branch, worktree, unsaved, disk>>

PullBranch ==
    /\ AtRest /\ branch < remoteBranch /\ worktree = sources[branch] /\ branch' = remoteBranch /\ worktree' = sources[remoteBranch]
    /\ UNCHANGED <<sources, remoteBranch, unsaved, disk>>

\* The files a killed command tore are deleted by hand.
Discard ==
    /\ AtRest
    /\ Unreadable \/ disk.entry = Torn
    /\ disk' = [disk EXCEPT !.prov = IF @.id = Torn THEN NoProvenance(0) ELSE @,
                            !.manifest = IF @.id = Torn THEN NoManifest(0) ELSE @,
                            !.entry = IF @ = Torn THEN 0 ELSE @]
    /\ UNCHANGED <<sources, branch, remoteBranch, worktree, unsaved>>

\* release generate-distribution-manifest and release sign-attestation, run on their own.
GenerateManifest ==
    /\ AtRest /\ Intact(disk.prov) /\ disk.bundle # 0 /\ disk.sig # 0
    /\ disk' = [disk EXCEPT !.manifest = ManifestOf(disk)] /\ unsaved' = TRUE
    /\ UNCHANGED <<sources, branch, remoteBranch, worktree>>

SignAgain ==
    /\ AtRest /\ Intact(disk.prov)
    /\ disk' = [disk EXCEPT !.sig = disk.prov.id] /\ unsaved' = TRUE
    /\ UNCHANGED <<sources, branch, remoteBranch, worktree>>

Elsewhere == UNCHANGED <<branch, worktree, tag, remoteTag, tags, unsaved, logged, policy, release, attempt, faults, vouched>>

OthersPush(c) ==
    /\ Elsewhere /\ remoteBranch = Len(sources) /\ remoteBranch < LastCommit
    /\ sources' = Append(sources, c) /\ remoteBranch' = remoteBranch + 1 /\ UNCHANGED disk

\* The CI run of a tag, or one dispatched on the branch, brings its attestation.
CiAttests(sha) ==
    /\ Elsewhere /\ policy.trust = "both" /\ RemoteTarget # 0 /\ sha \in {RemoteTarget, remoteBranch}
    /\ disk' = [disk EXCEPT !.ci = CiPayload(RemoteTarget, sha)]
    /\ UNCHANGED <<sources, remoteBranch>>

-------------------------------------------------------------------------------
(* tag_skill_release *)

ReleaseFails == release' = NoRelease /\ UNCHANGED <<gitVars, unsaved, disk, logged, attempt, vouched>>
ReleaseFault == faults < LastFault /\ faults' = faults + 1
Proceed(pc) == release' = AtStep(pc) /\ UNCHANGED <<gitVars, unsaved, disk, logged, attempt, vouched>>

\* What follows the tag: the publication, or nothing.
Tagged == IF release.publish THEN AtStep("context") ELSE NoRelease

StartTag(push, force, unsigned, local) ==
    /\ release = NoRelease /\ ~(local /\ push)
    /\ release' = [NoRelease EXCEPT !.pc = "preflight", !.push = push, !.force = force,
                           !.unsigned = unsigned, !.local = local]
    /\ UNCHANGED <<gitVars, unsaved, disk, logged, attempt, vouched>>

\* The readiness check, and the tag that is there.
Preflight ==
    /\ release.pc = "preflight"
    /\ \E found \in Discoveries :
          IF \/ ~Ready(IF release.local THEN "local-preflight" ELSE "preflight", found)
             \/ Exists(tag) /\ ~release.force
          THEN ReleaseFails
          ELSE /\ tag' = NoTag /\ release' = [AtStep("create") EXCEPT !.local = FALSE, !.force = FALSE]
               /\ UNCHANGED <<sources, branch, remoteBranch, worktree, remoteTag, tags, unsaved, disk, logged, attempt, vouched>>

CreateTag ==
    /\ release.pc = "create" /\ tags < LastTag
    /\ \/ ReleaseFault /\ ReleaseFails  \* no signing key, or git refuses
       \/ /\ UNCHANGED faults
          /\ tag' = Tag(branch, ~release.unsigned, tags + 1) /\ tags' = tags + 1
          /\ release' = IF ~release.unsigned THEN AtStep("check") ELSE IF release.push THEN AtStep("push") ELSE Tagged
          /\ UNCHANGED <<sources, branch, remoteBranch, worktree, remoteTag, unsaved, disk, logged, attempt, vouched>>

CheckTag ==
    /\ release.pc = "check"
    /\ \E found \in Discoveries :
          IF ~Ready("local-tag", found) THEN ReleaseFails
          ELSE /\ release' = IF release.push THEN AtStep("push") ELSE Tagged
               /\ UNCHANGED <<gitVars, unsaved, disk, logged, attempt, vouched>>

\* Mutant: the push is forced.
ForcePushTag ==
    /\ release.pc = "push" /\ remoteTag' = tag /\ UNCHANGED faults
    /\ release' = IF release.unsigned THEN Tagged ELSE AtStep("stable")
    /\ UNCHANGED <<sources, branch, remoteBranch, worktree, tag, tags, unsaved, disk, logged, attempt, vouched>>

\* git moves no tag of the remote; the network may fail.
PushTag ==
    /\ release.pc = "push"
    /\ \/ ReleaseFault /\ ReleaseFails
       \/ UNCHANGED faults /\ Exists(remoteTag) /\ remoteTag # tag /\ ReleaseFails
       \/ /\ UNCHANGED faults
          /\ ~Exists(remoteTag) \/ remoteTag = tag
          /\ remoteTag' = tag /\ release' = IF release.unsigned THEN Tagged ELSE AtStep("stable")
          /\ UNCHANGED <<sources, branch, remoteBranch, worktree, tag, tags, unsaved, disk, logged, attempt, vouched>>

CheckStable ==
    /\ release.pc = "stable"
    /\ \E found \in Discoveries :
          IF ~Ready("stable-release", found) THEN ReleaseFails
          ELSE release' = Tagged /\ UNCHANGED <<gitVars, unsaved, disk, logged, attempt, vouched>>

-------------------------------------------------------------------------------
(* publish_skill_release --write-attestation; the skill is active and valid *)

\* The tag command a publication runs is signed and never forced.
StartPublish(create, push) ==
    /\ release = NoRelease
    /\ release' = [NoRelease EXCEPT !.pc = IF create \/ push THEN "preflight" ELSE "context",
                           !.publish = TRUE, !.push = push]
    /\ UNCHANGED <<gitVars, unsaved, disk, logged, attempt, vouched>>

ReleaseMode == IF release.push THEN "stable-release" ELSE "local-tag"

\* deterministic_bundle packs the skill's directory as it is.
Packed == worktree

\* collect_release_context checks the state and reads the commit; then the bundle is
\* packed next to its place.
CollectContext ==
    /\ release.pc = "context"
    /\ \E found \in Discoveries :
          IF ~Ready(ReleaseMode, found) THEN ReleaseFails
          ELSE /\ release' = [AtStep("provenance") EXCEPT !.commit = AttestedCommit, !.staged = Packed]
               /\ unsaved' = TRUE /\ UNCHANGED <<gitVars, disk, logged, attempt, vouched>>

WritesFiles(pc, files) ==
    /\ disk' = files /\ unsaved' = TRUE /\ release' = AtStep(pc)
    /\ UNCHANGED <<gitVars, logged, vouched>>

WriteProvenance ==
    /\ release.pc = "provenance" /\ attempt < LastAttempt /\ attempt' = attempt + 1
    /\ WritesFiles("sign", [disk EXCEPT !.prov =
           Provenance(attempt + 1, release.commit, release.staged, ReleaseMode, policy.log)])

\* sign_attestation_file: ssh-keygen signs aside, the old signature is unlinked ...
SignProvenance ==
    /\ release.pc = "sign"
    /\ \/ ReleaseFault /\ ReleaseFails
       \/ UNCHANGED <<attempt, faults>> /\ WritesFiles("place", [disk EXCEPT !.sig = 0])

\* ... and the new one moved in its place.
PlaceSignature ==
    /\ release.pc = "place" /\ UNCHANGED attempt
    /\ WritesFiles("record", [disk EXCEPT !.sig = disk.prov.id])

\* The log accepts the attestation or not; its answer may be lost.
RecordInLog ==
    /\ release.pc = "record"
    /\ \/ policy.log = "disabled" /\ UNCHANGED faults /\ Proceed("verify")
       \/ /\ policy.log # "disabled" /\ UNCHANGED faults
          /\ disk' = [disk EXCEPT !.entry = disk.prov.id] /\ logged' = logged \cup {disk.prov.id}
          /\ release' = AtStep("verify") /\ UNCHANGED <<gitVars, unsaved, attempt, vouched>>
       \/ /\ policy.log # "disabled" /\ ReleaseFault /\ logged' \in {logged, logged \cup {disk.prov.id}}
          /\ release' = IF policy.log = "required" THEN NoRelease ELSE AtStep("verify")
          /\ UNCHANGED <<gitVars, unsaved, disk, attempt, vouched>>

\* Mutant: a failing verification is only reported.
VerificationIgnored ==
    /\ release.pc = "verify" /\ release' = AtStep("rename")
    /\ vouched' = IF AttestationVerified(disk) THEN vouched \cup {disk.prov.bundle} ELSE vouched
    /\ UNCHANGED <<gitVars, unsaved, disk, logged, attempt>>

VerifyAttestation ==
    /\ release.pc = "verify"
    /\ IF ~AttestationVerified(disk) THEN ReleaseFails
       ELSE /\ release' = AtStep("rename") /\ vouched' = vouched \cup {disk.prov.bundle}
            /\ UNCHANGED <<gitVars, unsaved, disk, logged, attempt>>

RenameBundle ==
    /\ release.pc = "rename" /\ UNCHANGED attempt
    /\ WritesFiles("manifest", [disk EXCEPT !.bundle = release.staged])

WriteManifest ==
    /\ release.pc = "manifest" /\ UNCHANGED attempt
    /\ WritesFiles("distribution", [disk EXCEPT !.manifest = ManifestOf(disk)])

\* The manifest is verified, and the catalog rebuilt when it is.
VerifyDistribution == release.pc = "distribution" /\ ReleaseFails

\* The command is killed, perhaps in the middle of a file.
KillRelease ==
    /\ release # NoRelease /\ release' = NoRelease /\ ReleaseFault
    /\ disk' \in {disk} \cup
           CASE release.pc = "provenance" -> {[disk EXCEPT !.prov = NoProvenance(Torn)]}
             [] release.pc = "record" /\ policy.log # "disabled" -> {[disk EXCEPT !.entry = Torn]}
             [] release.pc = "manifest" -> {[disk EXCEPT !.manifest = NoManifest(Torn)]}
             [] OTHER -> {}
    /\ UNCHANGED <<gitVars, unsaved, logged, attempt, vouched>>

\* The steps no outside failure interrupts.
Steps ==
    \/ Preflight \/ CheckTag \/ CheckStable \/ CollectContext \/ WriteProvenance \/ PlaceSignature
    \/ VerifyAttestation \/ RenameBundle \/ WriteManifest \/ VerifyDistribution

SkillReleaseNext ==
    \/ \E c \in Contents : EditSkill(c) \/ OthersPush(c)
    \/ CommitWork \/ PushBranch \/ PullBranch \/ Discard \/ GenerateManifest \/ SignAgain
    \/ \E sha \in 1 .. LastCommit : CiAttests(sha)
    \/ /\ \/ \E push, force, unsigned, local \in BOOLEAN : StartTag(push, force, unsigned, local)
          \/ \E create, push \in BOOLEAN : StartPublish(create, push)
          \/ Steps
       /\ UNCHANGED <<policy, faults>>
    \/ (CreateTag \/ PushTag \/ SignProvenance \/ RecordInLog \/ KillRelease) /\ UNCHANGED policy

SkillReleaseSpec == SkillReleaseInit /\ [][SkillReleaseNext]_releaseVars

-------------------------------------------------------------------------------
(* Properties *)

\* A manifest that verifies and says its source was pushed bundles exactly the files of
\* the commit it names, which is upstream and which the signed tag of the remote still
\* names, whatever was edited, retagged, interrupted or published again since.
StableIsSnapshot ==
    (ManifestVerified(disk) /\ disk.prov.pushed) =>
        /\ disk.bundle = sources[disk.prov.commit]
        /\ remoteTag.signed /\ remoteTag.at = disk.prov.commit
        /\ disk.prov.commit <= remoteBranch

\* Under a required transparency log, a manifest that verifies has an attestation the
\* log really holds, also after submissions that failed or whose answer was lost.
VerifiedIsLogged ==
    (ManifestVerified(disk) /\ policy.log = "required") => disk.prov.id \in logged

\* The bundle at the published path is one a verified attestation named: a publication
\* that fails or is killed before never puts its bundle there.
BundleWasAttested == disk.bundle = 0 \/ disk.bundle \in vouched

\* What verifies as a release is what its tag and commit say, was attested
\* before it was published, and is in the log where the policy requires it.
ReleasesAreAttested == StableIsSnapshot /\ VerifiedIsLogged /\ BundleWasAttested
===============================================================================
