------------------------------- MODULE Compatibility -------------------------------
(***************************************************************************)
(* Does a skill run on a platform?  (src/infinitas_skill/compatibility:    *)
(* evidence.py, contracts.py, checks.py, policy.py; release/               *)
(* platform_state.py.)  Evidence files say what a checker saw and when; a  *)
(* platform's contract says when its documents were last read; the policy  *)
(* says how long evidence lasts.  Time is a number of half days; evidence  *)
(* paths are compared by rank.                                             *)
(***************************************************************************)
EXTENDS Integers, FiniteSets

Canonical == "openclaw"

\* normalize_platform_name
PlatformName(token) ==
    CASE token \in {"openclaw", "open-claw"} -> "openclaw"
      [] token \in {"claude", "claude-code"} -> "claude"
      [] OTHER -> token

\* qualified: a publisher, or "" for evidence that names only the skill
Evidence(platform, qualified, skill, v, state, at, path) ==
    [platform |-> platform, qualified |-> qualified, skill |-> skill, v |-> v, state |-> state, at |-> at, path |-> path]

Day(t) == t \div 2

\* validate_compatibility_policy_payload
CompatibilityPolicyValid(p) == p.days >= 1 /\ p.contract \in {"ignore", "stale"}

-------------------------------------------------------------------------------
(* Contracts *)

\* validate_platform_contract and load_platform_profile_contract: a document
\* and a profile, each with the day it was verified and its sources
ContractErrors(platform, doc, profile) ==
    (IF doc.verified < 0 THEN {"document date"} ELSE {})
        \cup (IF doc.sources = {} THEN {"document sources"} ELSE {})
        \cup (IF profile.platform # platform THEN {"profile platform"} ELSE {})
        \cup (IF profile.sources = {} THEN {"profile sources"} ELSE {})
        \cup (IF profile.verified < 0 THEN {"profile date"} ELSE {})

\* Mutant: a profile only needs a date, not the document's.
ContractCheckPassesAnyDate(platform, doc, profile, maxAge, now) ==
    /\ ContractErrors(platform, doc, profile) = {}
    /\ profile.sources = doc.sources
    /\ Day(now) - doc.verified <= maxAge

\* collect_platform_contract_result with --stale-policy fail
ContractCheckPasses(platform, doc, profile, maxAge, now) ==
    /\ ContractErrors(platform, doc, profile) = {}
    /\ profile.sources = doc.sources
    /\ profile.verified = doc.verified
    /\ Day(now) - doc.verified <= maxAge

\* load_platform_contracts: the day a profile gives its platform, -1 for none
ContractDay(platform, profiles) ==
    IF \E p \in profiles : p.platform = platform
    THEN (CHOOSE p \in profiles : p.platform = platform).verified ELSE -1

-------------------------------------------------------------------------------
(* Evidence *)

\* Mutant: whatever the evidence is qualified with, the bare name decides.
SkillMatchesBare(s, e) == e.v = s.v /\ e.skill = s.name

\* _skill_matches
SkillMatches(s, e) ==
    /\ e.v = s.v
    /\ IF e.qualified # "" THEN e.qualified = s.pub /\ e.skill = s.name ELSE e.skill = s.name

\* Mutant: files are taken in the order of their paths.
EvidenceBeforeByPath(e, f) == e.path < f.path

\* _evidence_sort_key
EvidenceBefore(e, f) == e.at < f.at \/ (e.at = f.at /\ e.path < f.path)

\* The last of the sorted evidence about a skill on a platform, if any
LatestEvidence(s, evidence, platform) ==
    LET matched == {e \in evidence : SkillMatches(s, e) /\ PlatformName(e.platform) = platform}
    IN {e \in matched : \A f \in matched : ~EvidenceBefore(e, f)}

\* _freshness_payload
Freshness(latest, contract, policy, now) ==
    IF latest = {} THEN "unknown"
    ELSE LET e == CHOOSE e \in latest : TRUE IN
         CASE now > e.at + 2 * policy.days -> "stale"
           [] policy.contract = "stale" /\ contract >= 0 /\ contract > Day(e.at) -> "stale"
           [] OTHER -> "fresh"

StateOf(latest) == IF latest = {} THEN "unknown" ELSE (CHOOSE e \in latest : TRUE).state

Support(latest, contract, policy, now) ==
    [state |-> StateOf(latest), freshness |-> Freshness(latest, contract, policy, now)]

\* collect_canonical_runtime_support
CanonicalSupport(s, evidence, profiles, policy, now) ==
    Support(LatestEvidence(s, evidence, Canonical), ContractDay(Canonical, profiles), policy, now)

\* Mutant: only platforms with evidence are listed.
MergedPlatformsVerified(s, evidence) ==
    {PlatformName(e.platform) : e \in {e \in evidence : SkillMatches(s, e)}}

\* merge_declared_and_verified_support: declared platforms and those of evidence
MergedPlatforms(s, evidence) ==
    {PlatformName(t) : t \in s.declared} \cup {PlatformName(e.platform) : e \in {e \in evidence : SkillMatches(s, e)}}

\* Each matching file, in order, replaces what its platform had: the last stays.
MergedSupport(s, evidence, profiles, policy, now) ==
    [platform \in MergedPlatforms(s, evidence) |->
        Support({e \in evidence :
                    /\ SkillMatches(s, e) /\ PlatformName(e.platform) = platform
                    /\ ~\E f \in evidence : /\ SkillMatches(s, f) /\ PlatformName(f.platform) = platform
                                            /\ EvidenceBefore(e, f)},
                ContractDay(platform, profiles), policy, now)]

\* collect_platform_compatibility_state: what stops a release
ReleaseBlocked(s, evidence, profiles, policy, now) ==
    LET c == CanonicalSupport(s, evidence, profiles, policy, now)
    IN c.state \in {"unknown", "blocked", "broken", "unsupported"} \/ c.freshness \in {"stale", "unknown"}

-------------------------------------------------------------------------------
(* Properties *)

\* Once a release is blocked neither time nor evidence older than what it was
\* blocked on opens it again.
OnlyNewerEvidenceOpens(s, evidence, more, profiles, policy, now, later) ==
    LET old == {e \in more : \A f \in LatestEvidence(s, evidence, Canonical) : e.at < f.at}
    IN /\ ReleaseBlocked(s, evidence, profiles, policy, now)
       /\ LatestEvidence(s, evidence, Canonical) # {} /\ later >= now
       => ReleaseBlocked(s, evidence \cup old, profiles, policy, later)

\* Evidence in the name of another publisher's skill says nothing of this one.
OthersEvidenceIsIgnored(s, evidence, profiles, policy, now) ==
    LET own == {e \in evidence : e.qualified \in {"", s.pub}} IN
    CanonicalSupport(s, evidence, profiles, policy, now) = CanonicalSupport(s, own, profiles, policy, now)

\* The catalog shows what the release gate decides on: every declared platform
\* is listed, and the canonical one as the gate sees it.
CatalogShowsTheGate(s, evidence, profiles, policy, now) ==
    LET merged == MergedSupport(s, evidence, profiles, policy, now) IN
    /\ \A t \in s.declared : PlatformName(t) \in DOMAIN merged
    /\ Canonical \in DOMAIN merged => merged[Canonical] = CanonicalSupport(s, evidence, profiles, policy, now)

\* A contract document read again after a skill was last checked blocks its
\* release, once the contract check passes.
ContractReviewReachesGate(s, evidence, doc, profile, policy, maxAge, now) ==
    /\ ContractCheckPasses(Canonical, doc, profile, maxAge, now)
    /\ CompatibilityPolicyValid(policy) /\ policy.contract = "stale"
    /\ \A e \in evidence : doc.verified > Day(e.at)
    => ReleaseBlocked(s, evidence, {profile}, policy, now)
===============================================================================
