------------------------------ MODULE ReviewPolicy ------------------------------
(***************************************************************************)
(* Reviews and promotion: which recorded decisions count, when the review   *)
(* gate opens, whom to ask next, and what an exception waives               *)
(* (src/infinitas_skill/policy: reviews.py, review_evaluation.py,           *)
(* reviewer_rotation.py, promotion_report.py, exception_policy.py).         *)
(*                                                                         *)
(* A skill s is [reviews, evidence, names, owner, requested, file, stage,   *)
(* risk, lacks, maintainers]; a policy p is [groups, layers, differ,        *)
(* fallback, block, needFile, states, needs, minMaintainers].               *)
(***************************************************************************)
EXTENDS Integers, Sequences, FiniteSets

\* One decision of reviews.json or of the imported evidence; "odd" stands for a
\* decision that is neither (reviews.json is not validated).
ReviewEntry(who, decision, at) == [who |-> who, decision |-> decision, at |-> at]

-------------------------------------------------------------------------------
(* Policy *)

\* A layer of the quorum configuration overrides the fields it sets, each a set
\* of at most one value (normalize_quorum_rule).
Override(rule, layer) ==
    [min |-> IF layer.min = {} THEN rule.min ELSE CHOOSE n \in layer.min : TRUE,
     groups |-> IF layer.groups = {} THEN rule.groups ELSE CHOOSE g \in layer.groups : TRUE]

\* effective_quorum_rule: defaults, stage, risk, then stage and risk.
EffectiveQuorum(p, stage, risk) ==
    LET base == Override([min |-> 0, groups |-> {}], p.layers.defaults)
    IN  Override(Override(Override(base, p.layers.stage[stage]), p.layers.risk[risk]),
                 p.layers.stageRisk[stage][risk])

\* _validate_quorum_group_refs: every rule names configured groups.
QuorumRefersToGroups(p, stage, risk) ==
    \A layer \in {p.layers.defaults, p.layers.stage[stage], p.layers.risk[risk], p.layers.stageRisk[stage][risk]} :
        UNION layer.groups \subseteq DOMAIN p.groups

\* expand_team_refs, configured_reviewers
MembersOf(p, g) == p.groups[g].members \cup p.groups[g].teams

Reviewers(p) == UNION {MembersOf(p, g) : g \in DOMAIN p.groups}

GroupsOf(p, who) == {g \in DOMAIN p.groups : who \in MembersOf(p, g)}

\* owner_review_unavoidable
OwnerUnavoidable(p, owner, rule) ==
    LET others == Reviewers(p) \ {owner}
    IN  /\ owner # ""
        /\ \/ Cardinality(others) < rule.min
           \/ ~(rule.groups \subseteq UNION {GroupsOf(p, r) : r \in others})

-------------------------------------------------------------------------------
(* Evaluation *)

\* load_review_evidence: one entry for a reviewer, with a known decision.
EvidenceLoads(evidence) ==
    \A n \in DOMAIN evidence :
        /\ evidence[n].decision \in {"approved", "rejected"}
        /\ \A k \in DOMAIN evidence : evidence[k].who = evidence[n].who => k = n

\* import_review_evidence: the file is written, read back and put back when bad.
Imported(previous, evidence) == IF EvidenceLoads(evidence) THEN evidence ELSE previous

\* review_decision_entries
Entries(s) == s.reviews \o s.evidence

\* Mutant: the last line of the file wins, whatever its time.
LatestByPosition(entries, who) ==
    LET mine == {n \in DOMAIN entries : entries[n].who = who}
    IN  entries[CHOOSE n \in mine : \A k \in mine : k <= n]

\* latest_distinct_entries: the newest entry of a reviewer, the last of those
\* of the same second.
Latest(entries, who) ==
    LET mine == {n \in DOMAIN entries : entries[n].who = who}
    IN  entries[CHOOSE n \in mine : \A k \in mine :
            entries[k].at < entries[n].at \/ (entries[k].at = entries[n].at /\ k <= n)]

Deciders(s) == {Entries(s)[n].who : n \in DOMAIN Entries(s)}

RuleFor(p, s) == EffectiveQuorum(p, s.stage, s.risk)

OwnerMayCount(p, s) ==
    ~p.differ \/ (p.fallback /\ OwnerUnavoidable(p, s.owner, RuleFor(p, s)))

\* Mutant: the owner counts whenever a fallback is configured.
CountsOwnerFallback(p, s, who) ==
    /\ who \in Reviewers(p)
    /\ Latest(Entries(s), who).decision \in {"approved", "rejected"}
    /\ who = s.owner => ~p.differ \/ p.fallback

\* _classify_decisions: no reason to ignore the latest decision.
Counts(p, s, who) ==
    /\ who \in Reviewers(p)
    /\ Latest(Entries(s), who).decision \in {"approved", "rejected"}
    /\ who = s.owner => OwnerMayCount(p, s)

Approvals(p, s) == {r \in Deciders(s) : Counts(p, s, r) /\ Latest(Entries(s), r).decision = "approved"}

Rejections(p, s) == {r \in Deciders(s) : Counts(p, s, r) /\ Latest(Entries(s), r).decision = "rejected"}

\* Mutant: a rejection covers its reviewer's groups too.
MissingGroupsDecided(p, s) == RuleFor(p, s).groups \ UNION {GroupsOf(p, r) : r \in Approvals(p, s) \cup Rejections(p, s)}

MissingGroups(p, s) == RuleFor(p, s).groups \ UNION {GroupsOf(p, r) : r \in Approvals(p, s)}

\* evaluate_review_state: review_gate_pass
GatePass(p, s) ==
    /\ p.needFile => s.file
    /\ Cardinality(Approvals(p, s)) >= RuleFor(p, s).min
    /\ MissingGroups(p, s) = {}
    /\ p.block => Rejections(p, s) = {}

\* _effective_state
EffectiveState(p, s) ==
    CASE p.block /\ Rejections(p, s) # {} -> "rejected"
      [] GatePass(p, s) -> "approved"
      [] ~GatePass(p, s) /\ ~(p.block /\ Rejections(p, s) # {})
           /\ (s.requested \/ Entries(s) # <<>>) -> "under-review"
      [] OTHER -> "draft"

-------------------------------------------------------------------------------
(* Recommendations *)

\* _target_groups
TargetGroups(p, s) ==
    LET rule    == RuleFor(p, s)
        missing == MissingGroups(p, s)
        gap     == rule.min - Cardinality(Approvals(p, s))
        wanted  == IF rule.groups # {} /\ gap > Cardinality(missing) THEN rule.groups ELSE missing
    IN  CASE wanted # {} -> wanted
          [] wanted = {} /\ rule.groups # {} -> rule.groups
          [] OTHER -> DOMAIN p.groups

\* Mutant: reviewers who already decided are recommended again.
EligibleAgain(p, s, g) ==
    {r \in MembersOf(p, g) : r = s.owner => OwnerMayCount(p, s)}

\* _recommend_group
Eligible(p, s, g) ==
    {r \in MembersOf(p, g) :
        /\ r = s.owner => OwnerMayCount(p, s)
        /\ ~(r \in Deciders(s) /\ Counts(p, s, r))}

-------------------------------------------------------------------------------
(* Promotion *)

\* Mutant: a rejection leaves no issue of its own.
ReviewIssuesNoRejection(p, s) ==
    (IF p.needFile /\ ~s.file THEN {"missing-reviews-file"} ELSE {})
    \cup (IF Cardinality(Approvals(p, s)) < RuleFor(p, s).min THEN {"minimum-approvals"} ELSE {})
    \cup (IF MissingGroups(p, s) # {} THEN {"required-reviewer-groups"} ELSE {})

\* _collect_review_issues
ReviewIssues(p, s) ==
    LET found == (IF p.needFile /\ ~s.file THEN {"missing-reviews-file"} ELSE {})
                 \cup (IF Cardinality(Approvals(p, s)) < RuleFor(p, s).min THEN {"minimum-approvals"} ELSE {})
                 \cup (IF MissingGroups(p, s) # {} THEN {"required-reviewer-groups"} ELSE {})
                 \cup (IF p.block /\ Rejections(p, s) # {} THEN {"blocking-rejections"} ELSE {})
    IN  IF ~GatePass(p, s) /\ found = {} THEN {"review-quorum"} ELSE found

\* _collect_required_metadata_issues: lacks holds what the skill is without.
MetadataIssues(p, s) ==
    (IF EffectiveState(p, s) \in p.states THEN {} ELSE {"effective-review-state"})
    \cup (p.needs \cap s.lacks \cap {"missing-changelog", "missing-smoke-test"})
    \cup (IF "missing-owner" \in p.needs /\ s.owner = "" THEN {"missing-owner"} ELSE {})

\* _collect_high_risk_issues
HighRiskIssues(p, s) ==
    IF s.risk # "high" THEN {} ELSE
    (IF s.maintainers < p.minMaintainers THEN {"minimum-maintainers"} ELSE {})
    \cup (p.needs \cap s.lacks \cap {"missing-requires-block"})

Issues(p, s) == ReviewIssues(p, s) \cup MetadataIssues(p, s) \cup HighRiskIssues(p, s)

\* _validate_exception_record, for a record in a list of them
ValidException(e) ==
    e.rules # {} /\ e.skills # {} /\ e.approvers # {} /\ e.approved < e.expires
        /\ e.scope \in {"promotion", "release"}

\* validate_exception_policy: one bad record or one repeated id refuses them all.
ExceptionsLoad(exceptions) ==
    \A e \in exceptions : ValidException(e) /\ \A f \in exceptions : f.id = e.id => f = e

\* Mutant: an exception still counts in the second it expires.
WaivesAtExpiry(e, scope, names, rule, now) ==
    /\ e.scope = scope /\ names \cap e.skills # {} /\ rule \in e.rules
    /\ e.approved <= now /\ now <= e.expires

\* match_active_exceptions, for one rule; a skill goes by its name and its
\* qualified name (_matches_skill_target).
Waives(e, scope, names, rule, now) ==
    /\ e.scope = scope /\ names \cap e.skills # {} /\ rule \in e.rules
    /\ e.approved <= now /\ now < e.expires

\* collect_skill_report: passed, once the exceptions load.  The policy is taken as it is.
Promotes(p, s, exceptions, now) ==
    /\ ExceptionsLoad(exceptions)
    /\ \A issue \in Issues(p, s) : \E e \in exceptions : Waives(e, "promotion", s.names, issue, now)

-------------------------------------------------------------------------------
(* Properties *)

\* Whoever approved and has not spoken since, by time: a reference that looks
\* at one reviewer's decisions as a whole.
StandingApprovals(p, entries) ==
    {r \in Reviewers(p) :
        \E n \in DOMAIN entries :
            /\ entries[n] = ReviewEntry(r, "approved", entries[n].at)
            /\ \A k \in DOMAIN entries \ {n} : entries[k].who = r =>
                  entries[k].at < entries[n].at \/ (entries[k].at = entries[n].at /\ k < n)}

\* The rule can be met without the owner.
OthersSuffice(p, s) ==
    LET others == Reviewers(p) \ {s.owner}
    IN  /\ Cardinality(others) >= RuleFor(p, s).min
        /\ RuleFor(p, s).groups \subseteq UNION {GroupsOf(p, r) : r \in others}

\* An open gate is backed by the standing approval of enough configured
\* reviewers covering every required group, and where reviewers must differ
\* from the owner, by the owner's own only if the others could not have met
\* the rule (evaluate_review_state, owner_review_unavoidable).
OpenGateIsBacked(p, s) ==
    GatePass(p, s) =>
        \E backing \in SUBSET StandingApprovals(p, Entries(s)) :
            /\ Cardinality(backing) >= RuleFor(p, s).min
            /\ RuleFor(p, s).groups \subseteq UNION {GroupsOf(p, r) : r \in backing}
            /\ p.differ /\ (~p.fallback \/ OthersSuffice(p, s)) => s.owner \notin backing

\* Evidence that arrives late is ignored: imported decisions that are older
\* than what their reviewers wrote in reviews.json change nothing.
LateEvidenceIsIgnored(p, s) ==
    (\A n \in DOMAIN s.evidence : \E k \in DOMAIN s.reviews :
        s.reviews[k].who = s.evidence[n].who /\ s.evidence[n].at < s.reviews[k].at)
    => LET t == [s EXCEPT !.evidence = <<>>]
       IN  Approvals(p, s) = Approvals(p, t) /\ Rejections(p, s) = Rejections(p, t)

\* A decision added to reviews.json.
With(s, e) == [s EXCEPT !.reviews = Append(@, e)]

\* One more approval never closes the gate and one more rejection never opens
\* it, whoever gives it and whenever.
DecisionsPushOneWay(p, s, e) ==
    /\ e.decision = "approved" /\ GatePass(p, s) => GatePass(p, With(s, e))
    /\ e.decision = "rejected" /\ s.file /\ ~GatePass(p, s) => ~GatePass(p, With(s, e))

\* Whoever is recommended can help: a new approval of theirs counts where it
\* did not count before, and covers the group they were recommended for.
RecommendedApprovalCounts(p, s, now) ==
    \A g \in TargetGroups(p, s) : \A r \in Eligible(p, s, g) :
        LET t == With(s, ReviewEntry(r, "approved", now))
        IN  Cardinality(Approvals(p, t)) = Cardinality(Approvals(p, s)) + 1 /\ g \notin MissingGroups(p, t)

\* Nothing is promoted past a closed gate or a refused review state but by a
\* live exception for this skill, approved by someone, that names a rule about
\* reviews: for a closed gate one about the gate, for the state that very rule.
PromotionIsEarned(p, s, exceptions, now) ==
    LET live == {e \in exceptions : e.approvers # {} /\ s.names \cap e.skills # {} /\ now \in e.approved .. e.expires - 1}
    IN  Promotes(p, s, exceptions, now) =>
            /\ ~GatePass(p, s) => \E e \in live : e.rules \cap
                   {"missing-reviews-file", "minimum-approvals", "required-reviewer-groups", "blocking-rejections"} # {}
            /\ EffectiveState(p, s) \notin p.states => \E e \in live : "effective-review-state" \in e.rules
===============================================================================
