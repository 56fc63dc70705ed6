-------------------------------- MODULE Planner --------------------------------
(***************************************************************************)
(* Dependency resolution of an install: a backtracking search for one      *)
(* version of every needed skill, a check of the result against what is    *)
(* installed, and the order in which it is applied                         *)
(* (src/infinitas_skill/install: service.py, source_resolution.py,         *)
(* target_validation.py, plan_builder.py).                                 *)
(*                                                                         *)
(* A candidate is [pub, name, v, reg, stage, dist, installable, deps,      *)
(* conflicts, rank]; a dependency or a conflict is [pub, name, expr, reg,  *)
(* inc, rank], with reg = "" for no registry hint; an installed skill is   *)
(* [pub, name, v, lock, from, reg, conflicts], with at most one locked     *)
(* version, and has no registry_name (reg = "") but where it came from.    *)
(* rank stands for the place of the strings that sort keys end with.       *)
(***************************************************************************)
EXTENDS Versions, FiniteSets, SequencesExt

CONSTANTS RegistryOrder,  \* enabled registries, highest priority first
          IdentityOrder,  \* identity keys in the order of their strings
          MaxDepth        \* bound: choices open at once (the interpreter's recursion limit)

ASSUME MaxDepthAssumption == MaxDepth \in Nat \ {0}

VARIABLES problem,     \* what is planned: [root, catalog, installed, mode]; never changes
          phase,       \* "resolving", "choosing", "found", "ordering" or how it ended:
                       \* "planned", "unresolved", "unsafe" or "overflow"
          selected,    \* the candidate chosen for each identity
          required,    \* requirements not yet looked at
          choices,     \* the calls of _resolve_candidates in progress, outermost first
          visits,      \* the calls of visit in progress
          visited, applyOrder

planVars == <<problem, phase, selected, required, choices, visits, visited, applyOrder>>

searchVars == <<selected, required, choices>>

orderVars == <<visits, visited, applyOrder>>

-------------------------------------------------------------------------------
(* Requirements and candidates *)

\* A dependency or conflict entry (_normalize_entry).
PlanEntry(pub, name, expr, reg, inc, rank) ==
    [pub |-> pub, name |-> name, expr |-> expr, reg |-> reg, inc |-> inc, rank |-> rank]

\* A working tree or a distribution of a registry (_skill_candidate).
PlanCandidate(pub, name, v, reg, stage, dist, says, rank) ==
    [pub |-> pub, name |-> name, v |-> v, reg |-> reg, stage |-> stage, dist |-> dist,
     installable |-> says.installable, deps |-> says.deps, conflicts |-> says.conflicts, rank |-> rank]

\* identity_key_for
IdentityKey(x) == IF x.pub = "" THEN <<x.name>> ELSE <<x.pub, x.name>>

Place(seq, x) == CHOOSE n \in DOMAIN seq : seq[n] = x

\* scan_enabled_registry_skills, _candidate_indexes and the lookup in
\* matching_candidates: by identity, by bare name when that finds nothing.
Pool(catalog, req) ==
    LET same == {c \in catalog : IdentityKey(c) = IdentityKey(req)}
    IN  IF same # {} THEN same ELSE {c \in catalog : c.name = req.name}

\* _prepare_requirement
Requirements(c) == {[dep |-> d, from |-> c.reg] : d \in c.deps}

\* candidate_satisfies_all
SatisfiesAll(c, reqs) ==
    /\ c.installable
    /\ \A r \in reqs :
          /\ r.dep.reg \in {"", c.reg}
          /\ c.stage = "incubating" => r.dep.inc
          /\ c.stage = "archived" => ConstraintIsExact(r.dep.expr)
          /\ VersionSatisfies(c.v, r.dep.expr)

\* constraints_compatible
Compatible(reqs) == \A r, s \in reqs : r.dep.reg = "" \/ s.dep.reg \in {"", r.dep.reg}

\* The place of a candidate's registry in preferred_registries: first the
\* registries of those who ask, in the order of what they ask, then the
\* configured ones.  A hint leaves candidates of one registry only.
RegistryRank(c, reqs) ==
    IF \E r \in reqs : r.from = c.reg
    THEN Cardinality({s.from : s \in {s \in reqs : \A r \in reqs : r.from = c.reg => s.dep.rank < r.dep.rank}})
    ELSE Cardinality(reqs) + Place(RegistryOrder, c.reg)

\* installed_identity_matches; item is empty when nothing is installed.
IsInstalled(c, item) ==
    \E i \in item : IdentityKey(i) = IdentityKey(c) /\ i.v = c.v /\ i.from \in {"", c.reg}

StageRank(c, exactOnly) ==
    Place(IF exactOnly THEN <<"archived", "active", "incubating">>
                       ELSE <<"active", "incubating", "archived">>, c.stage)

\* CandidateComparator, as the key it compares by; newer versions first.
CandidateKey(c, reqs, item, pool) ==
    <<IF IsInstalled(c, item) THEN 0 ELSE 1,
      RegistryRank(c, reqs),
      IF c.dist THEN 0 ELSE 1,
      StageRank(c, \A r \in reqs : ConstraintIsExact(r.dep.expr)),
      Cardinality({d \in pool : CompareVersions(d.v, c.v) > 0}),
      c.rank>>

\* matching_candidates; a call tries them in the order of their keys.
MatchingCandidates(reqs) ==
    {c \in UNION {Pool(problem.catalog, r.dep) : r \in reqs} : SatisfiesAll(c, reqs)}

IsFirst(c, call) ==
    LET item   == {problem.installed[id] : id \in DOMAIN problem.installed \cap {call.key}}
        pool   == MatchingCandidates(call.reqs)
        ranked == {<<d, CandidateKey(d, call.reqs, item, pool)>> : d \in call.left}
    IN  \E r \in ranked : r[1] = c /\ \A s \in ranked : FirstDifference(r[2], s[2], Sign) <= 0

\* entry_matches_skill
EntryMatches(e, s) ==
    /\ e.name = s.name
    /\ e.pub # "" => e.pub = s.pub
    /\ e.reg # "" => e.reg = s.reg
    /\ VersionSatisfies(s.v, e.expr)

Conflicting(c, d) ==
    \/ \E e \in c.conflicts : EntryMatches(e, d)
    \/ \E e \in d.conflicts : EntryMatches(e, c)

\* Mutant: only the candidate's own conflicts are looked at.
SelectedConflictOneWay(c, chosen) ==
    \E id \in DOMAIN chosen \ {IdentityKey(c)} : \E e \in c.conflicts : EntryMatches(e, chosen[id])

\* selected_conflict_reason
SelectedConflict(c, chosen) ==
    \E id \in DOMAIN chosen \ {IdentityKey(c)} :
        chosen[id].name = c.name \/ Conflicting(c, chosen[id])

-------------------------------------------------------------------------------
(* The search *)

\* Of any problem.
PlanInit ==
    /\ phase = "resolving"
    /\ selected = [id \in {IdentityKey(problem.root)} |-> problem.root]
    /\ required = Requirements(problem.root)
    /\ choices = <<>> /\ visits = <<>> /\ visited = {} /\ applyOrder = <<>>

\* Mutant: also an error that no call is there to catch.
RaisesAgain(calls) == phase' = "choosing"

\* A DependencyError is caught by the innermost call that tries candidates.
Raises(calls) == phase' = IF calls = <<>> THEN "unresolved" ELSE "choosing"

\* _next_requirement_group: the requirements of the first identity.
NextGroup(key, group) ==
    /\ \E r \in required : IdentityKey(r.dep) = key
    /\ \A r \in required : Place(IdentityOrder, key) <= Place(IdentityOrder, IdentityKey(r.dep))
    /\ group = {r \in required : IdentityKey(r.dep) = key}

Resolves(key, group) == phase = "resolving" /\ NextGroup(key, group)

\* Nothing left to require: _resolve_recursive returns through all calls.
Finds ==
    /\ phase = "resolving" /\ required = {}
    /\ phase' = "found"
    /\ UNCHANGED <<problem, searchVars, orderVars>>

\* Two registry hints, or a selected version that a later requirement excludes.
Disagrees(key, group) ==
    /\ Resolves(key, group)
    /\ Compatible(group) => key \in DOMAIN selected /\ ~SatisfiesAll(selected[key], group)
    /\ Raises(choices)
    /\ UNCHANGED <<problem, searchVars, orderVars>>

Reuses(key, group) ==
    /\ Resolves(key, group) /\ Compatible(group)
    /\ key \in DOMAIN selected /\ SatisfiesAll(selected[key], group)
    /\ required' = required \ group
    /\ UNCHANGED <<problem, phase, selected, choices, orderVars>>

\* No candidate at all is an error of the same call.
OpensChoice(key, group) ==
    /\ Resolves(key, group) /\ Compatible(group)
    /\ key \notin DOMAIN selected
    /\ IF Len(choices) < MaxDepth
       THEN /\ choices' = Append(choices, [key |-> key, reqs |-> group, left |-> MatchingCandidates(group),
                                           selected |-> selected, rest |-> required \ group])
            /\ phase' = "choosing"
       ELSE phase' = "overflow" /\ UNCHANGED choices
    /\ UNCHANGED <<problem, selected, required, orderVars>>

Call == Last(choices)

\* Mutant: the first candidate that fails ends the search.
AlternativesNone(left, c) == {}

\* Mutant: a candidate that failed is tried again.
AlternativesAll(left, c) == left

\* What the loop of _resolve_candidates tries after c.
Alternatives(left, c) == left \ {c}

\* Mutant: the choice is not recorded.
SelectingForgets(chosen, c) == chosen

Selecting(chosen, c) ==
    [id \in DOMAIN chosen \cup {IdentityKey(c)} |-> IF id = IdentityKey(c) THEN c ELSE chosen[id]]

Passes(c) == choices' = [choices EXCEPT ![Len(choices)].left = Alternatives(Call.left, c)]

RejectsCandidate(c) ==
    /\ phase = "choosing" /\ IsFirst(c, Call)
    /\ SelectedConflict(c, Call.selected)
    /\ Passes(c)
    /\ UNCHANGED <<problem, phase, selected, required, orderVars>>

TriesCandidate(c) ==
    /\ phase = "choosing" /\ IsFirst(c, Call)
    /\ ~SelectedConflict(c, Call.selected)
    /\ selected' = Selecting(Call.selected, c)
    /\ required' = Call.rest \cup Requirements(c)
    /\ Passes(c)
    /\ phase' = "resolving"
    /\ UNCHANGED <<problem, orderVars>>

GivesUp ==
    /\ phase = "choosing" /\ Call.left = {}
    /\ choices' = Front(choices)
    /\ Raises(choices')
    /\ UNCHANGED <<problem, selected, required, orderVars>>

-------------------------------------------------------------------------------
(* The check against what is installed, and the order of application *)

RootKey == IdentityKey(problem.root)

\* Mutant: the locked versions are not compared.
FinalStateUnlocked(p, chosen) ==
    \A id \in DOMAIN chosen, i \in DOMAIN p.installed \ DOMAIN chosen :
        ~Conflicting(chosen[id], p.installed[i])

\* validate_final_state
FinalState(p, chosen) ==
    /\ \A id \in DOMAIN chosen, i \in DOMAIN p.installed \ DOMAIN chosen :
          ~Conflicting(chosen[id], p.installed[i])
    /\ \A id \in DOMAIN chosen \cap DOMAIN p.installed :
          (p.mode = "install" /\ id = IdentityKey(p.root)) \/ p.installed[id].lock \subseteq {chosen[id].v}

Visit(id) == [id |-> id, left |-> selected[id].deps]

Validates ==
    /\ phase = "found"
    /\ IF FinalState(problem, selected)
       THEN phase' = "ordering" /\ visits' = <<Visit(RootKey)>> /\ visited' = {RootKey}
       ELSE phase' = "unsafe" /\ UNCHANGED <<visits, visited>>
    /\ UNCHANGED <<problem, searchVars, applyOrder>>

Innermost == Last(visits)

\* visit: dependencies in the order of their names, each identity once.
VisitsDependency(d) ==
    /\ phase = "ordering"
    /\ d \in Innermost.left /\ \A e \in Innermost.left : d.rank <= e.rank
    /\ LET id   == IdentityKey(d)
           rest == [visits EXCEPT ![Len(visits)].left = Innermost.left \ {d}]
       IN  IF id \in DOMAIN selected \ visited
           THEN visits' = Append(rest, Visit(id)) /\ visited' = visited \cup {id}
           ELSE visits' = rest /\ UNCHANGED visited
    /\ UNCHANGED <<problem, phase, searchVars, applyOrder>>

Applies ==
    /\ phase = "ordering" /\ Innermost.left = {}
    /\ applyOrder' = Append(applyOrder, Innermost.id)
    /\ visits' = Front(visits)
    /\ phase' = IF Len(visits) = 1 THEN "planned" ELSE "ordering"
    /\ UNCHANGED <<problem, searchVars, visited>>

\* plan_action of a step
PlanAction(p, id, c) ==
    LET isRoot  == id = IdentityKey(p.root)
        item    == p.installed[id]
        version == c.v \in {item.v} \cup item.lock
        source  == item.from \in {"", c.reg}
    IN  IF id \notin DOMAIN p.installed THEN (IF isRoot /\ p.mode = "sync" THEN "sync" ELSE "install")
        ELSE IF version /\ source THEN "keep"
        ELSE IF isRoot /\ p.mode = "sync" THEN "sync"
        ELSE IF version THEN "switch"
        ELSE IF source THEN "upgrade" ELSE "switch-upgrade"

PlanNext ==
    \/ Finds \/ GivesUp \/ Validates \/ Applies
    \/ \E r \in required : LET key   == IdentityKey(r.dep)
                              group == {s \in required : IdentityKey(s.dep) = key}
                          IN  Disagrees(key, group) \/ Reuses(key, group) \/ OpensChoice(key, group)
    \/ phase = "choosing" /\ \E c \in Call.left : RejectsCandidate(c) \/ TriesCandidate(c)
    \/ phase = "ordering" /\ \E d \in Innermost.left : VisitsDependency(d)

\* The command runs until it is done.
PlanSpec == PlanInit /\ [][PlanNext]_planVars /\ WF_planVars(PlanNext)

-------------------------------------------------------------------------------
(* Reference: what a selection has to be *)

Chosen(S, d) == {c \in S : IdentityKey(c) = IdentityKey(d)}

Meets(c, d) == SatisfiesAll(c, {[dep |-> d]})

\* A set S of candidates, one per name, that contains what its members need.
Consistent(S) ==
    /\ \A c, d \in S : c # d => c.name # d.name /\ ~Conflicting(c, d)
    /\ \A c \in S : \A d \in c.deps : \E e \in Chosen(S, d) : Meets(e, d)

\* The selected identities that id needs directly, and directly or not.
NeedsDirectly(chosen, id) == {IdentityKey(d) : d \in chosen[id].deps} \cap DOMAIN chosen

Closed(chosen, T) == \A id \in T : NeedsDirectly(chosen, id) \subseteq T

Needed(chosen, id) ==
    {k \in DOMAIN chosen : \A T \in SUBSET DOMAIN chosen :
        NeedsDirectly(chosen, id) \subseteq T /\ Closed(chosen, T) => k \in T}

Everyone(p) == p.catalog \cup {p.root}

Identities(p) == {IdentityKey(c) : c \in Everyone(p)}

\* Every dependency finds candidates of the identity it names only.
Exact(p) ==
    \A c \in Everyone(p) : \A d \in c.deps :
        \A e \in Pool(p.catalog, d) : IdentityKey(e) = IdentityKey(d)

-------------------------------------------------------------------------------
(* Properties *)

Dependencies(p) == UNION {c.deps : c \in Everyone(p)}

AllRequirements(p) == UNION {Requirements(c) : c \in Everyone(p)}

Selections(p) == UNION {[T -> Everyone(p)] : T \in {T \in SUBSET Identities(p) : IdentityKey(p.root) \in T}}

Calls(p) ==
    [key : {IdentityKey(d) : d \in Dependencies(p)}, reqs : SUBSET AllRequirements(p),
     left : SUBSET p.catalog, selected : Selections(p), rest : SUBSET AllRequirements(p)]

Visits(p) == [id : Identities(p), left : SUBSET Dependencies(p)]

\* What the search and the visits hold is about skills of the problem.
PlanTypeOK ==
    /\ phase \in {"resolving", "choosing", "found", "ordering", "planned", "unresolved", "unsafe", "overflow"}
    /\ selected \in Selections(problem) /\ required \subseteq AllRequirements(problem)
    /\ choices \in Seq(Calls(problem)) /\ (phase = "choosing" => choices # <<>>)
    /\ visits \in Seq(Visits(problem))
    /\ phase = "ordering" => visits # <<>>
    /\ visited \subseteq Identities(problem) /\ applyOrder \in Seq(Identities(problem))

\* What is applied is consistent: every requirement of every selected skill is
\* met by the one version selected, nothing conflicts, each skill is applied
\* once, and after what it needs unless that needs it, too.
PlanIsSound ==
    Exact(problem) /\ phase = "planned" =>
        /\ Consistent({selected[id] : id \in DOMAIN selected})
        /\ IsInjective(applyOrder) /\ {applyOrder[n] : n \in DOMAIN applyOrder} = DOMAIN selected
        /\ \A m, n \in DOMAIN applyOrder :
              applyOrder[m] \in NeedsDirectly(selected, applyOrder[n]) =>
                  m < n \/ applyOrder[n] \in Needed(selected, applyOrder[m])

\* The search gives up only when no consistent selection exists, however
\* early candidates narrow the later ones.
PlanIsComplete ==
    Exact(problem) /\ phase = "unresolved" =>
        \A S \in SUBSET problem.catalog : ~Consistent(S \cup {problem.root})

\* A plan never changes the version of an installed skill behind its lock (the
\* root of an install excepted) and never applies a skill that an installed
\* one, which stays, conflicts with.
PlanRespectsInstalled ==
    phase = "planned" =>
        \A id \in DOMAIN problem.installed :
            IF id \in DOMAIN selected
            THEN \/ PlanAction(problem, id, selected[id]) \in {"keep", "switch", "sync"}
                 \/ id = RootKey /\ problem.mode = "install"
                 \/ problem.installed[id].lock = {}
            ELSE \A x \in DOMAIN selected : ~Conflicting(selected[x], problem.installed[id])

\* The search is never deeper than there are identities to choose from.
PlanFits ==
    Exact(problem) /\ IsFiniteSet(Identities(problem)) /\ Cardinality(Identities(problem)) <= MaxDepth =>
        phase # "overflow"

\* The plan of an install keeps its promises: what is planned is sound, what is
\* refused could not be planned, and locks and the recursion limit are kept.
PlansAreRight == PlanTypeOK /\ PlanIsSound /\ PlanIsComplete /\ PlanRespectsInstalled /\ PlanFits
===============================================================================
