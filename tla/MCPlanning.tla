------------------------------ MODULE MCPlanning ------------------------------
(* What the command line works out in many steps, for TLC: the plan of an      *)
(* install, an effective policy, and the rotation of an agent's key, which is  *)
(* interrupted.  A behaviour runs one of the three.                            *)
EXTENDS Planner, PolicySources, AgentProfile, TLC

VARIABLE part

-------------------------------------------------------------------------------
(* Problems: a root that may need a and b, each in two versions that may need *)
(* or exclude the other, and another publisher's a.                           *)

V(n) == Version(n, 0, 0, <<>>)

\* "*", "=1.0.0" and ">=2.0.0", in the order of their texts.
Exprs == <<{}, {Token("=", V(1))}, {Token(">=", V(2))}>>

Names == <<"a", "b", "root">>

\* What the skill by asks of the skill name of publisher pub.
Asks(by, pub, name, e, inc) ==
    PlanEntry(pub, name, Exprs[e], "", inc, 20 * Place(Names, name) + 4 * e + Place(Names, by))

Says(deps, conflicts) == [deps |-> deps, conflicts |-> conflicts, installable |-> TRUE]

Silent == Says({}, {})

Needs(by, name, e) == Says({Asks(by, "p", name, e, FALSE)}, {})

Excludes(by, name, e) == Says({}, {Asks(by, "p", name, e, FALSE)})

\* What one candidate says of the other skill: nothing, a need or a conflict.
Anything(by, name) ==
    {Silent} \cup {Needs(by, name, e) : e \in 1 .. 3} \cup {Excludes(by, name, e) : e \in 2 .. 3}

Something(by, name) == {Silent, Needs(by, name, 1), Needs(by, name, 3), Excludes(by, name, 2)}

Candidate(name, n, reg, stage, says) == PlanCandidate("p", name, V(n), reg, stage, FALSE, says, n)

\* The root asks for a and b in the given ranges, 0 for not at all.
Problem(pub, ea, eb, a1, a2, b1, b2, stage, here, mode) ==
    [root |-> Candidate("root", 1, "r1", "active",
                  Says({Asks("root", pub, "a", e, TRUE) : e \in {ea} \ {0}}
                           \cup {Asks("root", "p", "b", e, FALSE) : e \in {eb} \ {0}}, {})),
     catalog |-> {Candidate("a", 1, "r1", "active", a1), Candidate("a", 2, "r2", stage, a2),
                  Candidate("b", 1, "r2", "active", b1), Candidate("b", 2, "r1", "active", b2),
                  PlanCandidate("q", "a", V(1), "r1", "active", TRUE, Silent, 1)},
     installed |-> here, mode |-> mode]

NoneInstalled == [id \in {} |-> Silent]

\* a is there in version n, with or without a lock, and may exclude b.
Installed ==
    {[id \in {<<"p", "a">>} |->
        [pub |-> "p", name |-> "a", v |-> V(n), lock |-> lock, from |-> IF n = 1 THEN "r1" ELSE "", reg |-> "",
         conflicts |-> says.conflicts]] :
        n \in 1 .. 2, lock \in {{}, {V(1)}}, says \in {Silent, Excludes("a", "b", 3)}}

OtherA == Says({Asks("b", "q", "a", 1, FALSE)}, {})

Unavailable == [Silent EXCEPT !.installable = FALSE]

Registries == <<"r1", "r2">>

\* In the order of the strings: bare names, qualified ones.
KeyOrder == << <<"a">>, <<"b">>, <<"p", "a">>, <<"p", "b">>, <<"p", "root">>, <<"q", "a">> >>

\* Constraints met late, in one stage or three; something to replace; dependencies that
\* name no publisher.
Problems ==
    \/ \E ea \in 0 .. 3, eb \in 0 .. 1, a1 \in Anything("a", "b"), a2 \in Something("a", "b"),
          b1 \in Something("b", "a"), b2 \in {Silent, Needs("b", "a", 2), OtherA, Unavailable} :
          problem = Problem("p", ea, eb, a1, a2, b1, b2, "active", NoneInstalled, "install")
    \/ \E ea \in 0 .. 3, eb \in 0 .. 1, a1 \in Anything("a", "b"), b \in Anything("b", "a"),
          stage \in {"archived", "incubating"} :
          problem = Problem("p", ea, eb, a1, Silent, b, b, stage, NoneInstalled, "install")
    \/ \E ea \in 0 .. 3, eb \in 0 .. 1, a2 \in {Silent, Excludes("a", "b", 2)}, b1 \in {Silent, Needs("b", "a", 2), Excludes("b", "a", 3)},
          here \in Installed, mode \in {"install", "upgrade"} :
          problem = Problem("p", ea, eb, Silent, a2, b1, Silent, "active", here, mode)
    \/ \E a \in {Silent, Says({Asks("a", "", "b", 1, FALSE)}, {})}, b \in {Silent, Says({Asks("b", "", "a", 1, FALSE)}, {})} :
          problem = Problem("", 1, 0, a, a, b, b, "active", NoneInstalled, "install")

-------------------------------------------------------------------------------
(* Policy files: up to two packs and a local file that say something of one   *)
(* policy and of two exceptions, in fields that hold values or objects.       *)

SomePaths == {<<"a">>, <<"b">>, <<"a", "b">>}

\* A value, an object that is empty, and objects with a field.
One == <<"a">> :> 1
Empty == <<"a">> :> Mapping
Deep == Empty @@ (<<"a", "b">> :> 1)
Two == Empty @@ (<<"a", "b">> :> 2) @@ (<<"b">> :> 2)

PackSays(d, exceptions) == [fields |-> d, exceptions |-> exceptions]

Exception(id, body) == [id |-> id, body |-> body]

Lists ==
    {<<>>} \cup {<<Exception(i, d)>> : i \in {"e1", "e2"}, d \in {One, Empty, Deep}}
           \cup {<<Exception("e1", Two), Exception("e2", One)>>, <<Exception("e2", Deep), Exception("e1", Two), Exception("e2", One)>>}

Pack(name, domain, payload) == [name |-> name, domains |-> domain :> payload]

Files(selection, p1, p2, local) ==
    [selection |-> selection, packs |-> [p1 |-> p1, p2 |-> p2], domain |-> "exception_policy", local |-> local]

\* Three layers of fields or of exceptions; packs and files that are missing, invalid,
\* named twice or say nothing of the domain.
PolicyFiles ==
    \/ \E d1, d2, d3 \in {One, Empty, Deep, Two}, names \in {<<"p1", "p2">>, <<"p2", "p1">>} :
          files = Files({names}, Pack("p1", "exception_policy", PackSays(d1, <<>>)),
                        Pack("p2", "exception_policy", PackSays(d2, <<>>)), {PackSays(d3, <<>>)})
    \/ \E l1, l2, l3 \in Lists :
          files = Files({<<"p1", "p2">>}, Pack("p1", "exception_policy", PackSays(Nothing, l1)),
                        Pack("p2", "exception_policy", PackSays(Nothing, l2)), {PackSays(Nothing, l3)})
    \/ \E selection \in {{}, {<<>>}, {<<"p1">>}, {<<"p1", "p1">>}, {<<"p3">>}, {<<"p2", "p1">>}},
          name \in {"p1", "p2"}, domain \in {"exception_policy", "team_policy"}, local \in {{}, {PackSays(Deep, <<>>)}} :
          files = Files(selection, Pack(name, domain, PackSays(Two, <<>>)), Pack("p2", domain, PackSays(One, <<>>)), local)

-------------------------------------------------------------------------------
\* The parts that do not run start in one state each.
Init ==
    /\ part \in {"plan", "policy", "rotation"}
    /\ IF part = "plan" THEN Problems ELSE problem = Problem("p", 0, 0, Silent, Silent, Silent, Silent, "active", NoneInstalled, "install")
    /\ IF part = "policy" THEN PolicyFiles
       ELSE files = Files({}, Pack("p1", "team_policy", PackSays(One, <<>>)), Pack("p2", "team_policy", PackSays(One, <<>>)), {})
    /\ PlanInit /\ PolicyInit /\ ProfileInit

Others(p) ==
    /\ part = p /\ UNCHANGED part
    /\ p # "plan" => UNCHANGED planVars
    /\ p # "policy" => UNCHANGED policyVars
    /\ p # "rotation" => UNCHANGED profileVars

Plans == Others("plan") /\ PlanNext

Next ==
    \/ Plans
    \/ Others("policy") /\ PolicyNext
    \/ Others("rotation") /\ ProfileNext

vars == <<part, planVars, policyVars, profileVars>>

Spec == Init /\ [][Next]_vars /\ WF_planVars(Plans) /\ ProfileFairness

\* Every planning ends, also with dependencies that need each other.
PlanningEnds == part = "plan" => <>(phase \in {"planned", "unresolved", "unsafe", "overflow"})
===============================================================================
