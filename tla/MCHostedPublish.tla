----------------------------- MODULE MCHostedPublish -----------------------------
(* Instances of HostedPublish for TLC: one command repeated through several    *)
(* troubles, and two at once, on one directory or on one each, through fewer.  *)
(* Which of two directories or bundles is which does not matter.               *)
EXTENDS HostedPublish

CONSTANTS PairTrouble,  \* troubles that two commands of a user on one directory go through
          PairJobs      \* materializations under way while two commands run

Init ==
    /\ PublishInit
    /\ DOMAIN dir \in {{1}, {1, 2}}
    /\ trouble = CASE DOMAIN dir = {1} -> 0
                   [] dir = <<1, 1>> /\ kind = "user" -> LastTrouble - PairTrouble
                   [] OTHER -> LastTrouble
    /\ dir[1] = 1 /\ source[1] = "b1"
    /\ source[2] = "b1" \/ (2 \in DOMAIN dir /\ dir[2] = 2)

\* Of two commands the second always waits for the release.
Next ==
    /\ PublishNext
    /\ Cardinality(DOMAIN dir) = 2 =>
         /\ server'.jobs <= PairJobs
         /\ client'[2].step # "idle" => client'[2].wait

Spec == Init /\ [][Next]_publishVars /\ Fairness
===============================================================================
