-------------------------------- MODULE MCAccess --------------------------------
(* Access, RateLimit, Sessions and AgentEnrollment for TLC: a behaviour runs *)
(* one of the four, which share no variable.                                 *)
EXTENDS Access, RateLimit, Sessions, AgentEnrollment, TLC

CONSTANTS v1, v2, g1, g2, k1, k2, k3

VARIABLE part

Init ==
    /\ part \in {"access", "rate", "session", "agents"}
    /\ AccessInit /\ RateInit /\ SessionInit /\ EnrollmentInit

Others(p) ==
    /\ part = p /\ UNCHANGED part
    /\ p # "access" => UNCHANGED accessVars
    /\ p # "rate" => UNCHANGED rateVars
    /\ p # "session" => UNCHANGED sessionVars
    /\ p # "agents" => UNCHANGED enrollmentVars

Next ==
    \/ Others("access") /\ AccessNext
    \/ Others("rate") /\ RateNext
    \/ Others("session") /\ SessionNext
    \/ Others("agents") /\ EnrollmentNext

Spec == Init /\ [][Next]_<<part, accessVars, rateVars, sessionVars, enrollmentVars>>

\* Attempts are admitted and refused exactly as the window says, and the sessions a
\* login opens end with the password they prove.
LoginsAreGuarded == RateIsExact /\ SessionsAreSound

Symmetry == Permutations({v1, v2}) \cup Permutations({g1, g2}) \cup Permutations({k1, k2, k3})
===============================================================================
