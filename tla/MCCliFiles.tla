------------------------------- MODULE MCCliFiles -------------------------------
(* The commands that rewrite files in several steps, for TLC: a behaviour runs *)
(* one of the five, which share no variable.                                   *)
EXTENDS Install, RegistrySync, OpenClawSnapshot, Backup,
        SkillRelease

VARIABLE part

Offered == {[v |-> 1, reg |-> "r1"], [v |-> 2, reg |-> "r1"], [v |-> 2, reg |-> "r2"]}
OfferedSigned == {[v |-> 1, reg |-> "r1"]}

SigningPolicies ==
    {[trust |-> "ssh", log |-> "required"], [trust |-> "both", log |-> "advisory"]}

\* The parts that do not run start in one state each.
Init ==
    /\ part \in {"install", "sync", "openclaw", "backup", "release"}
    /\ InstallInit /\ SyncInit /\ SnapshotInit /\ BackupInit /\ SkillReleaseInit
    /\ part = "install" \/ \A s \in Skills : written[s] = <<>>
    /\ \A s \in Skills \ {Root} :
          written[s] = IF written[Root] = <<>> THEN <<>> ELSE <<[v |-> 1, reg |-> "r1"]>>
    /\ part = "sync" \/ how = "http"
    /\ part = "openclaw" \/ \A f \in DataFiles : file[f].text = 1
    /\ part = "openclaw" \/ \A a \in DOMAIN target : target[a] = "old"
    /\ part = "release" \/ policy = [trust |-> "ssh", log |-> "required"]

Others(p) ==
    /\ part = p /\ UNCHANGED part
    /\ p # "install" => UNCHANGED installVars
    /\ p # "sync" => UNCHANGED syncVars
    /\ p # "openclaw" => UNCHANGED snapshotVars
    /\ p # "backup" => UNCHANGED backupVars
    /\ p # "release" => UNCHANGED releaseVars

Next ==
    \/ Others("install") /\ InstallNext
    \/ Others("sync") /\ SyncNext
    \/ Others("openclaw") /\ SnapshotNext
    \/ Others("backup") /\ BackupNext
    \/ Others("release") /\ SkillReleaseNext
       /\ (policy.trust = "both" => faults' = 0)  \* where the CI attests as well, nothing fails

vars == <<part, installVars, syncVars, snapshotVars, backupVars, releaseVars>>

Spec == Init /\ [][Next]_vars
===============================================================================
