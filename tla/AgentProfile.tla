------------------------------ MODULE AgentProfile ------------------------------
(***************************************************************************)
(* The agent's side of its key: `infinitas agent join` and `rotate-key`    *)
(* (src/infinitas_skill/agent/cli.py and profile.py) against the server's  *)
(* promise of AgentEnrollment (one live key; a rotation replaces it).      *)
(*                                                                         *)
(* The key exists nowhere but in two files, the profile and the pending    *)
(* rotation beside it.  The command may be killed between any two steps,   *)
(* the server's answer may be lost after the key was replaced, and the     *)
(* command is run again.  One command runs on a profile at a time.         *)
(***************************************************************************)
EXTENDS Naturals

CONSTANTS ApiKeys,  \* keys new_keys may generate
          NoKey

ASSUME ProfileAssumption == NoKey \notin ApiKeys

VARIABLES profile,  \* api_key of <name>.json
          pending,  \* .<name>.json.pending-rotation
          proposed, \* keys of enrollments that await a decision
          valid,    \* keys the server accepts: unrevoked, of an active agent
          generated, \* keys generated so far
          step,     \* where the running command is
          current, replacement   \* its local variables

profileVars == <<profile, pending, proposed, valid, generated, step, current, replacement>>

MaybeKey == ApiKeys \cup {NoKey}

PendingRotation == [expected : MaybeKey, key : MaybeKey]

Rotation(expected, key) == [expected |-> expected, key |-> key]

NoRotation == Rotation(NoKey, NoKey)

\* Types of the two files and of the running command.
ProfileTypeOK ==
    /\ profile \in MaybeKey
    /\ pending \in PendingRotation
    /\ proposed \subseteq ApiKeys
    /\ valid \subseteq ApiKeys
    /\ generated \subseteq ApiKeys
    /\ step \in {"idle", "join", "probe", "post", "replace", "unlink"}
    /\ current \in MaybeKey /\ replacement \in MaybeKey

\* The keys that survive a crash.
StoredKeys == {profile, pending.key} \ {NoKey}

FreshKey(k) == k \in ApiKeys \ generated

\* The command ends, is killed, or raises.
CommandStops ==
    /\ step # "idle"
    /\ step' = "idle" /\ current' = NoKey /\ replacement' = NoKey
    /\ UNCHANGED <<profile, pending, proposed, valid, generated>>

-------------------------------------------------------------------------------
(* join *)

\* _join sends the verifier of a new key; the server keeps it as proposed.
JoinPosts(k) ==
    /\ step = "idle" /\ FreshKey(k)
    /\ generated' = generated \cup {k} /\ proposed' = proposed \cup {k}
    /\ step' = "join" /\ replacement' = k
    /\ UNCHANGED <<profile, pending, valid, current>>

\* write_profile: keys an existing profile holds are never replaced.
JoinWrites ==
    /\ step = "join"
    /\ profile' = IF profile = NoKey THEN replacement ELSE profile
    /\ step' = "idle" /\ replacement' = NoKey
    /\ UNCHANGED <<pending, proposed, valid, generated, current>>

\* A maintainer approves an enrollment or a recovery: its key replaces the others.
Approves(k) ==
    /\ k \in proposed
    /\ proposed' = proposed \ {k} /\ valid' = {k}
    /\ UNCHANGED <<profile, pending, generated, step, current, replacement>>

\* A maintainer revokes the agent.
Revokes ==
    /\ valid # {}
    /\ valid' = {} /\ proposed' = {}
    /\ UNCHANGED <<profile, pending, generated, step, current, replacement>>

-------------------------------------------------------------------------------
(* rotate-key *)

\* Mutant: the new key is kept in memory until the server has answered.
StagedRotationNever(k) == pending

\* stage_profile_rotation writes the new key before the server hears of it.
StagedRotation(k) == Rotation(profile, k)

\* No rotation is pending: stage one.
RotateStages(k) ==
    /\ step = "idle" /\ profile # NoKey /\ pending = NoRotation /\ FreshKey(k)
    /\ generated' = generated \cup {k}
    /\ pending' = StagedRotation(k)
    /\ step' = "post" /\ current' = profile /\ replacement' = k
    /\ UNCHANGED <<profile, proposed, valid>>

\* One is pending and belongs to this profile: go on with its key.
RotateResumes ==
    /\ step = "idle" /\ pending # NoRotation
    /\ profile \in {pending.expected, pending.key}
    /\ step' = "probe" /\ current' = profile /\ replacement' = pending.key
    /\ UNCHANGED <<profile, pending, proposed, valid, generated>>

\* Mutant: a key the server already accepts is asked for again.
ProbedAgain == "post"

\* GET /access/me with the staged key tells whether the server has it already.
Probed == IF replacement \in valid THEN "replace" ELSE "post"

RotateProbes ==
    /\ step = "probe"
    /\ step' = Probed
    /\ UNCHANGED <<profile, pending, proposed, valid, generated, current, replacement>>

\* POST /agent/credentials/rotate with the current key; a refusal raises.
RotatePosts ==
    /\ step = "post"
    /\ IF current \in valid /\ current # replacement
       THEN valid' = {replacement} /\ step' = "replace" /\ UNCHANGED <<current, replacement>>
       ELSE UNCHANGED valid /\ step' = "idle" /\ current' = NoKey /\ replacement' = NoKey
    /\ UNCHANGED <<profile, pending, proposed, generated>>

\* finalize_profile_rotation: the profile first, by an atomic rename.
RotateReplaces ==
    /\ step = "replace" /\ pending # NoRotation
    /\ profile' = IF profile = pending.expected THEN pending.key ELSE profile
    /\ step' = "unlink"
    /\ UNCHANGED <<pending, proposed, valid, generated, current, replacement>>

\* ... then the pending file goes.
RotateUnlinks ==
    /\ step = "unlink"
    /\ pending' = NoRotation
    /\ step' = "idle" /\ current' = NoKey /\ replacement' = NoKey
    /\ UNCHANGED <<profile, proposed, valid, generated>>

-------------------------------------------------------------------------------
ProfileInit ==
    /\ profile = NoKey /\ pending = NoRotation
    /\ proposed = {} /\ valid = {} /\ generated = {}
    /\ step = "idle" /\ current = NoKey /\ replacement = NoKey

ProfileNext ==
    \/ \E k \in ApiKeys : JoinPosts(k) \/ Approves(k) \/ RotateStages(k)
    \/ JoinWrites \/ Revokes \/ CommandStops
    \/ RotateResumes \/ RotateProbes \/ RotatePosts \/ RotateReplaces \/ RotateUnlinks

\* The command is run again until it ends well: no step is cut short forever.
ProfileFairness ==
    /\ SF_profileVars(RotateResumes) /\ SF_profileVars(RotateProbes)
    /\ SF_profileVars(RotatePosts) /\ SF_profileVars(RotateReplaces)
    /\ SF_profileVars(RotateUnlinks) /\ WF_profileVars(JoinWrites)

ProfileSpec == ProfileInit /\ [][ProfileNext]_profileVars /\ ProfileFairness

-------------------------------------------------------------------------------
(* Properties *)

\* Whatever the command is doing when it is killed, and whether or not the
\* server's answer arrived, the key the server accepts is in one of the two
\* files: rotate-key never loses it.  Only a maintainer's decision can make
\* the stored keys useless.
RotationKeepsKey ==
    [][valid \cap StoredKeys # {} =>
          \/ valid' \cap StoredKeys' # {}
          \/ valid' = {}
          \/ \E k \in proposed : valid' = {k}]_profileVars

\* A rotation that was interrupted is finished by running the command again,
\* unless the keys of this profile no longer count.
RotationCompletes ==
    pending # NoRotation ~> (pending = NoRotation \/ valid \cap StoredKeys = {})
===============================================================================
