---------------------------- MODULE ReleasePipeline ----------------------------
(***************************************************************************)
(* How a skill version becomes a released artifact: the release and agent  *)
(* publish endpoints enqueue materialize_release jobs, the worker builds   *)
(* the files, registers them, decides the agent's publish intent and       *)
(* commits the outcome together with the job's.  Composed with JobQueue,   *)
(* whose worker steps this module extends.                                 *)
(*                                                                         *)
(* SQLite has one writer: from the first row a transaction writes until it *)
(* ends nothing else is written, so such a stretch is one step here.       *)
(* What a handler reads before its first write may be stale by then: those *)
(* reads are steps of their own.                                           *)
(***************************************************************************)
EXTENDS JobQueue

CONSTANTS Releases,   \* one release per skill version
          Clients     \* concurrent API requests

ASSUME ReleaseAssumption == Releases # {}

VARIABLES rel,        \* releases.state, or "none" before the row exists
          rows,       \* do the artifact rows describe the files on disk?
          intent,     \* agent_publish_intents.state, or "none"
          exposed,    \* releases the publish intent made public
          agent,      \* the agent: public (active, auto_public_publish on),
                      \* private (active, off) or suspended
          jobRel,     \* release_id of each job
          jobIntent,  \* does the job's payload carry publish_intent_id?
          req,        \* what each request has read and is about to write
          stage,      \* how far each worker's transaction is in its job
          verdict     \* the intent decision a worker took before writing

flowVars == <<rel, rows, intent, exposed, agent, jobRel, jobIntent, req, stage, verdict>>
allVars == <<vars, flowVars>>

NoRequest == [step |-> "none", rel |-> CHOOSE r \in Releases : TRUE]

Steps == {"none", "create", "recover", "publishNew", "publishExisting", "intentStored", "enqueue"}

\* start: nothing done; current: the release was found materialized;
\* built: files stored; decided: the intent's policy was read.
Stages == {"start", "current", "built", "decided"}

FlowTypeOK ==
    /\ rel \in [Releases -> {"none", "preparing", "ready", "failed"}]
    /\ rows \in [Releases -> {"none", "current", "stale"}]
    /\ intent \in [Releases -> {"none", "pending", "activated", "suppressed"}]
    /\ exposed \subseteq Releases
    /\ agent \in {"public", "private", "suspended"}
    /\ jobRel \in [Jobs -> Releases]
    /\ jobIntent \in [Jobs -> BOOLEAN]
    /\ req \in [Clients -> [step : Steps, rel : Releases]]
    /\ stage \in [Workers -> Stages]
    /\ verdict \in [Workers -> BOOLEAN]

-------------------------------------------------------------------------------
(* Requests *)

JobsOf(r) == {j \in Jobs : jobs[j].status # "absent" /\ jobRel[j] = r}

HasActiveJob(r) == \E j \in JobsOf(r) : ActiveJob(j)

Current(r) == rel[r] = "ready" /\ rows[r] = "current"

ReleaseRequiresMaterialization(r) == ~Current(r)

EnqueueMaterialization(r, withIntent) ==
    \E j \in Jobs :
        /\ NextId(j)
        /\ EnqueueJob(j)
        /\ jobRel' = [jobRel EXCEPT ![j] = r]
        /\ jobIntent' = [jobIntent EXCEPT ![j] = withIntent]

Expect(c, step, r) == req' = [req EXCEPT ![c] = [step |-> step, rel |-> r]]

Reply(c) == req' = [req EXCEPT ![c] = NoRequest]

\* POST /versions/{id}/releases up to its first write.
CreateReleaseReads(c, r) ==
    /\ req[c].step = "none"
    /\ \/ rel[r] = "none" /\ Expect(c, "create", r)
       \/ /\ rel[r] # "none"
          /\ ReleaseRequiresMaterialization(r)
          /\ ~HasActiveJob(r)
          /\ Expect(c, "recover", r)
    /\ UNCHANGED <<vars, rel, rows, intent, exposed, agent, jobRel, jobIntent, stage, verdict>>

\* Mutant: the job is left to a later request.
CreateReleaseWithoutJob(c) ==
    /\ req[c].step = "create"
    /\ rel[req[c].rel] = "none"
    /\ rel' = [rel EXCEPT ![req[c].rel] = "preparing"]
    /\ Reply(c)
    /\ UNCHANGED <<vars, rows, intent, exposed, agent, jobRel, jobIntent, stage, verdict>>

\* Its writes: the release row is unique per version, and a request that lost
\* the race is rolled back whole.
CreateReleaseWrites(c) ==
    LET r == req[c].rel IN
    /\ \/ /\ req[c].step = "create"
          /\ rel[r] = "none"
          /\ rel' = [rel EXCEPT ![r] = "preparing"]
       \/ req[c].step = "recover" /\ UNCHANGED rel
    /\ EnqueueMaterialization(r, FALSE)
    /\ Reply(c)
    /\ UNCHANGED <<lock, pc, claim, obj, rows, intent, exposed, agent, stage, verdict>>

\* create_or_get_publish_intent up to its first write.
PublishReads(c, r) ==
    /\ req[c].step = "none"
    /\ agent # "suspended"
    /\ intent[r] = "none"
    /\ Expect(c, IF rel[r] = "none" THEN "publishNew" ELSE "publishExisting", r)
    /\ UNCHANGED <<vars, rel, rows, intent, exposed, agent, jobRel, jobIntent, stage, verdict>>

\* A new release: release, intent and job are one transaction.
PublishNewWrites(c) ==
    LET r == req[c].rel IN
    /\ req[c].step = "publishNew"
    /\ rel[r] = "none"
    /\ rel' = [rel EXCEPT ![r] = "preparing"]
    /\ intent' = [intent EXCEPT ![r] = "pending"]
    /\ EnqueueMaterialization(r, TRUE)
    /\ Reply(c)
    /\ UNCHANGED <<lock, pc, claim, obj, rows, exposed, agent, stage, verdict>>

\* An existing release: nothing was written before the intent's savepoint, so
\* releasing it commits the intent.
PublishExistingWrites(c) ==
    LET r == req[c].rel IN
    /\ req[c].step = "publishExisting"
    /\ intent[r] = "none"
    /\ intent' = [intent EXCEPT ![r] = "pending"]
    /\ Expect(c, "intentStored", r)
    /\ UNCHANGED <<vars, rel, rows, exposed, agent, jobRel, jobIntent, stage, verdict>>

\* ... and the job is a second transaction, which an active job makes
\* unnecessary even when it does not carry the intent.
PublishFindsActiveJob(c) ==
    /\ req[c].step = "intentStored"
    /\ IF HasActiveJob(req[c].rel) THEN Reply(c) ELSE Expect(c, "enqueue", req[c].rel)
    /\ UNCHANGED <<vars, rel, rows, intent, exposed, agent, jobRel, jobIntent, stage, verdict>>

PublishEnqueues(c) ==
    /\ req[c].step = "enqueue"
    /\ EnqueueMaterialization(req[c].rel, TRUE)
    /\ Reply(c)
    /\ UNCHANGED <<lock, pc, claim, obj, rel, rows, intent, exposed, agent, stage, verdict>>

\* The request fails: quota exhausted, a unique index, a locked database.
RequestFails(c) ==
    /\ req[c].step # "none"
    /\ Reply(c)
    /\ UNCHANGED <<vars, rel, rows, intent, exposed, agent, jobRel, jobIntent, stage, verdict>>

-------------------------------------------------------------------------------
(* The worker's job body *)

RelOf(w) == jobRel[claim[w]]

\* Mutant: a decided intent is decided again.
IntentOfAnyState(w) == jobIntent[claim[w]]

IntentOf(w) == jobIntent[claim[w]] /\ intent[RelOf(w)] = "pending"

\* materialize_release returns at once when the release is ready and its rows
\* match verified files.
FindsCurrent(w) ==
    /\ pc[w] = "working" /\ stage[w] = "start"
    /\ Current(RelOf(w))
    /\ stage' = [stage EXCEPT ![w] = "current"]
    /\ UNCHANGED <<vars, rel, rows, intent, exposed, agent, jobRel, jobIntent, req, verdict>>

\* Bundle, provenance, signature and manifest go to storage before any row is
\* written; the provenance carries the time, so its bytes are new.
BuildsFiles(w) ==
    /\ pc[w] = "working" /\ stage[w] = "start"
    /\ ~Current(RelOf(w))
    /\ rows' = [rows EXCEPT ![RelOf(w)] = IF @ = "none" THEN "none" ELSE "stale"]
    /\ stage' = [stage EXCEPT ![w] = "built"]
    /\ UNCHANGED <<vars, rel, intent, exposed, agent, jobRel, jobIntent, req, verdict>>

\* finalize_publish_intent of an already current release: no row has been
\* written yet, so the agent's state is read outside the write.
DecidesIntent(w) ==
    /\ pc[w] = "working" /\ stage[w] = "current"
    /\ IntentOf(w)
    /\ verdict' = [verdict EXCEPT ![w] = agent = "public"]
    /\ stage' = [stage EXCEPT ![w] = "decided"]
    /\ UNCHANGED <<vars, rel, rows, intent, exposed, agent, jobRel, jobIntent, req>>

\* The rows materialize_release registers, and mark_release_ready.
Registers(w) == stage[w] = "built"

\* Mutant: a permanent failure leaves the release as it is.
AfterFailureIgnored(permanent, state) == state

\* mark_release_materialization_failed, on a permanent failure only.
AfterFailure(permanent, state) == IF permanent THEN "failed" ELSE state

\* Mutant: the release is marked ready without its artifact rows.
StoreReleaseWithoutRows(w, failed) ==
    /\ UNCHANGED rows
    /\ rel' = [rel EXCEPT ![RelOf(w)] =
                  AfterFailure(failed, IF Registers(w) THEN "ready" ELSE @)]

\* Mutant: the state column gets a value the table does not know.
StoreReleaseUnknownState(w, failed) ==
    /\ UNCHANGED rows
    /\ rel' = [rel EXCEPT ![RelOf(w)] = "materialized"]

StoreRelease(w, failed) ==
    /\ rows' = IF Registers(w) THEN [rows EXCEPT ![RelOf(w)] = "current"] ELSE rows
    /\ rel' = [rel EXCEPT ![RelOf(w)] =
                  AfterFailure(failed, IF Registers(w) THEN "ready" ELSE @)]

Activate(r) ==
    /\ intent' = [intent EXCEPT ![r] = "activated"]
    /\ exposed' = exposed \cup {r}

Suppress(r) ==
    /\ intent' = [intent EXCEPT ![r] = "suppressed"]
    /\ UNCHANGED exposed

\* Mutant: only a release built by this job has its intent decided.
FinalizeOnlyBuilt(w) ==
    IF IntentOf(w) /\ Registers(w)
    THEN \/ agent = "public" /\ Activate(RelOf(w))
         \/ Suppress(RelOf(w))
    ELSE UNCHANGED <<intent, exposed>>

\* Mutant: the policy stored with the intent is used, not the agent's own.
FinalizeBySnapshot(w) ==
    IF IntentOf(w)
    THEN Activate(RelOf(w)) \/ Suppress(RelOf(w))
    ELSE UNCHANGED <<intent, exposed>>

\* finalize_publish_intent: activated and suppressed are final.  The release is
\* ready here; its runtime compatibility may still block it.
FinalizePublishIntent(w) ==
    LET allowed == IF stage[w] = "decided" THEN verdict[w] ELSE agent = "public"
    IN  IF IntentOf(w)
        THEN \/ allowed /\ Activate(RelOf(w))
             \/ Suppress(RelOf(w))
        ELSE UNCHANGED <<intent, exposed>>

ReadyToFinalize(w) ==
    \/ stage[w] \in {"built", "decided"}
    \/ stage[w] = "current" /\ ~IntentOf(w)

Restage(w) ==
    /\ stage' = [stage EXCEPT ![w] = "start"]
    /\ verdict' = [verdict EXCEPT ![w] = FALSE]

MaterializationSucceeds(w) ==
    /\ ReadyToFinalize(w)
    /\ JobSucceeds(w)
    /\ StoreRelease(w, FALSE)
    /\ FinalizePublishIntent(w)
    /\ Restage(w)
    /\ UNCHANGED <<agent, jobRel, jobIntent, req>>

\* The job raised; fail_job and the release's failure are committed in the same
\* session, without a rollback, with whatever it had flushed: nothing, the
\* registered release, or the decided intent as well (refresh_projection_snapshot
\* is the last call that can raise).
MaterializationRaises(w) ==
    /\ JobRaises(w)
    /\ LET permanent == jobs'[claim[w]].status = "failed" IN
       \/ /\ rel' = [rel EXCEPT ![RelOf(w)] = AfterFailure(permanent, @)]
          /\ UNCHANGED <<rows, intent, exposed>>
       \/ /\ pc[w] = "working" /\ Registers(w)
          /\ StoreRelease(w, permanent)
          /\ UNCHANGED <<intent, exposed>>
       \/ /\ pc[w] = "working" /\ ReadyToFinalize(w)
          /\ StoreRelease(w, permanent)
          /\ FinalizePublishIntent(w)
    /\ Restage(w)
    /\ UNCHANGED <<agent, jobRel, jobIntent, req>>

\* Steps of JobQueue that leave releases alone.
QueueStep(w) ==
    /\ \/ Claim(w) \/ LockRepo(w) \/ LockTimeout(w) \/ RenewJobLease(w)
       \/ Checkpoint(w) \/ RenewalRefused(w) \/ Restarted(w)
    /\ UNCHANGED flowVars

\* A rollback or a crash loses the rows, not the files.
TransactionLost(w) ==
    /\ SessionRollsBack(w) \/ Crash(w)
    /\ Restage(w)
    /\ UNCHANGED <<rel, rows, intent, exposed, agent, jobRel, jobIntent, req>>

-------------------------------------------------------------------------------
(* The environment *)

\* An administrator suspends or resumes the agent or edits its policy.
AgentChanges ==
    /\ agent' \in {"public", "private", "suspended"} \ {agent}
    /\ UNCHANGED <<vars, rel, rows, intent, exposed, jobRel, jobIntent, req, stage, verdict>>

\* Stored files are lost or altered behind the database's back.
FilesDamaged(r) ==
    /\ rows[r] = "current"
    /\ rows' = [rows EXCEPT ![r] = "stale"]
    /\ UNCHANGED <<vars, rel, intent, exposed, agent, jobRel, jobIntent, req, stage, verdict>>

LeaseRunsOut == (\E j \in Jobs : LeaseExpires(j)) /\ UNCHANGED flowVars

OutsiderStep == (OutsiderLocks \/ OutsiderUnlocks) /\ UNCHANGED flowVars

-------------------------------------------------------------------------------
FlowInit ==
    /\ Init
    /\ rel = [r \in Releases |-> "none"]
    /\ rows = [r \in Releases |-> "none"]
    /\ intent = [r \in Releases |-> "none"]
    /\ exposed = {}
    /\ agent = "public"
    /\ jobRel = [j \in Jobs |-> NoRequest.rel]
    /\ jobIntent = [j \in Jobs |-> FALSE]
    /\ req = [c \in Clients |-> NoRequest]
    /\ stage = [w \in Workers |-> "start"]
    /\ verdict = [w \in Workers |-> FALSE]

RequestStep(c) ==
    \/ \E r \in Releases : CreateReleaseReads(c, r) \/ PublishReads(c, r)
    \/ CreateReleaseWrites(c) \/ PublishNewWrites(c)
    \/ PublishExistingWrites(c) \/ PublishFindsActiveJob(c)
    \/ PublishEnqueues(c) \/ RequestFails(c)

JobStep(w) ==
    \/ QueueStep(w) \/ FindsCurrent(w) \/ BuildsFiles(w) \/ DecidesIntent(w)
    \/ MaterializationSucceeds(w) \/ MaterializationRaises(w) \/ TransactionLost(w)

FlowNext ==
    \/ \E c \in Clients : RequestStep(c)
    \/ \E w \in Workers : JobStep(w)
    \/ AgentChanges
    \/ \E r \in Releases : FilesDamaged(r)
    \/ LeaseRunsOut
    \/ OutsiderStep

FlowSpec == FlowInit /\ [][FlowNext]_allVars

\* JobQueue's fairness, for the worker's steps as they are here.
FlowProgress(w) ==
    \/ /\ \/ Claim(w) \/ LockRepo(w) \/ LockTimeout(w)
          \/ RenewJobLease(w) \/ RenewalRefused(w) \/ Restarted(w)
       /\ UNCHANGED flowVars
    \/ FindsCurrent(w) \/ BuildsFiles(w) \/ DecidesIntent(w)
    \/ MaterializationSucceeds(w) \/ MaterializationRaises(w)

FlowFairness ==
    /\ \A w \in Workers : WF_allVars(FlowProgress(w))
    /\ \A j \in Jobs : WF_allVars(LeaseExpires(j) /\ UNCHANGED flowVars)

FairFlowSpec == FlowSpec /\ FlowFairness

-------------------------------------------------------------------------------
(* Properties *)

\* A release that is announced as ready, or was made public by an agent's
\* intent, has its four artifact rows, whatever rollbacks, crashes, retries and
\* duplicate jobs came between storing files and committing rows.
PublishedHasArtifacts ==
    \A r \in Releases :
        rel[r] = "ready" \/ intent[r] = "activated" => rows[r] # "none"

\* A release still "preparing" always has a job in the queue or running: no
\* request or job outcome leaves it with nobody to finish it.
PreparingHasJob ==
    \A r \in Releases :
        rel[r] = "preparing" => \E j \in JobsOf(r) : jobs[j].status \in {"queued", "running"}

\* A completed job that carried a publish intent has decided it, also when it
\* found the release already materialized by another job.
CompletedJobDecidesIntent ==
    \A j \in Jobs :
        jobs[j].status = "completed" /\ jobIntent[j]
            => intent[jobRel[j]] \in {"activated", "suppressed"}

\* Retries, duplicate jobs and a changed agent never revise a decided intent
\* (finalize_publish_intent returns early).
IntentDecisionFinal ==
    [][\A r \in Releases :
          intent[r] \in {"activated", "suppressed"} => intent'[r] = intent[r]]_allVars

\* Not published, nor about to be: no worker is at a job of the release.
SwitchedOff(r) ==
    /\ agent # "public" /\ intent[r] # "activated"
    /\ \A w \in Workers : pc[w] = "working" => RelOf(w) # r

\* An agent that is suspended or loses auto_public_publish while no worker is
\* at a job of its release, and stays so, does not get it published any more,
\* whatever intents, jobs and retries are stored or still to come
\* (finalize_publish_intent evaluates the policy in the worker's transaction).
\* A worker in the middle of the job may have read the policy already.
OffMeansUnpublished ==
    \A r \in Releases :
        [](SwitchedOff(r) => ([](agent # "public") => [](intent[r] # "activated")))

\* Every release leaves "preparing", or the job that was to finish it has been
\* abandoned after its last claim.
ReleaseSettles ==
    \A r \in Releases :
        rel[r] = "preparing" ~> \/ rel[r] # "preparing"
                               \/ \E j \in JobsOf(r) : Exhausted(j)

\* Rows and requests of publishing are what they may be, and what is public has
\* its artifacts.
FlowIsConsistent == FlowTypeOK /\ PublishedHasArtifacts
================================================================================
