------------------------------- MODULE JobQueue -------------------------------
(***************************************************************************)
(* The hosted job queue: the jobs table (server/jobs.py), the worker loop  *)
(* that drains it (server/worker.py) and the repository lock every job is  *)
(* processed under (server/repo_ops.py).                                   *)
(*                                                                         *)
(* A worker claims a job in one transaction, waits for the repository lock *)
(* and then processes the job in a second transaction.  It holds the job   *)
(* row as an ORM object from the start of that transaction and, when it    *)
(* writes, updates only the columns it has changed since it read them.     *)
(* The lease is renewed in separate transactions.  Nothing in the row says *)
(* which worker owns the job.                                              *)
(***************************************************************************)
EXTENDS Naturals

CONSTANTS Workers,           \* worker processes on the database
          MaxJobs,           \* bound on the number of jobs ever enqueued
          MaxJobAttempts,    \* MAX_JOB_ATTEMPTS
          MaxRetryAttempts,  \* MAX_RETRY_ATTEMPTS
          NoOne,             \* the repository lock is free
          Outsider           \* another program holds it: a backup, a repo setup

ASSUME JobQueueAssumption ==
    /\ MaxJobs \in Nat \ {0}
    /\ MaxJobAttempts \in Nat \ {0}
    /\ MaxRetryAttempts \in 1 .. MaxJobAttempts
    /\ NoOne \notin Workers
    /\ Outsider \notin Workers
    /\ NoOne # Outsider

VARIABLES jobs,    \* the jobs table
          lock,    \* who holds repo.lock
          pc,      \* where each worker is in run_worker_loop
          claim,   \* the job_id each worker last claimed
          obj      \* each worker's ORM copy of its job row

vars == <<jobs, lock, pc, claim, obj>>

-------------------------------------------------------------------------------
(* Types *)

Jobs == 1 .. MaxJobs

Status == {"absent", "queued", "running", "completed", "failed"}

\* lease_expires_at: NULL, in the future, or in the past.
Lease == {"none", "live", "expired"}

Row == [status : Status, attempts : Nat, lease : Lease]

NoRow == [status |-> "absent", attempts |-> 0, lease |-> "none"]

\* idle: between two jobs; waiting: claimed, in locked_repo; loaded: lock held,
\* row read; working: lease renewed, row refreshed; refused: a lease renewal
\* raised "no longer running"; down: the process died.
PC == {"idle", "waiting", "loaded", "working", "refused", "down"}

\* The states in which a worker is inside the "with locked_repo" block.
Inside == {"loaded", "working", "refused"}

TypeOK ==
    /\ jobs \in [Jobs -> Row]
    /\ lock \in Workers \cup {NoOne, Outsider}
    /\ pc \in [Workers -> PC]
    /\ claim \in [Workers -> Jobs]
    /\ obj \in [Workers -> Row]

-------------------------------------------------------------------------------
(* The jobs table *)

\* Mutant: only a NULL lease counts as stale.
RunningJobIsStaleNullOnly(j) ==
    jobs[j].status = "running" /\ jobs[j].lease = "none"

RunningJobIsStale(j) ==
    jobs[j].status = "running" /\ jobs[j].lease # "live"

ActiveJob(j) ==
    \/ jobs[j].status = "queued"
    \/ jobs[j].status = "running" /\ jobs[j].lease = "live"

EnqueueJob(j) ==
    jobs' = [jobs EXCEPT ![j] = [status |-> "queued", attempts |-> 0, lease |-> "none"]]

\* Ids are allocated in order.
NextId(j) == /\ jobs[j].status = "absent"
             /\ \A k \in Jobs : k < j => jobs[k].status # "absent"

OldestQueued(j) ==
    /\ jobs[j].status = "queued"
    /\ \A k \in Jobs : jobs[k].status = "queued" => j <= k

\* Mutant: the attempt limit is not checked.
ReclaimableUnlimited(j) == RunningJobIsStale(j)

Reclaimable(j) == RunningJobIsStale(j) /\ jobs[j].attempts < MaxJobAttempts

OldestReclaimable(j) ==
    /\ \A k \in Jobs : jobs[k].status # "queued"
    /\ Reclaimable(j)
    /\ \A k \in Jobs : Reclaimable(k) => j <= k

ClaimNextJob(w, j) ==
    /\ OldestQueued(j) \/ OldestReclaimable(j)
    /\ jobs' = [jobs EXCEPT ![j] = [status |-> "running",
                                    attempts |-> @.attempts + 1,
                                    lease |-> "live"]]
    /\ claim' = [claim EXCEPT ![w] = j]

\* The row with its lease column set to l.
WithLease(row, l) ==
    [status |-> row.status, attempts |-> row.attempts, lease |-> l]

HeartbeatJob(j) == jobs' = [jobs EXCEPT ![j] = WithLease(@, "live")]

\* The UPDATE the worker's session emits when it sets the status to s and the
\* lease to NULL: a column whose new value equals the value the session read
\* is left out of it.
WriteRow(w, s) ==
    jobs' = [jobs EXCEPT ![claim[w]] =
        [status |-> IF s = obj[w].status THEN @.status ELSE s,
         attempts |-> @.attempts,
         lease |-> IF obj[w].lease = "none" THEN @.lease ELSE "none"]]

\* Mutant: the lease is not cleared.
CompleteJobKeepsLease(w) == jobs' = [jobs EXCEPT ![claim[w]].status = "completed"]

CompleteJob(w) == WriteRow(w, "completed")

\* Mutant: one retry too many.
ShouldRetryOffByOne(w) == obj[w].attempts <= MaxRetryAttempts

ShouldRetry(w) == obj[w].attempts < MaxRetryAttempts

\* Mutant: a status the table does not know.
FailJobUnknownStatus(w, retryable) ==
    WriteRow(w, IF retryable /\ ShouldRetry(w) THEN "retrying" ELSE "failed")

FailJob(w, retryable) ==
    WriteRow(w, IF retryable /\ ShouldRetry(w) THEN "queued" ELSE "failed")

-------------------------------------------------------------------------------
(* The worker loop *)

Goto(w, place) == pc' = [pc EXCEPT ![w] = place]

\* Leaving process_job, however it ends: the session is closed and its ORM
\* copy dropped, and the flock released if it was held.
Leave(w, place) ==
    /\ lock' = IF lock = w THEN NoOne ELSE lock
    /\ obj' = [obj EXCEPT ![w] = NoRow]
    /\ Goto(w, place)
    /\ UNCHANGED claim

Enqueue ==
    /\ \E j \in Jobs : NextId(j) /\ EnqueueJob(j)
    /\ UNCHANGED <<lock, pc, claim, obj>>

Claim(w) ==
    /\ pc[w] = "idle"
    /\ \E j \in Jobs : ClaimNextJob(w, j)
    /\ Goto(w, "waiting")
    /\ UNCHANGED <<lock, obj>>

\* Mutant: flock is not exclusive.
LockRepoShared(w) ==
    /\ pc[w] = "waiting"
    /\ lock' = w
    /\ obj' = [obj EXCEPT ![w] = jobs[claim[w]]]
    /\ Goto(w, "loaded")
    /\ UNCHANGED <<jobs, claim>>

LockRepo(w) ==
    /\ pc[w] = "waiting"
    /\ lock = NoOne
    /\ lock' = w
    /\ obj' = [obj EXCEPT ![w] = jobs[claim[w]]]
    /\ Goto(w, "loaded")
    /\ UNCHANGED <<jobs, claim>>

\* locked_repo gives up after 120 seconds: LockTimeout leaves process_job
\* before any session is opened.
LockTimeout(w) ==
    /\ pc[w] = "waiting"
    /\ lock # NoOne
    /\ Leave(w, "idle")
    /\ UNCHANGED jobs

\* _renew_job_lease and the refresh that follows it.
RenewJobLease(w) ==
    /\ pc[w] = "loaded"
    /\ jobs[claim[w]].status = "running"
    /\ HeartbeatJob(claim[w])
    /\ obj' = [obj EXCEPT ![w] = jobs'[claim[w]]]
    /\ Goto(w, "working")
    /\ UNCHANGED <<lock, claim>>

\* A phase checkpoint of materialize_release renews the lease, no refresh.
Checkpoint(w) ==
    /\ pc[w] = "working"
    /\ jobs[claim[w]].status = "running"
    /\ HeartbeatJob(claim[w])
    /\ UNCHANGED <<lock, pc, claim, obj>>

RenewalRefused(w) ==
    /\ pc[w] \in {"loaded", "working"}
    /\ jobs[claim[w]].status # "running"
    /\ Goto(w, "refused")
    /\ UNCHANGED <<jobs, lock, claim, obj>>

JobSucceeds(w) ==
    /\ pc[w] = "working"
    /\ CompleteJob(w)
    /\ Leave(w, "idle")

\* The job raised; a refused renewal is never retryable.
JobRaises(w) ==
    /\ pc[w] \in Inside
    /\ \/ pc[w] = "working" /\ FailJob(w, TRUE)
       \/ FailJob(w, FALSE)
    /\ Leave(w, "idle")

\* A flush or the final commit failed: fail_job raises as well, or is never
\* reached, and session_scope rolls back.
SessionRollsBack(w) ==
    /\ pc[w] \in Inside
    /\ Leave(w, "idle")
    /\ UNCHANGED jobs

\* The process dies: SQLite discards its transaction, the kernel its flock.
Crash(w) ==
    /\ pc[w] \in {"waiting"} \cup Inside
    /\ Leave(w, "down")
    /\ UNCHANGED jobs

\* The supervisor starts the worker again ("restart: unless-stopped").
Restarted(w) ==
    /\ pc[w] = "down"
    /\ Goto(w, "idle")
    /\ UNCHANGED <<jobs, lock, claim, obj>>

-------------------------------------------------------------------------------
(* The environment *)

\* The clock reaches lease_expires_at.
LeaseExpires(j) ==
    /\ jobs[j].lease = "live"
    /\ jobs' = [jobs EXCEPT ![j] = WithLease(@, "expired")]
    /\ UNCHANGED <<lock, pc, claim, obj>>

OutsiderLocks ==
    /\ lock = NoOne
    /\ lock' = Outsider
    /\ UNCHANGED <<jobs, pc, claim, obj>>

OutsiderUnlocks ==
    /\ lock = Outsider
    /\ lock' = NoOne
    /\ UNCHANGED <<jobs, pc, claim, obj>>

-------------------------------------------------------------------------------
Init ==
    /\ jobs = [j \in Jobs |-> NoRow]
    /\ lock = NoOne
    /\ pc = [w \in Workers |-> "idle"]
    /\ claim = [w \in Workers |-> 1]
    /\ obj = [w \in Workers |-> NoRow]

WorkerStep(w) ==
    \/ Claim(w) \/ LockRepo(w) \/ LockTimeout(w)
    \/ RenewJobLease(w) \/ Checkpoint(w) \/ RenewalRefused(w)
    \/ JobSucceeds(w) \/ JobRaises(w) \/ SessionRollsBack(w)
    \/ Crash(w) \/ Restarted(w)

Next ==
    \/ Enqueue
    \/ \E w \in Workers : WorkerStep(w)
    \/ \E j \in Jobs : LeaseExpires(j)
    \/ OutsiderLocks
    \/ OutsiderUnlocks

Spec == Init /\ [][Next]_vars

\* The loop keeps polling, locked_repo returns within its timeout, a job body
\* terminates, the supervisor restarts the process and the clock advances.
\* Checkpoints, crashes, rollbacks and the other lock users are left unfair.
Progress(w) ==
    \/ Claim(w) \/ LockRepo(w) \/ LockTimeout(w)
    \/ RenewJobLease(w) \/ RenewalRefused(w)
    \/ JobSucceeds(w) \/ JobRaises(w) \/ SessionRollsBack(w)
    \/ Restarted(w)

Fairness ==
    /\ \A w \in Workers : WF_vars(Progress(w))
    /\ \A j \in Jobs : WF_vars(LeaseExpires(j))

FairSpec == Spec /\ Fairness

-------------------------------------------------------------------------------
(* Properties *)

\* The repository lock serialises job processing (worker.process_job): a worker
\* is between the lock and the end of its session exactly when the lock is its
\* own, so two workers are never inside together.
LockGuardsProcessing ==
    \A w \in Workers : pc[w] \in Inside <=> lock = w

\* The lease column follows the status through claims, renewals, retries and
\* stale ORM writes, for any number of workers: a running job always has a
\* lease that can run out (so it can be reclaimed), and a job that is queued or
\* completed has none (so it is not mistaken for running work).
LeaseFollowsStatus ==
    \A j \in Jobs :
        /\ jobs[j].status = "running" => jobs[j].lease # "none"
        /\ jobs[j].status \in {"absent", "queued", "completed"} => jobs[j].lease = "none"

\* The deployment docs/ops/coolify-deployment.md prescribes: one worker.
OneWorker == \A v, w \in Workers : v = w

\* With one worker a job is claimed at most MAX_JOB_ATTEMPTS times, and it is
\* in the queue only while fail_job still owes it a retry.
AttemptsBounded ==
    \A j \in Jobs :
        /\ jobs[j].attempts <= MaxJobAttempts
        /\ jobs[j].status = "queued" => jobs[j].attempts < MaxRetryAttempts

\* With any number of workers a job is claimed at most once more than
\* MAX_JOB_ATTEMPTS: fail_job decides on the attempt count its session read, so
\* a worker whose job was reclaimed meanwhile can re-queue it past the limit,
\* but no later session can.
AttemptsNearlyBounded ==
    \A j \in Jobs : jobs[j].attempts <= MaxJobAttempts + 1

\* The jobs table implements the contract its clients rely on (one worker).
Contract == INSTANCE JobContract WITH
    state <- [j \in Jobs |-> jobs[j].status],
    tries <- [j \in Jobs |-> jobs[j].attempts]

JobContractHolds == Contract!ContractSpec

Settled(j) == jobs[j].status \in {"completed", "failed"}

\* A stale running job claim_next_job will never pick up again.
Exhausted(j) == RunningJobIsStale(j) /\ jobs[j].attempts >= MaxJobAttempts

\* Every queued job is eventually completed, failed, or abandoned after
\* MAX_JOB_ATTEMPTS claims, whatever crashes, lock timeouts, rollbacks and
\* lease expiries happen on the way.
QueuedJobsSettle ==
    \A j \in Jobs : jobs[j].status = "queued" ~> (Settled(j) \/ Exhausted(j))

================================================================================
