------------------------- MODULE ReleasePipelineProofs -------------------------
(***************************************************************************)
(* Proofs about the worker: its job queue (JobQueue), for every set of     *)
(* workers, every number of jobs and every attempt limit, and publishing   *)
(* (ReleasePipeline), for any number of requests and releases.  Every step *)
(* of the pipeline is a step of the queue, so the pipeline's proofs stand  *)
(* on the queue's own invariant (LeaseInv).                                *)
(***************************************************************************)
EXTENDS ReleasePipeline, TLAPS

-------------------------------------------------------------------------------
(* The job queue *)

(* Every step of the system is one of these. *)
LEMMA StepCases ==
    ASSUME Next
    PROVE  \/ Enqueue \/ OutsiderLocks \/ OutsiderUnlocks
           \/ \E j \in Jobs : LeaseExpires(j)
           \/ \E w \in Workers : WorkerStep(w)
  BY DEF Next

-------------------------------------------------------------------------------
(* The row a worker's UPDATE leaves behind is a row. *)
LEMMA WriteRowType ==
    ASSUME TypeOK, NEW w \in Workers, NEW s \in Status, WriteRow(w, s)
    PROVE  /\ jobs' \in [Jobs -> Row]
           /\ \A j \in Jobs : j # claim[w] => jobs'[j] = jobs[j]
           /\ jobs'[claim[w]].attempts = jobs[claim[w]].attempts
           /\ jobs'[claim[w]].status =
                 IF s = obj[w].status THEN jobs[claim[w]].status ELSE s
           /\ jobs'[claim[w]].lease =
                 IF obj[w].lease = "none" THEN jobs[claim[w]].lease ELSE "none"
  BY DEF TypeOK, WriteRow, Row, Lease, Status

\* Every step of a worker keeps the types.
LEMMA WorkerType ==
    ASSUME TypeOK, NEW w \in Workers, WorkerStep(w)
    PROVE  TypeOK'
  <1> USE DEF PC, Inside, Goto
  <1>1. CASE Claim(w)
    BY <1>1 DEF Claim, ClaimNextJob, TypeOK, Row, Status, Lease
  <1>2. CASE LockRepo(w)
    BY <1>2 DEF LockRepo, TypeOK
  <1>3. CASE LockTimeout(w)
    BY <1>3 DEF LockTimeout, Leave, TypeOK, NoRow, Row, Status, Lease
  <1>4. CASE RenewJobLease(w)
    BY <1>4 DEF RenewJobLease, HeartbeatJob, WithLease, TypeOK, Row, Lease
  <1>5. CASE Checkpoint(w)
    BY <1>5 DEF Checkpoint, HeartbeatJob, WithLease, TypeOK, Row, Lease
  <1>6. CASE RenewalRefused(w)
    BY <1>6 DEF RenewalRefused, TypeOK
  <1>7. CASE JobSucceeds(w)
    <2>1. jobs' \in [Jobs -> Row]
      BY <1>7, WriteRowType DEF JobSucceeds, CompleteJob, Status
    <2>2. QED
      BY <1>7, <2>1 DEF JobSucceeds, Leave, TypeOK, NoRow, Row, Status, Lease
  <1>8. CASE JobRaises(w)
    <2>1. PICK s \in {"queued", "failed"} : WriteRow(w, s)
      BY <1>8 DEF JobRaises, FailJob
    <2>2. jobs' \in [Jobs -> Row]
      BY <2>1, WriteRowType DEF Status
    <2>3. QED
      BY <1>8, <2>2 DEF JobRaises, Leave, TypeOK, NoRow, Row, Status, Lease
  <1>9. CASE SessionRollsBack(w)
    BY <1>9 DEF SessionRollsBack, Leave, TypeOK, NoRow, Row, Status, Lease
  <1>10. CASE Crash(w)
    BY <1>10 DEF Crash, Leave, TypeOK, NoRow, Row, Status, Lease
  <1>11. CASE Restarted(w)
    BY <1>11 DEF Restarted, TypeOK
  <1>12. QED
    BY <1>1, <1>2, <1>3, <1>4, <1>5, <1>6, <1>7, <1>8, <1>9, <1>10, <1>11
       DEF WorkerStep

\* Every step keeps the types.
LEMMA StepType == TypeOK /\ [Next]_vars => TypeOK'
  <1> SUFFICES ASSUME TypeOK, [Next]_vars PROVE TypeOK'
    OBVIOUS
  <1>1. CASE UNCHANGED vars
    BY <1>1 DEF vars, TypeOK
  <1>2. CASE Enqueue
    BY <1>2 DEF Enqueue, EnqueueJob, TypeOK, Row, Status, Lease
  <1>3. CASE OutsiderLocks \/ OutsiderUnlocks
    BY <1>3 DEF OutsiderLocks, OutsiderUnlocks, TypeOK
  <1>4. CASE \E j \in Jobs : LeaseExpires(j)
    BY <1>4 DEF LeaseExpires, WithLease, TypeOK, Row, Lease
  <1>5. CASE \E w \in Workers : WorkerStep(w)
    BY <1>5, WorkerType
  <1>6. QED
    BY <1>1, <1>2, <1>3, <1>4, <1>5, StepCases

\* The initial state has its type.
LEMMA InitType == Init => TypeOK
  BY JobQueueAssumption DEF Init, TypeOK, Jobs, NoRow, Row, Status, Lease, PC

(* Type correctness of the job queue. *)
THEOREM TypeCorrect == Spec => []TypeOK
  <1>1. QED
    BY InitType, StepType, PTL DEF Spec

-------------------------------------------------------------------------------
(* The lock.  No strengthening is needed beyond the types. *)

\* Every step of a worker keeps the lock with the worker inside.
LEMMA WorkerLock ==
    ASSUME TypeOK, LockGuardsProcessing, NEW w \in Workers, WorkerStep(w)
    PROVE  LockGuardsProcessing'
  <1> USE JobQueueAssumption DEF TypeOK, LockGuardsProcessing, Inside, Goto, Leave
  <1>1. CASE Claim(w)
    BY <1>1 DEF Claim
  <1>2. CASE LockRepo(w)
    BY <1>2 DEF LockRepo
  <1>3. CASE LockTimeout(w) \/ RenewJobLease(w) \/ Checkpoint(w) \/ RenewalRefused(w)
    BY <1>3 DEF LockTimeout, RenewJobLease, Checkpoint, RenewalRefused
  <1>4. CASE JobSucceeds(w) \/ JobRaises(w) \/ SessionRollsBack(w)
    BY <1>4 DEF JobSucceeds, JobRaises, SessionRollsBack
  <1>5. CASE Crash(w) \/ Restarted(w)
    BY <1>5 DEF Crash, Restarted
  <1>6. QED
    BY <1>1, <1>2, <1>3, <1>4, <1>5 DEF WorkerStep

\* Every step keeps the lock with the worker inside.
LEMMA StepLock == TypeOK /\ LockGuardsProcessing /\ [Next]_vars => LockGuardsProcessing'
  <1> SUFFICES ASSUME TypeOK, LockGuardsProcessing, [Next]_vars
               PROVE  LockGuardsProcessing'
    OBVIOUS
  <1> USE JobQueueAssumption DEF TypeOK, LockGuardsProcessing, Inside
  <1>1. CASE UNCHANGED vars
    BY <1>1 DEF vars
  <1>2. CASE Enqueue \/ OutsiderLocks \/ OutsiderUnlocks
    BY <1>2 DEF Enqueue, OutsiderLocks, OutsiderUnlocks
  <1>3. CASE \E j \in Jobs : LeaseExpires(j)
    BY <1>3 DEF LeaseExpires
  <1>4. CASE \E w \in Workers : WorkerStep(w)
    BY <1>4, WorkerLock
  <1>5. QED
    BY <1>1, <1>2, <1>3, <1>4, StepCases

\* Initially nobody is inside and the lock is free.
LEMMA InitLock == Init => LockGuardsProcessing
  BY JobQueueAssumption DEF Init, LockGuardsProcessing, Inside

(* Jobs are processed one at a time under the repository lock, whatever    *)
(* times out, rolls back or crashes.                                       *)
THEOREM LockCorrect == Spec => []LockGuardsProcessing
  <1>1. QED
    BY InitType, InitLock, StepType, StepLock, PTL DEF Spec

-------------------------------------------------------------------------------
(* The lease column.  A worker's UPDATE omits the columns whose value it   *)
(* read, so LeaseFollowsStatus is inductive only together with what the    *)
(* ORM copies are known to hold.                                           *)

CopiesInv ==
    \A w \in Workers :
        /\ pc[w] = "working" => obj[w].status = "running" /\ obj[w].lease # "none"
        /\ pc[w] \in Inside /\ obj[w].status = "failed"
              => jobs[claim[w]].status = "failed"

LeaseInv == TypeOK /\ LockGuardsProcessing /\ CopiesInv /\ LeaseFollowsStatus

(* While one worker is inside, no other is. *)
LEMMA OneInside ==
    ASSUME TypeOK, LockGuardsProcessing,
           NEW v \in Workers, NEW w \in Workers, pc[v] \in Inside, pc[w] \in Inside
    PROVE  v = w
  BY DEF LockGuardsProcessing

\* A claim sets status and lease together.
LEMMA ClaimLease ==
    ASSUME LeaseInv, NEW w \in Workers, Claim(w)
    PROVE  CopiesInv' /\ LeaseFollowsStatus'
  <1> USE DEF LeaseInv, TypeOK, Row, Claim, Goto
  <1>1. PICK j \in Jobs : ClaimNextJob(w, j)
    OBVIOUS
  <1>2. jobs[j].status \in {"queued", "running"}
    BY <1>1 DEF ClaimNextJob, OldestQueued, OldestReclaimable, Reclaimable, RunningJobIsStale
  <1>3. CopiesInv'
    BY <1>1, <1>2 DEF ClaimNextJob, CopiesInv, Inside
  <1>4. LeaseFollowsStatus'
    BY <1>1 DEF ClaimNextJob, LeaseFollowsStatus
  <1>5. QED
    BY <1>3, <1>4

\* The outcome a worker writes from its copy keeps lease and status in step.
LEMMA WriteLease ==
    ASSUME LeaseInv, NEW w \in Workers, NEW s \in {"queued", "completed", "failed"},
           WriteRow(w, s), Leave(w, "idle"), pc[w] \in Inside,
           s # "failed" => pc[w] = "working"
    PROVE  CopiesInv' /\ LeaseFollowsStatus'
  <1>1. /\ jobs' \in [Jobs -> Row]
        /\ \A j \in Jobs : j # claim[w] => jobs'[j] = jobs[j]
        /\ jobs'[claim[w]].status =
              IF s = obj[w].status THEN jobs[claim[w]].status ELSE s
        /\ jobs'[claim[w]].lease =
              IF obj[w].lease = "none" THEN jobs[claim[w]].lease ELSE "none"
    BY WriteRowType DEF LeaseInv, Status
  <1>2. jobs'[claim[w]].status = s
    BY <1>1 DEF LeaseInv, CopiesInv
  <1>3. s # "failed" => jobs'[claim[w]].lease = "none"
    BY <1>1 DEF LeaseInv, CopiesInv
  <1>4. LeaseFollowsStatus'
    BY <1>1, <1>2, <1>3 DEF LeaseInv, LeaseFollowsStatus, TypeOK
  <1>5. \A v \in Workers : v # w => pc'[v] = pc[v] /\ pc[v] \notin Inside
    BY OneInside DEF LeaseInv, TypeOK, Leave, Goto
  <1>6. pc'[w] = "idle"
    BY DEF LeaseInv, TypeOK, Leave, Goto
  <1>7. CopiesInv'
    BY <1>5, <1>6 DEF CopiesInv, Inside
  <1>8. QED
    BY <1>4, <1>7

\* Every step of a worker keeps lease and status in step.
LEMMA WorkerLease ==
    ASSUME LeaseInv, NEW w \in Workers, WorkerStep(w)
    PROVE  CopiesInv' /\ LeaseFollowsStatus'
  <1>1. CASE Claim(w)
    BY <1>1, ClaimLease
  <1>2. CASE LockRepo(w)
    BY <1>2 DEF LockRepo, Goto, LeaseInv, TypeOK, Row, CopiesInv, LeaseFollowsStatus, Inside
  <1>3. CASE RenewJobLease(w)
    BY <1>3 DEF RenewJobLease, HeartbeatJob, WithLease, Goto, LeaseInv, TypeOK, Row,
                CopiesInv, LeaseFollowsStatus, Inside
  <1>4. CASE Checkpoint(w)
    BY <1>4 DEF Checkpoint, HeartbeatJob, WithLease, LeaseInv, TypeOK, Row,
                CopiesInv, LeaseFollowsStatus, Inside
  <1>5. CASE RenewalRefused(w)
    BY <1>5 DEF RenewalRefused, Goto, LeaseInv, TypeOK, CopiesInv, LeaseFollowsStatus, Inside
  <1>6. CASE JobSucceeds(w)
    BY <1>6, WriteLease DEF JobSucceeds, CompleteJob, Inside
  <1>7. CASE JobRaises(w)
    <2>1. PICK s \in {"queued", "failed"} :
              WriteRow(w, s) /\ (s # "failed" => pc[w] = "working")
      BY <1>7 DEF JobRaises, FailJob
    <2>2. QED
      BY <1>7, <2>1, WriteLease DEF JobRaises
  <1>8. CASE LockTimeout(w) \/ SessionRollsBack(w) \/ Crash(w) \/ Restarted(w)
    BY <1>8 DEF LockTimeout, SessionRollsBack, Crash, Restarted, Leave, Goto, NoRow,
                LeaseInv, TypeOK, CopiesInv, LeaseFollowsStatus, Inside
  <1>9. QED
    BY <1>1, <1>2, <1>3, <1>4, <1>5, <1>6, <1>7, <1>8 DEF WorkerStep

\* LeaseInv is inductive.
LEMMA StepLease == LeaseInv /\ [Next]_vars => LeaseInv'
  <1> SUFFICES ASSUME LeaseInv, [Next]_vars PROVE CopiesInv' /\ LeaseFollowsStatus'
    BY StepType, StepLock DEF LeaseInv
  <1>1. CASE UNCHANGED vars
    BY <1>1 DEF vars, LeaseInv, CopiesInv, LeaseFollowsStatus
  <1>2. CASE Enqueue
    BY <1>2 DEF Enqueue, EnqueueJob, NextId, LeaseInv, TypeOK, CopiesInv, LeaseFollowsStatus
  <1>3. CASE OutsiderLocks \/ OutsiderUnlocks
    BY <1>3 DEF OutsiderLocks, OutsiderUnlocks, LeaseInv, CopiesInv, LeaseFollowsStatus
  <1>4. CASE \E j \in Jobs : LeaseExpires(j)
    BY <1>4 DEF LeaseExpires, WithLease, LeaseInv, TypeOK, Row, CopiesInv, LeaseFollowsStatus
  <1>5. CASE \E w \in Workers : WorkerStep(w)
    BY <1>5, WorkerLease
  <1>6. QED
    BY <1>1, <1>2, <1>3, <1>4, <1>5, StepCases

\* The initial state satisfies LeaseInv.
LEMMA InitLease == Init => LeaseInv
  <1> SUFFICES ASSUME Init PROVE CopiesInv /\ LeaseFollowsStatus
    BY InitType, InitLock DEF LeaseInv
  <1>1. QED
    BY DEF Init, CopiesInv, LeaseFollowsStatus, NoRow, Inside

(* The lease column follows the status for any number of workers. *)
THEOREM LeaseCorrect == Spec => []LeaseFollowsStatus
  <1>1. LeaseInv => LeaseFollowsStatus
    BY DEF LeaseInv
  <1>2. QED
    BY InitLease, StepLease, <1>1, PTL DEF Spec

-------------------------------------------------------------------------------
(* The attempt count.  A session that read the count before the job was    *)
(* reclaimed may still re-queue it; a job is Spent when no session may.    *)

Spent(j) ==
    /\ jobs[j].attempts >= MaxRetryAttempts
    /\ jobs[j].status = "queued" \/ jobs[j].attempts > MaxJobAttempts

SpentInv ==
    \A j \in Jobs :
        /\ jobs[j].status = "queued" => jobs[j].attempts <= MaxJobAttempts
        /\ Spent(j) => \A w \in Workers :
              pc[w] = "working" /\ claim[w] = j => obj[w].attempts >= MaxRetryAttempts

AttemptsInv == LeaseInv /\ SpentInv /\ AttemptsNearlyBounded

\* A claim passes the limit at most once.
LEMMA ClaimAttempts ==
    ASSUME AttemptsInv, NEW w \in Workers, Claim(w)
    PROVE  SpentInv' /\ AttemptsNearlyBounded'
  <1> USE JobQueueAssumption DEF AttemptsInv, LeaseInv, TypeOK, Row, Claim, Goto
  <1>1. PICK j \in Jobs : ClaimNextJob(w, j)
    OBVIOUS
  <1>2. \/ jobs[j].status = "queued"
        \/ jobs[j].attempts < MaxJobAttempts
    BY <1>1 DEF ClaimNextJob, OldestQueued, OldestReclaimable, Reclaimable
  <1>3. jobs[j].attempts <= MaxJobAttempts
    BY <1>2 DEF SpentInv
  <1>4. AttemptsNearlyBounded'
    BY <1>1, <1>3 DEF ClaimNextJob, AttemptsNearlyBounded
  <1>5. ASSUME NEW k \in Jobs
        PROVE  /\ jobs'[k].status = "queued" => jobs'[k].attempts <= MaxJobAttempts
               /\ Spent(k)' => Spent(k)
    BY <1>1, <1>2, <1>3 DEF ClaimNextJob, SpentInv, Spent
  <1>6. SpentInv'
    BY <1>1, <1>5 DEF ClaimNextJob, SpentInv
  <1>7. QED
    BY <1>4, <1>6

\* A re-queue decided on a stale attempt count leaves the job claimable at most once more.
LEMMA WriteAttempts ==
    ASSUME AttemptsInv, NEW w \in Workers, NEW s \in {"queued", "completed", "failed"},
           WriteRow(w, s), Leave(w, "idle"), pc[w] \in Inside,
           s = "queued" => pc[w] = "working" /\ ShouldRetry(w)
    PROVE  SpentInv' /\ AttemptsNearlyBounded'
  <1> USE JobQueueAssumption
  <1>1. /\ jobs' \in [Jobs -> Row]
        /\ \A j \in Jobs : j # claim[w] => jobs'[j] = jobs[j]
        /\ jobs'[claim[w]].attempts = jobs[claim[w]].attempts
        /\ jobs'[claim[w]].status =
              IF s = obj[w].status THEN jobs[claim[w]].status ELSE s
    BY WriteRowType DEF AttemptsInv, LeaseInv, Status
  <1>2. AttemptsNearlyBounded'
    BY <1>1 DEF AttemptsInv, LeaseInv, TypeOK, AttemptsNearlyBounded
  <1>3. claim[w] \in Jobs /\ jobs[claim[w]].attempts \in Nat /\ obj[w].attempts \in Nat
    BY DEF AttemptsInv, LeaseInv, TypeOK, Row
  <1>4. jobs'[claim[w]].status = "queued" => jobs'[claim[w]].attempts <= MaxJobAttempts
    <2>1. CASE s = "queued"
      <3>1. ~ Spent(claim[w])
        BY <2>1, <1>3 DEF AttemptsInv, SpentInv, ShouldRetry
      <3>2. QED
        BY <3>1, <1>1, <1>3 DEF Spent
    <2>2. CASE s # "queued"
      BY <2>2, <1>1, <1>3 DEF AttemptsInv, SpentInv
    <2>3. QED
      BY <2>1, <2>2
  <1>5. \A v \in Workers : pc'[v] # "working"
    BY OneInside DEF AttemptsInv, LeaseInv, TypeOK, Leave, Goto, Inside
  <1>6. SpentInv'
    BY <1>1, <1>4, <1>5 DEF AttemptsInv, SpentInv
  <1>7. QED
    BY <1>2, <1>6

\* Every step of a worker keeps the near bound.
LEMMA WorkerAttempts ==
    ASSUME AttemptsInv, NEW w \in Workers, WorkerStep(w)
    PROVE  SpentInv' /\ AttemptsNearlyBounded'
  <1>1. CASE Claim(w)
    BY <1>1, ClaimAttempts
  <1>2. CASE LockRepo(w)
    BY <1>2 DEF LockRepo, Goto, AttemptsInv, LeaseInv, TypeOK, SpentInv, Spent, AttemptsNearlyBounded
  <1>3. CASE RenewJobLease(w)
    <2>1. \A j \in Jobs : /\ jobs'[j].status = jobs[j].status
                          /\ jobs'[j].attempts = jobs[j].attempts
      BY <1>3 DEF RenewJobLease, HeartbeatJob, WithLease, AttemptsInv, LeaseInv, TypeOK, Row
    <2>2. obj'[w].attempts = jobs[claim[w]].attempts
      BY <1>3, <2>1 DEF RenewJobLease, AttemptsInv, LeaseInv, TypeOK
    <2>3. QED
      BY <1>3, <2>1, <2>2 DEF RenewJobLease, Goto, AttemptsInv, LeaseInv, TypeOK,
                              SpentInv, Spent, AttemptsNearlyBounded
  <1>4. CASE Checkpoint(w)
    <2>1. \A j \in Jobs : /\ jobs'[j].status = jobs[j].status
                          /\ jobs'[j].attempts = jobs[j].attempts
      BY <1>4 DEF Checkpoint, HeartbeatJob, WithLease, AttemptsInv, LeaseInv, TypeOK, Row
    <2>2. QED
      BY <1>4, <2>1 DEF Checkpoint, AttemptsInv, SpentInv, Spent, AttemptsNearlyBounded
  <1>5. CASE RenewalRefused(w)
    BY <1>5 DEF RenewalRefused, Goto, AttemptsInv, LeaseInv, TypeOK, SpentInv, Spent, AttemptsNearlyBounded
  <1>6. CASE JobSucceeds(w)
    BY <1>6, WriteAttempts DEF JobSucceeds, CompleteJob, Inside
  <1>7. CASE JobRaises(w)
    <2>1. PICK s \in {"queued", "failed"} :
              WriteRow(w, s) /\ (s = "queued" => pc[w] = "working" /\ ShouldRetry(w))
      BY <1>7 DEF JobRaises, FailJob
    <2>2. QED
      BY <1>7, <2>1, WriteAttempts DEF JobRaises
  <1>8. CASE LockTimeout(w) \/ SessionRollsBack(w) \/ Crash(w) \/ Restarted(w)
    BY <1>8 DEF LockTimeout, SessionRollsBack, Crash, Restarted, Leave, Goto,
                AttemptsInv, LeaseInv, TypeOK, SpentInv, Spent, AttemptsNearlyBounded, Inside
  <1>9. QED
    BY <1>1, <1>2, <1>3, <1>4, <1>5, <1>6, <1>7, <1>8 DEF WorkerStep

\* AttemptsInv is inductive.
LEMMA StepAttempts == AttemptsInv /\ [Next]_vars => AttemptsInv'
  <1> SUFFICES ASSUME AttemptsInv, [Next]_vars PROVE SpentInv' /\ AttemptsNearlyBounded'
    BY StepLease DEF AttemptsInv
  <1> USE JobQueueAssumption
  <1>1. CASE UNCHANGED vars
    BY <1>1 DEF vars, AttemptsInv, SpentInv, Spent, AttemptsNearlyBounded
  <1>2. CASE Enqueue
    BY <1>2 DEF Enqueue, EnqueueJob, NextId, AttemptsInv, LeaseInv, TypeOK, SpentInv, Spent,
                AttemptsNearlyBounded
  <1>3. CASE OutsiderLocks \/ OutsiderUnlocks
    BY <1>3 DEF OutsiderLocks, OutsiderUnlocks, AttemptsInv, SpentInv, Spent, AttemptsNearlyBounded
  <1>4. CASE \E j \in Jobs : LeaseExpires(j)
    BY <1>4 DEF LeaseExpires, WithLease, AttemptsInv, LeaseInv, TypeOK, Row, SpentInv, Spent,
                AttemptsNearlyBounded
  <1>5. CASE \E w \in Workers : WorkerStep(w)
    BY <1>5, WorkerAttempts
  <1>6. QED
    BY <1>1, <1>2, <1>3, <1>4, <1>5, StepCases

\* The initial state satisfies AttemptsInv.
LEMMA InitAttempts == Init => AttemptsInv
  <1> SUFFICES ASSUME Init PROVE SpentInv /\ AttemptsNearlyBounded
    BY InitLease DEF AttemptsInv
  <1>1. QED
    BY JobQueueAssumption DEF Init, SpentInv, Spent, AttemptsNearlyBounded, NoRow

(* However many workers share the table, no job is claimed more than once  *)
(* past MAX_JOB_ATTEMPTS.                                                  *)
THEOREM AttemptsNearlyCorrect == Spec => []AttemptsNearlyBounded
  <1>1. AttemptsInv => AttemptsNearlyBounded
    BY DEF AttemptsInv
  <1>2. QED
    BY InitAttempts, StepAttempts, <1>1, PTL DEF Spec

-------------------------------------------------------------------------------
(* One worker: what it claimed stays its own until it leaves, so its ORM   *)
(* copy is never out of date where fail_job looks at it.                   *)

OwnInv ==
    /\ \A j \in Jobs : jobs[j].status = "absent" => jobs[j].attempts = 0
    /\ \A w \in Workers :
        /\ pc[w] # "refused"
        /\ pc[w] \in {"waiting", "loaded", "working"} => jobs[claim[w]].status = "running"
        /\ pc[w] \in {"loaded", "working"} =>
              /\ obj[w].status = "running"
              /\ obj[w].attempts = jobs[claim[w]].attempts

OneInv == LeaseInv /\ OwnInv /\ AttemptsBounded

(* The contract's view of the table. *)
View == <<[j \in Jobs |-> jobs[j].status], [j \in Jobs |-> jobs[j].attempts]>>

\* What the contract sees of an update of one row.
LEMMA ViewOfUpdate ==
    ASSUME TypeOK, NEW j \in Jobs, NEW r \in Row, jobs' = [jobs EXCEPT ![j] = r]
    PROVE  /\ [k \in Jobs |-> jobs[k].status]'
                 = [[k \in Jobs |-> jobs[k].status] EXCEPT ![j] = r.status]
           /\ [k \in Jobs |-> jobs[k].attempts]'
                 = [[k \in Jobs |-> jobs[k].attempts] EXCEPT ![j] = r.attempts]
  BY DEF TypeOK

\* What the contract sees of an unchanged table.
LEMMA ViewOfSame ==
    ASSUME TypeOK, NEW j \in Jobs, NEW r \in Row, jobs' = [jobs EXCEPT ![j] = r],
           r.status = jobs[j].status, r.attempts = jobs[j].attempts
    PROVE  UNCHANGED View
  <1>1. \A k \in Jobs : jobs'[k].status = jobs[k].status /\ jobs'[k].attempts = jobs[k].attempts
    BY DEF TypeOK
  <1>2. QED
    BY <1>1 DEF View

\* With one worker a claim is a Start or a Restart of the contract.
LEMMA ClaimOne ==
    ASSUME OneWorker, OneInv, NEW w \in Workers, Claim(w)
    PROVE  OwnInv' /\ AttemptsBounded' /\ Contract!ContractNext
  <1> USE JobQueueAssumption
  <1>1. PICK j \in Jobs : ClaimNextJob(w, j)
    BY DEF Claim
  <1> DEFINE r == [status |-> "running", attempts |-> jobs[j].attempts + 1, lease |-> "live"]
  <1>2. r \in Row /\ jobs' = [jobs EXCEPT ![j] = r] /\ jobs[j].attempts \in Nat
    BY <1>1 DEF ClaimNextJob, OneInv, LeaseInv, TypeOK, Row, Status, Lease
  <1>3. \/ jobs[j].status = "queued"
        \/ jobs[j].status = "running" /\ jobs[j].attempts < MaxJobAttempts
    BY <1>1 DEF ClaimNextJob, OldestQueued, OldestReclaimable, Reclaimable, RunningJobIsStale
  <1>4. jobs[j].attempts < MaxJobAttempts
    BY <1>2, <1>3 DEF OneInv, AttemptsBounded
  <1>5. AttemptsBounded'
    BY <1>2, <1>4 DEF OneInv, LeaseInv, TypeOK, AttemptsBounded
  <1>6. OwnInv'
    BY <1>1, <1>2 DEF ClaimNextJob, Claim, Goto, OneWorker, OneInv, LeaseInv, TypeOK, OwnInv
  <1>7. Contract!Start(j) \/ Contract!Restart(j)
    <2>1. /\ [k \in Jobs |-> jobs[k].status]'
                = [[k \in Jobs |-> jobs[k].status] EXCEPT ![j] = "running"]
          /\ [k \in Jobs |-> jobs[k].attempts]'
                = [[k \in Jobs |-> jobs[k].attempts] EXCEPT ![j] = jobs[j].attempts + 1]
      BY <1>2, ViewOfUpdate DEF OneInv, LeaseInv
    <2>2. CASE jobs[j].status = "queued"
      BY <2>1, <2>2 DEF Contract!Start
    <2>3. CASE jobs[j].status = "running"
      BY <2>1, <2>3, <1>4 DEF Contract!Restart
    <2>4. QED
      BY <1>3, <2>2, <2>3
  <1>8. QED
    BY <1>5, <1>6, <1>7 DEF Contract!ContractNext

\* With one worker an outcome is a Requeue or a Settle of the contract.
LEMMA WriteOne ==
    ASSUME OneWorker, OneInv, NEW w \in Workers, NEW s \in {"queued", "completed", "failed"},
           WriteRow(w, s), Leave(w, "idle"), pc[w] \in Inside,
           s = "queued" => ShouldRetry(w)
    PROVE  OwnInv' /\ AttemptsBounded' /\ Contract!ContractNext
  <1> USE JobQueueAssumption
  <1>0. PICK j \in Jobs : j = claim[w]
    BY DEF OneInv, LeaseInv, TypeOK
  <1> DEFINE r == [status |-> s, attempts |-> jobs[j].attempts,
                   lease |-> IF obj[w].lease = "none" THEN jobs[j].lease ELSE "none"]
  <1>1. /\ jobs[j] \in Row
        /\ pc[w] \in {"loaded", "working"}
        /\ jobs[j].status = "running"
        /\ obj[w].status = "running"
        /\ obj[w].attempts = jobs[j].attempts
    BY <1>0 DEF OneInv, LeaseInv, TypeOK, OwnInv, Inside
  <1>2. r \in Row /\ jobs' = [jobs EXCEPT ![j] = r]
    BY <1>0, <1>1 DEF WriteRow, Row, Status, Lease
  <1>3. s = "queued" => jobs[j].attempts < MaxRetryAttempts
    BY <1>1 DEF ShouldRetry
  <1>4. AttemptsBounded'
    BY <1>1, <1>2, <1>3 DEF OneInv, LeaseInv, TypeOK, AttemptsBounded
  <1>5. OwnInv'
    BY <1>1, <1>2 DEF OneWorker, OneInv, LeaseInv, TypeOK, OwnInv, Leave, Goto
  <1>6. Contract!Requeue(j) \/ Contract!Settle(j)
    <2>1. [k \in Jobs |-> jobs[k].status]' = [[k \in Jobs |-> jobs[k].status] EXCEPT ![j] = s]
      BY <1>1, <1>2, ViewOfUpdate DEF OneInv, LeaseInv
    <2>2. [k \in Jobs |-> jobs[k].attempts]' = [k \in Jobs |-> jobs[k].attempts]
      BY <1>1, <1>2 DEF OneInv, LeaseInv, TypeOK
    <2>3. CASE s = "queued"
      BY <2>1, <2>2, <2>3, <1>1, <1>3 DEF Contract!Requeue
    <2>4. CASE s # "queued"
      BY <2>1, <2>2, <2>4, <1>1 DEF Contract!Settle
    <2>5. QED
      BY <2>3, <2>4
  <1>7. QED
    BY <1>4, <1>5, <1>6 DEF Contract!ContractNext

\* With one worker every worker step is a step of the contract or a stutter.
LEMMA WorkerOne ==
    ASSUME OneWorker, OneInv, NEW w \in Workers, WorkerStep(w)
    PROVE  OwnInv' /\ AttemptsBounded' /\ (Contract!ContractNext \/ UNCHANGED View)
  <1>1. CASE Claim(w)
    BY <1>1, ClaimOne
  <1>2. CASE LockRepo(w)
    BY <1>2 DEF LockRepo, Goto, OneInv, LeaseInv, TypeOK, OwnInv, AttemptsBounded, View
  <1>3. CASE RenewJobLease(w) \/ Checkpoint(w)
    <2> DEFINE j == claim[w]
               r == WithLease(jobs[j], "live")
    <2>1. /\ j \in Jobs
          /\ r \in Row
          /\ jobs' = [jobs EXCEPT ![j] = r]
          /\ r.status = jobs[j].status
          /\ r.attempts = jobs[j].attempts
      BY <1>3 DEF RenewJobLease, Checkpoint, HeartbeatJob, WithLease, OneInv, LeaseInv, TypeOK,
                  Row, Lease
    <2>2. UNCHANGED View
      BY <2>1, ViewOfSame DEF OneInv, LeaseInv
    <2>3. AttemptsBounded'
      BY <2>1 DEF OneInv, LeaseInv, TypeOK, AttemptsBounded
    <2>4. OwnInv'
      BY <1>3, <2>1 DEF RenewJobLease, Checkpoint, Goto, OneWorker, OneInv, LeaseInv, TypeOK, OwnInv
    <2>5. QED
      BY <2>2, <2>3, <2>4
  <1>4. CASE RenewalRefused(w)
    BY <1>4 DEF RenewalRefused, OneInv, OwnInv
  <1>5. CASE JobSucceeds(w)
    BY <1>5, WriteOne DEF JobSucceeds, CompleteJob, Inside
  <1>6. CASE JobRaises(w)
    <2>1. PICK s \in {"queued", "failed"} : WriteRow(w, s) /\ (s = "queued" => ShouldRetry(w))
      BY <1>6 DEF JobRaises, FailJob
    <2>2. QED
      BY <1>6, <2>1, WriteOne DEF JobRaises
  <1>7. CASE LockTimeout(w) \/ SessionRollsBack(w) \/ Crash(w) \/ Restarted(w)
    BY <1>7 DEF LockTimeout, SessionRollsBack, Crash, Restarted, Leave, Goto, OneWorker,
                OneInv, LeaseInv, TypeOK, OwnInv, AttemptsBounded, View
  <1>8. QED
    BY <1>1, <1>2, <1>3, <1>4, <1>5, <1>6, <1>7 DEF WorkerStep

\* OneInv is inductive and every step implements a contract step.
LEMMA StepOne ==
    ASSUME OneWorker
    PROVE  OneInv /\ [Next]_vars => OneInv' /\ (Contract!ContractNext \/ UNCHANGED View)
  <1> SUFFICES ASSUME OneInv, [Next]_vars
               PROVE  OwnInv' /\ AttemptsBounded' /\ (Contract!ContractNext \/ UNCHANGED View)
    BY StepLease DEF OneInv
  <1> USE JobQueueAssumption
  <1>1. CASE UNCHANGED vars
    BY <1>1 DEF vars, OneInv, OwnInv, AttemptsBounded, View
  <1>2. CASE Enqueue
    <2>1. PICK j \in Jobs : NextId(j) /\ EnqueueJob(j)
      BY <1>2 DEF Enqueue
    <2> DEFINE r == [status |-> "queued", attempts |-> 0, lease |-> "none"]
    <2>2. r \in Row /\ jobs' = [jobs EXCEPT ![j] = r] /\ jobs[j].status = "absent"
      BY <2>1 DEF EnqueueJob, NextId, Row, Status, Lease
    <2>3. OwnInv' /\ AttemptsBounded'
      BY <1>2, <2>2 DEF Enqueue, OneInv, LeaseInv, TypeOK, OwnInv, AttemptsBounded
    <2>4. jobs[j].attempts = 0
      BY <2>2 DEF OneInv, OwnInv
    <2>5. Contract!Submit(j)
      <3>1. [k \in Jobs |-> jobs[k].status]'
                = [[k \in Jobs |-> jobs[k].status] EXCEPT ![j] = "queued"]
        BY <2>2, ViewOfUpdate DEF OneInv, LeaseInv
      <3>2. [k \in Jobs |-> jobs[k].attempts]' = [k \in Jobs |-> jobs[k].attempts]
        BY <2>2, <2>4 DEF OneInv, LeaseInv, TypeOK
      <3>3. QED
        BY <2>2, <3>1, <3>2 DEF Contract!Submit
    <2>6. QED
      BY <2>3, <2>5 DEF Contract!ContractNext
  <1>3. CASE OutsiderLocks \/ OutsiderUnlocks
    BY <1>3 DEF OutsiderLocks, OutsiderUnlocks, OneInv, OwnInv, AttemptsBounded, View
  <1>4. CASE \E j \in Jobs : LeaseExpires(j)
    <2>1. PICK j \in Jobs : LeaseExpires(j)
      BY <1>4
    <2> DEFINE r == WithLease(jobs[j], "expired")
    <2>2. /\ r \in Row
          /\ jobs' = [jobs EXCEPT ![j] = r]
          /\ r.status = jobs[j].status
          /\ r.attempts = jobs[j].attempts
      BY <2>1 DEF LeaseExpires, WithLease, OneInv, LeaseInv, TypeOK, Row, Lease
    <2>3. UNCHANGED View
      BY <2>2, ViewOfSame DEF OneInv, LeaseInv
    <2>4. OwnInv' /\ AttemptsBounded'
      BY <2>1, <2>2 DEF LeaseExpires, OneInv, LeaseInv, TypeOK, OwnInv, AttemptsBounded
    <2>5. QED
      BY <2>3, <2>4
  <1>5. CASE \E w \in Workers : WorkerStep(w)
    BY <1>5, WorkerOne
  <1>6. QED
    BY <1>1, <1>2, <1>3, <1>4, <1>5, StepCases

\* The initial state satisfies OneInv and maps to the contract's.
LEMMA InitOne == Init => OneInv /\ Contract!ContractInit
  <1> SUFFICES ASSUME Init PROVE OwnInv /\ AttemptsBounded /\ Contract!ContractInit
    BY InitLease DEF OneInv
  <1>1. QED
    BY JobQueueAssumption DEF Init, OwnInv, AttemptsBounded, NoRow, Contract!ContractInit

(* With one worker a job is claimed at most MAX_JOB_ATTEMPTS times and is  *)
(* queued only while fail_job owes it a retry.                             *)
THEOREM AttemptsCorrect == ASSUME OneWorker PROVE Spec => []AttemptsBounded
  <1>1. OneInv /\ [Next]_vars => OneInv'
    BY StepOne
  <1>2. OneInv => AttemptsBounded
    BY DEF OneInv
  <1>3. QED
    BY InitOne, <1>1, <1>2, PTL DEF Spec

(* With one worker the queue implements the job contract: a completed or   *)
(* failed job never changes again, and a job returns to the queue only     *)
(* with a retry left.                                                      *)
THEOREM ContractCorrect == ASSUME OneWorker PROVE Spec => JobContractHolds
  <1>1. OneInv /\ [Next]_vars => OneInv'
    BY StepOne
  <1>2. OneInv /\ [Next]_vars => [Contract!ContractNext]_(Contract!contractVars)
    BY StepOne DEF View, Contract!contractVars
  <1>3. QED
    BY InitOne, <1>1, <1>2, PTL DEF Spec, JobContractHolds, Contract!ContractSpec

-------------------------------------------------------------------------------
(* The release pipeline *)

\* What a worker in a job knows: the job exists, and where it found the release
\* materialized or read the intent's policy, the release has rows and has left
\* "preparing" for good.
StageInv ==
    \A w \in Workers :
        /\ pc[w] \in {"waiting"} \cup Inside => jobs[claim[w]].status # "absent"
        /\ stage[w] # "start" => pc[w] \in {"working", "refused"}
        /\ stage[w] \in {"current", "decided"} =>
              rows[RelOf(w)] # "none" /\ rel[RelOf(w)] \in {"ready", "failed"}

\* What was stored before a later write relies on it: an intent needs its
\* release, a request about to enqueue and a job that carries an intent need
\* the intent.
StoredInv ==
    /\ \A r \in Releases : intent[r] # "none" => rel[r] # "none"
    /\ \A c \in Clients :
          /\ req[c].step \in {"publishExisting", "intentStored", "enqueue"}
                => rel[req[c].rel] # "none"
          /\ req[c].step \in {"intentStored", "enqueue"} => intent[req[c].rel] # "none"
    /\ \A j \in Jobs : jobs[j].status # "absent" /\ jobIntent[j] => intent[jobRel[j]] # "none"

FlowParts ==
    /\ FlowTypeOK
    /\ StageInv
    /\ StoredInv
    /\ PublishedHasArtifacts
    /\ PreparingHasJob
    /\ CompletedJobDecidesIntent

FlowInv == LeaseInv /\ FlowParts

-------------------------------------------------------------------------------
(* The queue below *)

\* Enqueueing a materialization is Enqueue for some new job.
LEMMA EnqueuesJob ==
    ASSUME FlowTypeOK, NEW r \in Releases, NEW b \in BOOLEAN, EnqueueMaterialization(r, b),
           UNCHANGED <<lock, pc, claim, obj>>
    PROVE  /\ Enqueue
           /\ \E j \in Jobs :
                 /\ jobs[j].status = "absent"
                 /\ jobs' = [jobs EXCEPT ![j] = [status |-> "queued", attempts |-> 0, lease |-> "none"]]
                 /\ jobRel' = [jobRel EXCEPT ![j] = r]
                 /\ jobIntent' = [jobIntent EXCEPT ![j] = b]
  BY DEF EnqueueMaterialization, Enqueue, EnqueueJob, NextId

\* Every step of publishing is a step of the queue.
LEMMA FlowIsQueueStep == FlowTypeOK /\ [FlowNext]_allVars => [Next]_vars
  <1> SUFFICES ASSUME FlowTypeOK, [FlowNext]_allVars PROVE [Next]_vars
    OBVIOUS
  <1>1. ASSUME NEW c \in Clients, RequestStep(c) PROVE Next \/ UNCHANGED vars
    <2>1. req[c].rel \in Releases
      BY DEF FlowTypeOK
    <2>2. CASE CreateReleaseWrites(c) \/ PublishNewWrites(c) \/ PublishEnqueues(c)
      BY <2>1, <2>2, EnqueuesJob DEF CreateReleaseWrites, PublishNewWrites, PublishEnqueues, Next
    <2>3. CASE \/ PublishExistingWrites(c) \/ PublishFindsActiveJob(c) \/ RequestFails(c)
               \/ \E r \in Releases : CreateReleaseReads(c, r) \/ PublishReads(c, r)
      BY <2>3 DEF PublishExistingWrites, PublishFindsActiveJob, RequestFails, CreateReleaseReads,
                  PublishReads
    <2>4. QED
      BY <1>1, <2>2, <2>3 DEF RequestStep
  <1>2. ASSUME NEW w \in Workers, JobStep(w) PROVE Next \/ UNCHANGED vars
    <2>1. CASE QueueStep(w)
      BY <2>1 DEF QueueStep, Next, WorkerStep
    <2>2. CASE FindsCurrent(w) \/ BuildsFiles(w) \/ DecidesIntent(w)
      BY <2>2 DEF FindsCurrent, BuildsFiles, DecidesIntent
    <2>3. CASE MaterializationSucceeds(w) \/ MaterializationRaises(w) \/ TransactionLost(w)
      BY <2>3 DEF MaterializationSucceeds, MaterializationRaises, TransactionLost, Next, WorkerStep
    <2>4. QED
      BY <1>2, <2>1, <2>2, <2>3 DEF JobStep
  <1>3. CASE AgentChanges \/ \E r \in Releases : FilesDamaged(r)
    BY <1>3 DEF AgentChanges, FilesDamaged
  <1>4. CASE LeaseRunsOut \/ OutsiderStep
    BY <1>4 DEF LeaseRunsOut, OutsiderStep, Next
  <1>5. CASE UNCHANGED allVars
    BY <1>5 DEF allVars
  <1>6. QED
    BY <1>1, <1>2, <1>3, <1>4, <1>5 DEF FlowNext

\* What an outcome writes: the claimed job's status becomes s, no other changes,
\* and the worker is idle.
LEMMA OutcomeWritten ==
    ASSUME LeaseInv, NEW w \in Workers, NEW s \in {"queued", "completed", "failed"},
           WriteRow(w, s), Leave(w, "idle"), pc[w] \in Inside,
           s # "failed" => pc[w] = "working"
    PROVE  /\ claim[w] \in Jobs /\ jobs'[claim[w]].status = s
           /\ \A j \in Jobs : j # claim[w] => jobs'[j] = jobs[j]
           /\ claim' = claim /\ pc' = [pc EXCEPT ![w] = "idle"]
  <1>1. /\ \A j \in Jobs : j # claim[w] => jobs'[j] = jobs[j]
        /\ jobs'[claim[w]].status =
              IF s = obj[w].status THEN jobs[claim[w]].status ELSE s
    BY WriteRowType DEF LeaseInv, Status
  <1>2. jobs'[claim[w]].status = s
    BY <1>1 DEF LeaseInv, CopiesInv
  <1>3. QED
    BY <1>1, <1>2 DEF LeaseInv, TypeOK, Leave, Goto

\* A job that raises is queued again or failed.
LEMMA RaiseWritten ==
    ASSUME LeaseInv, NEW w \in Workers, JobRaises(w)
    PROVE  /\ claim[w] \in Jobs /\ jobs'[claim[w]].status \in {"queued", "failed"}
           /\ \A j \in Jobs : j # claim[w] => jobs'[j] = jobs[j]
           /\ claim' = claim /\ pc' = [pc EXCEPT ![w] = "idle"]
  <1>1. PICK s \in {"queued", "failed"} : WriteRow(w, s) /\ (s # "failed" => pc[w] = "working")
    BY DEF JobRaises, FailJob
  <1>2. QED
    BY <1>1, OutcomeWritten DEF JobRaises

\* A job that succeeds is completed.
LEMMA SuccessWritten ==
    ASSUME LeaseInv, NEW w \in Workers, JobSucceeds(w)
    PROVE  /\ claim[w] \in Jobs /\ jobs'[claim[w]].status = "completed"
           /\ \A j \in Jobs : j # claim[w] => jobs'[j] = jobs[j]
           /\ claim' = claim /\ pc' = [pc EXCEPT ![w] = "idle"]
  BY OutcomeWritten DEF JobSucceeds, CompleteJob, Inside

-------------------------------------------------------------------------------
(* Requests *)

\* The empty request has its type.
LEMMA NoRequestFact == NoRequest \in [step : Steps, rel : Releases] /\ NoRequest.step = "none"
  BY ReleaseAssumption DEF NoRequest, Steps

\* A request that writes nothing but itself.
LEMMA ReadKeeps ==
    ASSUME FlowInv, NEW c \in Clients, NEW q \in [step : Steps, rel : Releases],
           req' = [req EXCEPT ![c] = q],
           q.step \in {"publishExisting", "intentStored", "enqueue"} => rel[q.rel] # "none",
           q.step \in {"intentStored", "enqueue"} => intent[q.rel] # "none",
           UNCHANGED <<vars, rel, rows, intent, exposed, agent, jobRel, jobIntent, stage, verdict>>
    PROVE  FlowParts'
  <1> USE DEF FlowInv, FlowParts, vars
  <1>1. FlowTypeOK'
    BY DEF FlowTypeOK
  <1>2. StoredInv'
    BY DEF FlowTypeOK, StoredInv
  <1>3. StageInv'
    BY DEF StageInv, RelOf
  <1>4. PublishedHasArtifacts' /\ PreparingHasJob' /\ CompletedJobDecidesIntent'
    BY DEF PublishedHasArtifacts, PreparingHasJob, CompletedJobDecidesIntent, JobsOf
  <1>5. QED
    BY <1>1, <1>2, <1>3, <1>4

\* A request that enqueues a job for r, whose release it may create, with an intent or without.
LEMMA EnqueueKeeps ==
    ASSUME FlowInv, NEW c \in Clients, NEW r \in Releases, NEW b \in BOOLEAN,
           EnqueueMaterialization(r, b), Reply(c),
           \/ UNCHANGED rel
           \/ rel[r] = "none" /\ rel' = [rel EXCEPT ![r] = "preparing"],
           \/ UNCHANGED intent
           \/ rel[r] = "none" /\ rel'[r] # "none" /\ b /\ intent' = [intent EXCEPT ![r] = "pending"],
           b => intent'[r] # "none",
           UNCHANGED <<lock, pc, claim, obj, rows, exposed, agent, stage, verdict>>
    PROVE  FlowParts'
  <1> USE DEF FlowInv, FlowParts
  <1>1. PICK j \in Jobs :
            /\ jobs[j].status = "absent"
            /\ jobs' = [jobs EXCEPT ![j] = [status |-> "queued", attempts |-> 0, lease |-> "none"]]
            /\ jobRel' = [jobRel EXCEPT ![j] = r]
            /\ jobIntent' = [jobIntent EXCEPT ![j] = b]
    BY EnqueuesJob
  <1>2. /\ jobs \in [Jobs -> Row] /\ claim \in [Workers -> Jobs]
        /\ jobs'[j].status = "queued" /\ jobRel'[j] = r /\ jobIntent'[j] = b
        /\ \A k \in Jobs \ {j} : jobs'[k] = jobs[k] /\ jobRel'[k] = jobRel[k] /\ jobIntent'[k] = jobIntent[k]
    BY <1>1 DEF LeaseInv, TypeOK, FlowTypeOK
  <1>3. FlowTypeOK'
    BY <1>1, NoRequestFact DEF FlowTypeOK, Reply
  <1>4. /\ \A x \in Releases : rel[x] # "none" => rel'[x] = rel[x]
        /\ \A x \in Releases : intent[x] # "none" => intent'[x] = intent[x]
        /\ \A x \in Releases : x # r => rel'[x] = rel[x] /\ intent'[x] = intent[x]
    BY DEF FlowTypeOK, StoredInv
  <1>5. StageInv'
    <2>1. ASSUME NEW w \in Workers, stage[w] # "start" \/ pc[w] \in {"waiting"} \cup Inside
          PROVE  claim[w] \in Jobs \ {j}
      BY <2>1, <1>1, <1>2 DEF StageInv, Inside
    <2>2. \A w \in Workers : stage[w] # "start" => RelOf(w)' = RelOf(w) /\ RelOf(w) \in Releases
      BY <2>1, <1>2 DEF RelOf, FlowTypeOK
    <2>3. QED
      BY <1>2, <1>4, <2>1, <2>2 DEF StageInv, Inside
  <1>6. StoredInv'
    <2>1. \A x \in Clients : x # c => req'[x] = req[x]
      BY DEF Reply, FlowTypeOK
    <2>2. req'[c].step = "none"
      BY NoRequestFact DEF Reply, FlowTypeOK
    <2>3. \A x \in Clients : req[x].rel \in Releases
      BY DEF FlowTypeOK
    <2>4. \A k \in Jobs : jobRel[k] \in Releases
      BY DEF FlowTypeOK
    <2>5. \A x \in Releases : intent'[x] # "none" => rel'[x] # "none"
      BY <1>4 DEF StoredInv
    <2>6. \A k \in Jobs : jobs'[k].status # "absent" /\ jobIntent'[k] => intent'[jobRel'[k]] # "none"
      BY <1>2, <1>4, <2>4 DEF StoredInv
    <2>7. QED
      BY <1>4, <2>1, <2>2, <2>3, <2>5, <2>6 DEF StoredInv
  <1>7. PublishedHasArtifacts'
    BY <1>4 DEF PublishedHasArtifacts, FlowTypeOK
  <1>8. PreparingHasJob'
    <2>1. ASSUME NEW x \in Releases, rel'[x] = "preparing"
          PROVE  \E k \in JobsOf(x)' : jobs'[k].status \in {"queued", "running"}
      <3>1. CASE x = r
        BY <3>1, <1>2 DEF JobsOf
      <3>2. CASE x # r
        <4>1. PICK k \in JobsOf(x) : jobs[k].status \in {"queued", "running"}
          BY <3>2, <2>1, <1>4 DEF PreparingHasJob
        <4>2. QED
          BY <4>1, <1>1, <1>2 DEF JobsOf
      <3>3. QED
        BY <3>1, <3>2
    <2>2. QED
      BY <2>1 DEF PreparingHasJob
  <1>9. CompletedJobDecidesIntent'
    BY <1>2, <1>4 DEF CompletedJobDecidesIntent, FlowTypeOK
  <1>10. QED
    BY <1>3, <1>5, <1>6, <1>7, <1>8, <1>9

\* Every step of a request keeps the invariant.
LEMMA RequestKeeps ==
    ASSUME FlowInv, NEW c \in Clients, RequestStep(c)
    PROVE  FlowParts'
  <1>1. req[c] \in [step : Steps, rel : Releases]
    BY DEF FlowInv, FlowParts, FlowTypeOK
  <1>2. CASE \E r \in Releases : CreateReleaseReads(c, r) \/ PublishReads(c, r)
    <2>1. PICK r \in Releases : CreateReleaseReads(c, r) \/ PublishReads(c, r)
      BY <1>2
    <2>2. PICK step \in {"create", "recover", "publishNew", "publishExisting"} :
              Expect(c, step, r) /\ (step = "publishExisting" => rel[r] # "none")
      BY <2>1 DEF CreateReleaseReads, PublishReads
    <2>3. [step |-> step, rel |-> r] \in [step : Steps, rel : Releases]
      BY DEF Steps
    <2>4. QED
      BY <2>1, <2>2, <2>3, ReadKeeps DEF CreateReleaseReads, PublishReads, Expect
  <1>3. CASE CreateReleaseWrites(c) \/ PublishNewWrites(c) \/ PublishEnqueues(c)
    <2>1. CASE CreateReleaseWrites(c)
      BY <1>1, <2>1, EnqueueKeeps DEF CreateReleaseWrites
    <2>2. CASE PublishNewWrites(c)
      BY <1>1, <2>2, EnqueueKeeps DEF PublishNewWrites, FlowInv, FlowParts, FlowTypeOK
    <2>3. CASE PublishEnqueues(c)
      BY <1>1, <2>3, EnqueueKeeps DEF PublishEnqueues, FlowInv, FlowParts, StoredInv
    <2>4. QED
      BY <1>3, <2>1, <2>2, <2>3
  <1>4. CASE PublishExistingWrites(c)
    <2> DEFINE r == req[c].rel
    <2> USE DEF FlowInv, FlowParts
    <2>1. /\ r \in Releases /\ rel[r] # "none"
          /\ intent[r] = "none" /\ intent' = [intent EXCEPT ![r] = "pending"]
          /\ req' = [req EXCEPT ![c] = [step |-> "intentStored", rel |-> r]]
          /\ UNCHANGED <<vars, rel, rows, exposed, agent, jobRel, jobIntent, stage, verdict>>
      BY <1>1, <1>4 DEF PublishExistingWrites, Expect, StoredInv
    <2>2. FlowTypeOK'
      BY <2>1 DEF FlowTypeOK, Steps
    <2>3. /\ intent'[r] = "pending"
          /\ \A x \in Releases : x # r => intent'[x] = intent[x]
      BY <2>1 DEF FlowTypeOK
    <2>4. StoredInv'
      BY <2>1, <2>3 DEF FlowTypeOK, StoredInv, vars
    <2>5. StageInv'
      BY <2>1 DEF StageInv, RelOf, vars
    <2>6. PublishedHasArtifacts' /\ PreparingHasJob'
      BY <2>1, <2>3 DEF PublishedHasArtifacts, PreparingHasJob, JobsOf, vars
    <2>7. CompletedJobDecidesIntent'
      BY <2>1, <2>3 DEF CompletedJobDecidesIntent, FlowTypeOK, vars
    <2>8. QED
      BY <2>2, <2>4, <2>5, <2>6, <2>7
  <1>5. CASE PublishFindsActiveJob(c)
    <2>1. [step |-> "enqueue", rel |-> req[c].rel] \in [step : Steps, rel : Releases]
      BY <1>1 DEF Steps
    <2>2. req[c].step = "intentStored" => rel[req[c].rel] # "none" /\ intent[req[c].rel] # "none"
      BY DEF FlowInv, FlowParts, StoredInv
    <2>3. QED
      BY <1>5, <2>1, <2>2, ReadKeeps, NoRequestFact DEF PublishFindsActiveJob, Expect, Reply
  <1>6. CASE RequestFails(c)
    BY <1>6, ReadKeeps, NoRequestFact DEF RequestFails, Reply
  <1>7. QED
    BY <1>2, <1>3, <1>4, <1>5, <1>6 DEF RequestStep

-------------------------------------------------------------------------------
(* The worker *)

\* Steps that change no row of publishing, keep every job's status, and leave
\* the jobs of the workers inside a job alone.
LEMMA QuietKeeps ==
    ASSUME FlowInv, [Next]_vars,
           \A j \in Jobs : \/ jobs'[j].status = jobs[j].status
                          \/ /\ jobs[j].status \in {"queued", "running"}
                             /\ jobs'[j].status = "running",
           \A w \in Workers : stage'[w] # "start" => stage'[w] = stage[w] /\ claim'[w] = claim[w]
                                                    /\ pc'[w] \in {"working", "refused"},
           \A w \in Workers : pc'[w] \in {"waiting"} \cup Inside => jobs'[claim'[w]].status # "absent",
           stage' \in [Workers -> Stages], verdict' \in [Workers -> BOOLEAN],
           UNCHANGED <<rel, rows, intent, exposed, agent, jobRel, jobIntent, req>>
    PROVE  FlowParts'
  <1> USE DEF FlowInv, FlowParts
  <1>1. FlowTypeOK'
    BY DEF FlowTypeOK
  <1>2. StageInv'
    BY DEF StageInv, RelOf
  <1>3. StoredInv'
    BY DEF StoredInv
  <1>4. PublishedHasArtifacts'
    BY DEF PublishedHasArtifacts
  <1>5. PreparingHasJob'
    <2>1. ASSUME NEW r \in Releases, rel'[r] = "preparing"
          PROVE  \E k \in JobsOf(r)' : jobs'[k].status \in {"queued", "running"}
      <3>1. PICK k \in JobsOf(r) : jobs[k].status \in {"queued", "running"}
        BY <2>1 DEF PreparingHasJob
      <3>2. jobs'[k].status \in {"queued", "running"} /\ k \in JobsOf(r)'
        BY <3>1 DEF JobsOf
      <3>3. QED
        BY <3>2
    <2>2. QED
      BY <2>1 DEF PreparingHasJob
  <1>6. CompletedJobDecidesIntent'
    BY DEF CompletedJobDecidesIntent
  <1>7. QED
    BY <1>1, <1>2, <1>3, <1>4, <1>5, <1>6

\* The steps of the queue that keep the statuses of all jobs, or claim one.
LEMMA QueueKeeps ==
    ASSUME FlowInv, NEW w \in Workers, QueueStep(w) \/ TransactionLost(w)
    PROVE  FlowParts'
  <1> USE DEF FlowInv, FlowParts
  <1>T. /\ jobs \in [Jobs -> Row] /\ pc \in [Workers -> PC] /\ claim \in [Workers -> Jobs]
        /\ stage \in [Workers -> Stages] /\ verdict \in [Workers -> BOOLEAN]
    BY DEF LeaseInv, TypeOK, FlowTypeOK
  <1>N. [Next]_vars
    BY DEF QueueStep, TransactionLost, Next, WorkerStep
  <1>1. CASE Claim(w) /\ UNCHANGED flowVars
    <2>1. PICK j \in Jobs : ClaimNextJob(w, j)
      BY <1>1 DEF Claim
    <2>2. jobs[j].status \in {"queued", "running"}
      BY <2>1 DEF ClaimNextJob, OldestQueued, OldestReclaimable, Reclaimable, RunningJobIsStale
    <2>3. /\ jobs'[j].status = "running" /\ \A k \in Jobs \ {j} : jobs'[k] = jobs[k]
          /\ claim'[w] = j /\ \A v \in Workers \ {w} : claim'[v] = claim[v] /\ pc'[v] = pc[v]
          /\ pc[w] = "idle" /\ pc'[w] = "waiting"
      BY <1>T, <1>1, <2>1 DEF ClaimNextJob, Claim, Goto
    <2>4. stage[w] = "start"
      BY <2>3 DEF StageInv
    <2>5. \A v \in Workers : pc'[v] \in {"waiting"} \cup Inside => jobs'[claim'[v]].status # "absent"
      BY <1>T, <2>2, <2>3 DEF StageInv
    <2>6. QED
      BY <1>1, <1>N, <1>T, <2>2, <2>3, <2>4, <2>5, QuietKeeps DEF flowVars, StageInv
  <1>2. CASE /\ LockRepo(w) \/ RenewJobLease(w) \/ Checkpoint(w) \/ RenewalRefused(w)
             /\ UNCHANGED flowVars
    <2>1. /\ \A j \in Jobs : jobs'[j].status = jobs[j].status
          /\ claim' = claim
          /\ \A v \in Workers \ {w} : pc'[v] = pc[v]
          /\ pc[w] \in {"waiting"} \cup Inside
          /\ stage[w] # "start" => pc'[w] \in {"working", "refused"}
      BY <1>T, <1>2 DEF LockRepo, RenewJobLease, Checkpoint, RenewalRefused, HeartbeatJob, WithLease,
                        Goto, Inside, StageInv
    <2>2. \A v \in Workers : pc'[v] \in {"waiting"} \cup Inside => jobs'[claim'[v]].status # "absent"
      BY <1>T, <2>1 DEF StageInv
    <2>3. QED
      BY <1>2, <1>N, <1>T, <2>1, <2>2, QuietKeeps DEF flowVars, StageInv
  <1>3. CASE (LockTimeout(w) \/ Restarted(w)) /\ UNCHANGED flowVars
    <2>1. /\ jobs' = jobs /\ claim' = claim
          /\ \A v \in Workers \ {w} : pc'[v] = pc[v]
          /\ pc[w] \in {"waiting", "down"} /\ pc'[w] = "idle"
      BY <1>T, <1>3 DEF LockTimeout, Restarted, Leave, Goto
    <2>2. QED
      BY <1>3, <1>N, <1>T, <2>1, QuietKeeps DEF flowVars, StageInv, Inside
  <1>4. CASE TransactionLost(w)
    <2>1. /\ jobs' = jobs /\ claim' = claim
          /\ \A v \in Workers \ {w} : pc'[v] = pc[v] /\ stage'[v] = stage[v]
          /\ pc'[w] \in {"idle", "down"} /\ stage'[w] = "start"
          /\ stage' \in [Workers -> Stages] /\ verdict' \in [Workers -> BOOLEAN]
          /\ UNCHANGED <<rel, rows, intent, exposed, agent, jobRel, jobIntent, req>>
      BY <1>T, <1>4 DEF TransactionLost, SessionRollsBack, Crash, Leave, Goto, Restage, Stages
    <2>2. QED
      BY <1>N, <1>T, <2>1, QuietKeeps DEF StageInv, Inside
  <1>5. QED
    BY <1>1, <1>2, <1>3, <1>4 DEF QueueStep

\* The steps of a job before its outcome.
LEMMA BodyKeeps ==
    ASSUME FlowInv, NEW w \in Workers, FindsCurrent(w) \/ BuildsFiles(w) \/ DecidesIntent(w)
    PROVE  FlowParts'
  <1> USE DEF FlowInv, FlowParts
  <1>1. /\ RelOf(w) \in Releases /\ pc[w] = "working"
        /\ UNCHANGED <<vars, rel, intent, exposed, agent, jobRel, jobIntent, req>>
        /\ \A r \in Releases : rows[r] # "none" => rows'[r] # "none"
        /\ \A v \in Workers : RelOf(v)' = RelOf(v)
        /\ \A v \in Workers \ {w} : stage'[v] = stage[v]
    BY DEF FindsCurrent, BuildsFiles, DecidesIntent, RelOf, LeaseInv, TypeOK, FlowTypeOK, vars
  <1>2. FlowTypeOK'
    BY <1>1 DEF FindsCurrent, BuildsFiles, DecidesIntent, FlowTypeOK, Stages
  <1>3. stage'[w] \in {"current", "decided"} =>
            rows'[RelOf(w)] # "none" /\ rel[RelOf(w)] \in {"ready", "failed"}
    BY <1>1 DEF FindsCurrent, BuildsFiles, DecidesIntent, Current, StageInv, FlowTypeOK
  <1>4. \A v \in Workers : RelOf(v) \in Releases
    BY DEF RelOf, LeaseInv, TypeOK, FlowTypeOK
  <1>5. StageInv'
    BY <1>1, <1>3, <1>4 DEF StageInv, vars
  <1>6. StoredInv' /\ PreparingHasJob' /\ CompletedJobDecidesIntent'
    BY <1>1 DEF StoredInv, PreparingHasJob, CompletedJobDecidesIntent, JobsOf, vars
  <1>7. PublishedHasArtifacts'
    BY <1>1 DEF PublishedHasArtifacts
  <1>8. QED
    BY <1>2, <1>5, <1>6, <1>7

\* What an outcome may do to the release, the rows and the intent of its job.
Outcome(w, s) ==
    LET r == RelOf(w) IN
    /\ rel' = [rel EXCEPT ![r] = rel'[r]] /\ rel'[r] \in {rel[r], "ready", "failed"}
    /\ rows' = [rows EXCEPT ![r] = rows'[r]] /\ rows'[r] \in {rows[r], "current"}
    /\ \/ UNCHANGED intent
       \/ /\ intent[r] = "pending" /\ rows'[r] # "none"
          /\ \E d \in {"activated", "suppressed"} : intent' = [intent EXCEPT ![r] = d]
    /\ exposed' \subseteq Releases
    /\ rel'[r] = "ready" => rel[r] = "ready" \/ rows'[r] # "none"
    /\ s = "failed" => rel'[r] = "failed"
    /\ s = "completed" => /\ rel'[r] # "preparing"
                          /\ jobIntent[claim[w]] => intent'[r] \in {"activated", "suppressed"}

\* An outcome of a job keeps the invariant.
LEMMA OutcomeKeeps ==
    ASSUME FlowInv, NEW w \in Workers, NEW s \in {"queued", "completed", "failed"},
           claim[w] \in Jobs, jobs'[claim[w]].status = s,
           \A j \in Jobs : j # claim[w] => jobs'[j] = jobs[j],
           claim' = claim, pc' = [pc EXCEPT ![w] = "idle"], pc[w] \in Inside,
           Restage(w), Outcome(w, s), UNCHANGED <<agent, jobRel, jobIntent, req>>
    PROVE  FlowParts'
  <1> USE DEF FlowInv, FlowParts
  <1> DEFINE r == RelOf(w)
             j == claim[w]
  <1>T. /\ r \in Releases /\ jobRel[j] = r
        /\ rel \in [Releases -> {"none", "preparing", "ready", "failed"}]
        /\ rows \in [Releases -> {"none", "current", "stale"}]
        /\ intent \in [Releases -> {"none", "pending", "activated", "suppressed"}]
        /\ jobRel \in [Jobs -> Releases] /\ claim \in [Workers -> Jobs]
        /\ stage \in [Workers -> Stages] /\ pc \in [Workers -> PC]
    BY DEF RelOf, LeaseInv, TypeOK, FlowTypeOK
  <1>1. /\ \A x \in Releases \ {r} : rel'[x] = rel[x] /\ rows'[x] = rows[x] /\ intent'[x] = intent[x]
        /\ \A x \in Releases : rows[x] # "none" => rows'[x] # "none"
        /\ \A x \in Releases : rel[x] \in {"ready", "failed"} => rel'[x] \in {"ready", "failed"}
        /\ \A x \in Releases : rel[x] # "none" => rel'[x] # "none"
        /\ \A x \in Releases : rel'[x] = "preparing" => rel[x] = "preparing"
        /\ \A x \in Releases : intent'[x] = "none" <=> intent[x] = "none"
        /\ \A x \in Releases : intent[x] \in {"activated", "suppressed"} => intent'[x] = intent[x]
    BY <1>T DEF Outcome
  <1>2. FlowTypeOK'
    <2>1. /\ rel' \in [Releases -> {"none", "preparing", "ready", "failed"}]
          /\ rows' \in [Releases -> {"none", "current", "stale"}]
          /\ intent' \in [Releases -> {"none", "pending", "activated", "suppressed"}]
          /\ exposed' \subseteq Releases
      BY <1>T DEF Outcome
    <2>2. stage' \in [Workers -> Stages] /\ verdict' \in [Workers -> BOOLEAN]
      BY DEF Restage, FlowTypeOK, Stages
    <2>3. QED
      BY <2>1, <2>2 DEF FlowTypeOK
  <1>3. StageInv'
    <2>1. /\ stage'[w] = "start" /\ pc'[w] = "idle"
          /\ \A v \in Workers \ {w} : stage'[v] = stage[v] /\ pc'[v] = pc[v]
      BY <1>T DEF Restage
    <2>2. \A v \in Workers : RelOf(v)' = RelOf(v) /\ RelOf(v) \in Releases
      BY <1>T DEF RelOf
    <2>3. \A k \in Jobs : jobs[k].status # "absent" => jobs'[k].status # "absent"
      OBVIOUS
    <2>4. QED
      BY <1>T, <1>1, <2>1, <2>2, <2>3 DEF StageInv, Inside
  <1>4. jobs[j].status # "absent"
    BY DEF StageInv
  <1>5. StoredInv'
    BY <1>T, <1>1, <1>4 DEF StoredInv, FlowTypeOK
  <1>6. PublishedHasArtifacts'
    <2>1. intent'[r] = "activated" => rows'[r] # "none"
      BY <1>T, <1>1 DEF Outcome, PublishedHasArtifacts
    <2>2. rel'[r] = "ready" => rows'[r] # "none"
      BY <1>T, <1>1 DEF Outcome, PublishedHasArtifacts
    <2>3. QED
      BY <1>1, <2>1, <2>2 DEF PublishedHasArtifacts
  <1>7. PreparingHasJob'
    <2>1. ASSUME NEW x \in Releases, rel'[x] = "preparing"
          PROVE  \E k \in JobsOf(x)' : jobs'[k].status \in {"queued", "running"}
      <3>1. PICK k \in JobsOf(x) : jobs[k].status \in {"queued", "running"}
        BY <2>1, <1>1 DEF PreparingHasJob
      <3>2. CASE k = j
        <4>1. x = r
          BY <3>2, <1>T DEF JobsOf
        <4>2. s = "queued"
          BY <2>1, <4>1 DEF Outcome
        <4>3. QED
          BY <3>1, <3>2, <4>2 DEF JobsOf
      <3>3. CASE k # j
        BY <3>1, <3>3 DEF JobsOf
      <3>4. QED
        BY <3>2, <3>3
    <2>2. QED
      BY <2>1 DEF PreparingHasJob
  <1>8. CompletedJobDecidesIntent'
    <2>1. ASSUME NEW k \in Jobs, jobs'[k].status = "completed", jobIntent[k]
          PROVE  intent'[jobRel[k]] \in {"activated", "suppressed"}
      <3>1. CASE k = j
        BY <2>1, <3>1, <1>T DEF Outcome
      <3>2. CASE k # j
        BY <2>1, <3>2, <1>T, <1>1 DEF CompletedJobDecidesIntent
      <3>3. QED
        BY <3>1, <3>2
    <2>2. QED
      BY <2>1 DEF CompletedJobDecidesIntent
  <1>9. QED
    BY <1>2, <1>3, <1>5, <1>6, <1>7, <1>8

\* Storing the release and deciding the intent is an outcome, for a release
\* that was built, or found with its rows.
LEMMA StoringIsOutcome ==
    ASSUME FlowInv, NEW w \in Workers, NEW failed \in BOOLEAN, NEW s \in {"queued", "completed", "failed"},
           pc[w] \in Inside, claim[w] \in Jobs,
           StoreRelease(w, failed),
           \/ Registers(w) /\ UNCHANGED <<intent, exposed>>
           \/ ReadyToFinalize(w) /\ FinalizePublishIntent(w),
           s = "failed" => failed,
           s = "completed" => ReadyToFinalize(w) /\ FinalizePublishIntent(w) /\ ~failed
    PROVE  Outcome(w, s)
  <1> DEFINE r == RelOf(w)
  <1> USE DEF FlowInv, FlowParts
  <1>T. /\ r \in Releases /\ jobRel[claim[w]] = r /\ jobIntent[claim[w]] \in BOOLEAN
        /\ rel \in [Releases -> {"none", "preparing", "ready", "failed"}]
        /\ rows \in [Releases -> {"none", "current", "stale"}]
        /\ intent \in [Releases -> {"none", "pending", "activated", "suppressed"}]
        /\ exposed \subseteq Releases
    BY DEF RelOf, FlowTypeOK
  <1>1. ~Registers(w) => rows[r] # "none" /\ rel[r] \in {"ready", "failed"}
    BY DEF Registers, ReadyToFinalize, StageInv
  <1>2. /\ rel' = [rel EXCEPT ![r] = rel'[r]]
        /\ rel'[r] = IF failed THEN "failed" ELSE IF Registers(w) THEN "ready" ELSE rel[r]
        /\ rows' = [rows EXCEPT ![r] = rows'[r]]
        /\ rows'[r] = IF Registers(w) THEN "current" ELSE rows[r]
    BY <1>T DEF StoreRelease, AfterFailure
  <1>3. rows'[r] # "none"
    BY <1>1, <1>2
  <1>4. \/ UNCHANGED <<intent, exposed>>
        \/ /\ intent[r] = "pending"
           /\ \E d \in {"activated", "suppressed"} : intent' = [intent EXCEPT ![r] = d]
           /\ exposed' \subseteq Releases
    BY <1>T DEF FinalizePublishIntent, IntentOf, Activate, Suppress
  <1>5. s = "completed" /\ jobIntent[claim[w]] => intent'[r] \in {"activated", "suppressed"}
    <2> SUFFICES ASSUME s = "completed", jobIntent[claim[w]]
                 PROVE  intent'[r] \in {"activated", "suppressed"}
      OBVIOUS
    <2>1. CASE intent[r] = "pending"
      BY <2>1, <1>T DEF FinalizePublishIntent, IntentOf, Activate, Suppress
    <2>2. CASE intent[r] # "pending"
      <3>1. jobs[claim[w]].status # "absent"
        BY DEF StageInv
      <3>2. intent[r] \in {"activated", "suppressed"}
        BY <1>T, <2>2, <3>1 DEF StoredInv
      <3>3. QED
        BY <1>T, <1>4, <2>2, <3>2
    <2>3. QED
      BY <2>1, <2>2
  <1>6. QED
    BY <1>T, <1>1, <1>2, <1>3, <1>4, <1>5 DEF Outcome

\* A materialization that succeeds.
LEMMA SuccessKeeps ==
    ASSUME FlowInv, NEW w \in Workers, MaterializationSucceeds(w)
    PROVE  FlowParts'
  <1>1. JobSucceeds(w) /\ pc[w] \in Inside
    BY DEF MaterializationSucceeds, JobSucceeds, Inside
  <1>2. /\ claim[w] \in Jobs /\ jobs'[claim[w]].status = "completed"
        /\ \A j \in Jobs : j # claim[w] => jobs'[j] = jobs[j]
        /\ claim' = claim /\ pc' = [pc EXCEPT ![w] = "idle"]
    BY <1>1, SuccessWritten DEF FlowInv
  <1>3. Outcome(w, "completed")
    BY <1>1, <1>2, StoringIsOutcome DEF MaterializationSucceeds
  <1>4. QED
    BY <1>1, <1>2, <1>3, OutcomeKeeps DEF MaterializationSucceeds

\* A materialization that raises, whatever it had flushed.
LEMMA RaiseKeeps ==
    ASSUME FlowInv, NEW w \in Workers, MaterializationRaises(w)
    PROVE  FlowParts'
  <1>1. JobRaises(w) /\ pc[w] \in Inside
    BY DEF MaterializationRaises, JobRaises
  <1>2. PICK s \in {"queued", "failed"} :
            /\ claim[w] \in Jobs /\ jobs'[claim[w]].status = s
            /\ \A j \in Jobs : j # claim[w] => jobs'[j] = jobs[j]
            /\ claim' = claim /\ pc' = [pc EXCEPT ![w] = "idle"]
    BY <1>1, RaiseWritten DEF FlowInv
  <1> DEFINE permanent == s = "failed"
  <1>3. Outcome(w, s)
    <2>1. CASE /\ rel' = [rel EXCEPT ![RelOf(w)] = AfterFailure(permanent, @)]
               /\ UNCHANGED <<rows, intent, exposed>>
      <3>1. /\ RelOf(w) \in Releases
            /\ rel \in [Releases -> {"none", "preparing", "ready", "failed"}]
            /\ rows \in [Releases -> {"none", "current", "stale"}]
            /\ exposed \subseteq Releases
        BY <1>2 DEF RelOf, FlowInv, FlowParts, FlowTypeOK
      <3>2. QED
        BY <2>1, <3>1 DEF Outcome, AfterFailure
    <2>2. CASE /\ StoreRelease(w, permanent)
               /\ \/ Registers(w) /\ UNCHANGED <<intent, exposed>>
                  \/ ReadyToFinalize(w) /\ FinalizePublishIntent(w)
      BY <1>1, <1>2, <2>2, StoringIsOutcome
    <2>3. QED
      BY <1>2, <2>1, <2>2 DEF MaterializationRaises
  <1>4. QED
    BY <1>1, <1>2, <1>3, OutcomeKeeps DEF MaterializationRaises

-------------------------------------------------------------------------------
(* The invariant *)

\* Changes of the agent, damage to files, the clock and other lock holders.
LEMMA SurroundingsKeep ==
    ASSUME FlowInv,
           AgentChanges \/ (\E r \in Releases : FilesDamaged(r)) \/ LeaseRunsOut \/ OutsiderStep
               \/ UNCHANGED allVars
    PROVE  FlowParts'
  <1> USE DEF FlowInv, FlowParts
  <1>1. CASE AgentChanges \/ UNCHANGED allVars
    BY <1>1 DEF AgentChanges, allVars, flowVars, vars, FlowTypeOK, StageInv, RelOf, StoredInv,
                PublishedHasArtifacts, PreparingHasJob, JobsOf, CompletedJobDecidesIntent
  <1>2. CASE \E r \in Releases : FilesDamaged(r)
    <2>1. PICK r \in Releases : FilesDamaged(r)
      BY <1>2
    <2>2. /\ UNCHANGED <<vars, rel, intent, exposed, agent, jobRel, jobIntent, req, stage, verdict>>
          /\ rows' \in [Releases -> {"none", "current", "stale"}]
          /\ \A x \in Releases : rows'[x] = "none" <=> rows[x] = "none"
      BY <2>1 DEF FilesDamaged, FlowTypeOK
    <2>3. \A w \in Workers : RelOf(w) \in Releases /\ RelOf(w)' = RelOf(w)
      BY <2>2 DEF RelOf, LeaseInv, TypeOK, FlowTypeOK, vars
    <2>4. StageInv' /\ PublishedHasArtifacts'
      BY <2>2, <2>3 DEF StageInv, PublishedHasArtifacts, vars
    <2>5. QED
      BY <2>2, <2>4 DEF FlowTypeOK, StoredInv, PreparingHasJob, JobsOf, CompletedJobDecidesIntent, vars
  <1>3. CASE LeaseRunsOut \/ OutsiderStep
    <2>1. /\ UNCHANGED <<pc, claim, flowVars>> /\ [Next]_vars
          /\ \A j \in Jobs : jobs'[j].status = jobs[j].status
      BY <1>3 DEF LeaseRunsOut, OutsiderStep, LeaseExpires, WithLease, OutsiderLocks, OutsiderUnlocks,
                  LeaseInv, TypeOK, Next
    <2>2. \A w \in Workers : claim[w] \in Jobs
      BY DEF LeaseInv, TypeOK
    <2>3. QED
      BY <2>1, <2>2, QuietKeeps DEF flowVars, StageInv, FlowTypeOK
  <1>4. QED
    BY <1>1, <1>2, <1>3

\* Every step keeps the invariant.
LEMMA FlowStep == FlowInv /\ [FlowNext]_allVars => FlowInv'
  <1> SUFFICES ASSUME FlowInv, [FlowNext]_allVars PROVE FlowInv'
    OBVIOUS
  <1>1. LeaseInv'
    BY FlowIsQueueStep, StepLease DEF FlowInv, FlowParts
  <1>2. FlowParts'
    BY RequestKeeps, QueueKeeps, BodyKeeps, SuccessKeeps, RaiseKeeps, SurroundingsKeep
       DEF FlowNext, JobStep
  <1>3. QED
    BY <1>1, <1>2 DEF FlowInv

\* The initial state satisfies the invariant.
LEMMA InitFlow == FlowInit => FlowInv
  <1> SUFFICES ASSUME FlowInit PROVE FlowInv
    OBVIOUS
  <1>1. LeaseInv
    BY InitLease DEF FlowInit
  <1>2. FlowTypeOK
    BY NoRequestFact DEF FlowInit, FlowTypeOK, Stages
  <1>3. StageInv /\ StoredInv
    BY NoRequestFact DEF FlowInit, Init, StageInv, StoredInv, Inside
  <1>4. PublishedHasArtifacts /\ PreparingHasJob /\ CompletedJobDecidesIntent
    BY DEF FlowInit, PublishedHasArtifacts, PreparingHasJob, CompletedJobDecidesIntent
  <1>5. QED
    BY <1>1, <1>2, <1>3, <1>4 DEF FlowInv, FlowParts

\* The invariant holds in every reachable state.
THEOREM FlowInvariant == FlowSpec => []FlowInv
  BY InitFlow, FlowStep, PTL DEF FlowSpec

(* Rows, requests and stages have their types, and what is announced as    *)
(* ready or was made public has its artifact rows.                         *)
THEOREM FlowCorrect == FlowSpec => []FlowIsConsistent
  <1>1. FlowInv => FlowIsConsistent
    BY DEF FlowInv, FlowParts, FlowIsConsistent
  <1>2. QED
    BY FlowInvariant, <1>1, PTL

(* A release in "preparing" always has a job queued or running, for any    *)
(* number of workers and requests.                                         *)
THEOREM PreparingCorrect == FlowSpec => []PreparingHasJob
  <1>1. FlowInv => PreparingHasJob
    BY DEF FlowInv, FlowParts
  <1>2. QED
    BY FlowInvariant, <1>1, PTL

(* A completed job that carried an intent has decided it.                  *)
THEOREM CompletedCorrect == FlowSpec => []CompletedJobDecidesIntent
  <1>1. FlowInv => CompletedJobDecidesIntent
    BY DEF FlowInv, FlowParts
  <1>2. QED
    BY FlowInvariant, <1>1, PTL

-------------------------------------------------------------------------------
(* How an intent changes *)

\* The agent allows the activation now, or did when a job with nothing to build asked.
Allowed(r) ==
    \/ agent = "public"
    \/ \E w \in Workers : pc[w] = "working" /\ stage[w] = "decided" /\ verdict[w] /\ RelOf(w) = r

\* An intent is created once, and decided once, under the agent's policy.
IntentMoves(r) ==
    \/ intent'[r] = intent[r]
    \/ intent[r] = "none" /\ intent'[r] = "pending"
    \/ intent[r] = "pending" /\ intent'[r] = "suppressed"
    \/ intent[r] = "pending" /\ intent'[r] = "activated" /\ Allowed(r)

\* finalize_publish_intent moves the intent of its release only.
LEMMA FinalizeMoves ==
    ASSUME FlowInv, NEW w \in Workers, pc[w] = "working", FinalizePublishIntent(w), NEW r \in Releases
    PROVE  IntentMoves(r)
  <1>1. /\ RelOf(w) \in Releases
        /\ intent \in [Releases -> {"none", "pending", "activated", "suppressed"}]
    BY DEF RelOf, FlowInv, FlowParts, LeaseInv, TypeOK, FlowTypeOK
  <1>2. CASE ~IntentOf(w) \/ r # RelOf(w)
    BY <1>1, <1>2 DEF FinalizePublishIntent, IntentMoves, Activate, Suppress
  <1>3. CASE IntentOf(w) /\ r = RelOf(w)
    <2>1. intent[r] = "pending"
      BY <1>3 DEF IntentOf
    <2>2. CASE Suppress(r)
      BY <1>1, <1>3, <2>1, <2>2 DEF Suppress, IntentMoves
    <2>3. CASE /\ IF stage[w] = "decided" THEN verdict[w] ELSE agent = "public"
               /\ Activate(r)
      BY <1>1, <1>3, <2>1, <2>3 DEF Activate, IntentMoves, Allowed
    <2>4. QED
      BY <1>3, <2>2, <2>3 DEF FinalizePublishIntent
  <1>4. QED
    BY <1>2, <1>3

\* Every step moves an intent this way, or not at all.
LEMMA IntentStep ==
    ASSUME FlowInv, [FlowNext]_allVars, NEW r \in Releases
    PROVE  IntentMoves(r)
  <1>T. intent \in [Releases -> {"none", "pending", "activated", "suppressed"}]
    BY DEF FlowInv, FlowParts, FlowTypeOK
  <1>1. ASSUME NEW c \in Clients, RequestStep(c) PROVE IntentMoves(r)
    <2>1. CASE PublishNewWrites(c)
      <3>1. rel[req[c].rel] = "none" /\ intent' = [intent EXCEPT ![req[c].rel] = "pending"]
        BY <2>1 DEF PublishNewWrites
      <3>2. req[c].rel \in Releases
        BY DEF FlowInv, FlowParts, FlowTypeOK
      <3>3. intent[req[c].rel] = "none"
        BY <3>1, <3>2 DEF FlowInv, FlowParts, StoredInv
      <3>4. QED
        BY <1>T, <3>1, <3>3 DEF IntentMoves
    <2>2. CASE PublishExistingWrites(c)
      BY <1>T, <2>2 DEF PublishExistingWrites, IntentMoves
    <2>3. CASE ~PublishNewWrites(c) /\ ~PublishExistingWrites(c)
      BY <1>1, <2>3 DEF RequestStep, CreateReleaseReads, PublishReads, CreateReleaseWrites,
                        PublishFindsActiveJob, PublishEnqueues, RequestFails, IntentMoves
    <2>4. QED
      BY <2>1, <2>2, <2>3
  <1>2. ASSUME NEW w \in Workers, JobStep(w) PROVE IntentMoves(r)
    <2>1. UNCHANGED intent \/ (pc[w] = "working" /\ FinalizePublishIntent(w))
      BY <1>2 DEF JobStep, QueueStep, flowVars, FindsCurrent, BuildsFiles, DecidesIntent,
                  MaterializationSucceeds, JobSucceeds, MaterializationRaises, TransactionLost
    <2>2. QED
      BY <2>1, FinalizeMoves DEF IntentMoves
  <1>3. CASE \/ AgentChanges \/ LeaseRunsOut \/ OutsiderStep \/ UNCHANGED allVars
             \/ \E x \in Releases : FilesDamaged(x)
    BY <1>3 DEF AgentChanges, LeaseRunsOut, OutsiderStep, FilesDamaged, allVars, flowVars, IntentMoves
  <1>4. QED
    BY <1>1, <1>2, <1>3 DEF FlowNext

(* A decided intent stays decided: no retry, duplicate job or change of    *)
(* the agent revises it.                                                   *)
THEOREM DecisionStands == FlowSpec => IntentDecisionFinal
  <1>1. FlowInv /\ [FlowNext]_allVars =>
            [\A r \in Releases :
                intent[r] \in {"activated", "suppressed"} => intent'[r] = intent[r]]_allVars
    BY IntentStep DEF IntentMoves
  <1>2. QED
    BY FlowInvariant, <1>1, PTL DEF FlowSpec, IntentDecisionFinal

-------------------------------------------------------------------------------
(* An agent that is switched off *)

\* No worker is about to publish r on a policy it read earlier.
NoOldVerdict(r) ==
    \A w \in Workers : pc[w] = "working" /\ stage[w] = "decided" /\ RelOf(w) = r => ~verdict[w]

\* What SwitchedOff leads to and every step keeps while the agent is off.
Unpublished(r) == agent # "public" /\ intent[r] # "activated" /\ NoOldVerdict(r)

\* A step gives no worker an old verdict while the agent is off.
LEMMA VerdictStep ==
    ASSUME FlowInv, [FlowNext]_allVars, NEW r \in Releases, agent # "public", NoOldVerdict(r)
    PROVE  NoOldVerdict(r)'
  <1> SUFFICES ASSUME NEW w \in Workers, pc'[w] = "working", stage'[w] = "decided", RelOf(w)' = r
               PROVE  ~verdict'[w]
    BY DEF NoOldVerdict
  <1>T. /\ pc \in [Workers -> {"idle", "waiting", "loaded", "working", "refused", "down"}]
        /\ claim \in [Workers -> Jobs] /\ stage \in [Workers -> Stages] /\ verdict \in [Workers -> BOOLEAN]
        /\ jobRel \in [Jobs -> Releases]
    BY DEF FlowInv, FlowParts, LeaseInv, TypeOK, FlowTypeOK, PC, Inside
  <1>S. /\ pc[w] \in {"waiting"} \cup Inside => jobs[claim[w]].status # "absent"
        /\ stage[w] # "start" => pc[w] \in {"working", "refused"}
    BY DEF FlowInv, FlowParts, StageInv
  <1>K. ASSUME pc[w] = "working", stage[w] = "decided", RelOf(w) = r, verdict'[w] = verdict[w]
        PROVE  ~verdict'[w]
    BY <1>K DEF NoOldVerdict
  <1>1. ASSUME NEW c \in Clients, RequestStep(c) PROVE ~verdict'[w]
    <2>1. UNCHANGED <<pc, claim, stage, verdict>>
      BY <1>1 DEF RequestStep, CreateReleaseReads, PublishReads, CreateReleaseWrites, PublishNewWrites,
                  PublishExistingWrites, PublishFindsActiveJob, PublishEnqueues, RequestFails, vars
    <2>2. jobs[claim[w]].status # "absent"
      BY <1>S, <2>1 DEF Inside
    <2>3. jobRel' = jobRel \/ \E j \in Jobs, x \in Releases, b \in BOOLEAN : NextId(j) /\ jobRel' = [jobRel EXCEPT ![j] = x]
      <3>1. req[c].rel \in Releases
        BY DEF FlowInv, FlowParts, FlowTypeOK
      <3>2. QED
        BY <1>1, <3>1 DEF RequestStep, CreateReleaseReads, PublishReads, CreateReleaseWrites, PublishNewWrites,
                  PublishExistingWrites, PublishFindsActiveJob, PublishEnqueues, RequestFails, EnqueueMaterialization
    <2>4. jobRel'[claim[w]] = jobRel[claim[w]]
      BY <1>T, <2>2, <2>3 DEF NextId
    <2>5. RelOf(w) = r
      BY <2>1, <2>4 DEF RelOf
    <2>6. QED
      BY <1>K, <2>1, <2>5
  <1>2. ASSUME NEW v \in Workers, JobStep(v) PROVE ~verdict'[w]
    <2>1. CASE QueueStep(v)
      <3>1. UNCHANGED flowVars /\ stage[w] = "decided"
        BY <2>1 DEF QueueStep, flowVars
      <3>2. pc[w] \in {"working", "refused"}
        BY <1>S, <3>1
      <3>3. /\ pc'[w] = pc[w] \/ pc'[w] \in {"waiting", "loaded", "idle", "refused"} \/ (pc[w] = "loaded")
            /\ claim'[w] = claim[w] \/ pc'[w] = "waiting"
        BY <1>T, <2>1 DEF QueueStep, Claim, ClaimNextJob, LockRepo, LockTimeout, RenewJobLease, Checkpoint, RenewalRefused,
                          Restarted, Goto, Leave
      <3>4. pc[w] = "working" /\ claim'[w] = claim[w]
        BY <3>2, <3>3
      <3>5. RelOf(w) = r
        BY <3>1, <3>4 DEF RelOf, flowVars
      <3>6. QED
        BY <1>K, <3>1, <3>4, <3>5 DEF flowVars
    <2>2. CASE FindsCurrent(v) \/ BuildsFiles(v)
      <3>1. /\ UNCHANGED <<pc, claim, jobRel, verdict>>
            /\ stage' = [stage EXCEPT ![v] = "current"] \/ stage' = [stage EXCEPT ![v] = "built"]
        BY <2>2 DEF FindsCurrent, BuildsFiles, vars
      <3>2. stage[w] = "decided"
        BY <1>T, <3>1
      <3>3. QED
        BY <1>K, <3>1, <3>2 DEF RelOf
    <2>3. CASE DecidesIntent(v)
      <3>1. /\ UNCHANGED <<pc, claim, jobRel>>
            /\ stage' = [stage EXCEPT ![v] = "decided"] /\ verdict' = [verdict EXCEPT ![v] = agent = "public"]
        BY <2>3 DEF DecidesIntent, vars
      <3>2. CASE v = w
        BY <1>T, <3>1, <3>2
      <3>3. CASE v # w
        <4>1. stage[w] = "decided" /\ verdict'[w] = verdict[w] /\ pc[w] = "working" /\ RelOf(w) = r
          BY <1>T, <3>1, <3>3 DEF RelOf
        <4>2. QED
          BY <1>K, <4>1
      <3>4. QED
        BY <3>2, <3>3
    <2>4. CASE MaterializationSucceeds(v) \/ MaterializationRaises(v) \/ TransactionLost(v)
      <3>1. /\ UNCHANGED <<claim, jobRel>> /\ Restage(v)
            /\ \E place \in {"idle", "down"} : pc' = [pc EXCEPT ![v] = place]
        BY <2>4 DEF MaterializationSucceeds, JobSucceeds, MaterializationRaises, JobRaises, TransactionLost,
                    SessionRollsBack, Crash, Leave, Goto
      <3>2. w # v
        BY <1>T, <3>1
      <3>3. pc[w] = "working" /\ stage[w] = "decided" /\ verdict'[w] = verdict[w] /\ RelOf(w) = r
        BY <1>T, <3>1, <3>2 DEF Restage, RelOf
      <3>4. QED
        BY <1>K, <3>3
    <2>5. QED
      BY <1>2, <2>1, <2>2, <2>3, <2>4 DEF JobStep
  <1>3. ASSUME \/ AgentChanges \/ LeaseRunsOut \/ OutsiderStep \/ UNCHANGED allVars
               \/ \E x \in Releases : FilesDamaged(x)
        PROVE  ~verdict'[w]
    <2>1. UNCHANGED <<pc, claim, jobRel, stage, verdict>>
      BY <1>3 DEF AgentChanges, LeaseRunsOut, LeaseExpires, OutsiderStep, OutsiderLocks, OutsiderUnlocks, FilesDamaged,
                  allVars, vars, flowVars
    <2>2. QED
      BY <1>K, <2>1 DEF RelOf
  <1>4. QED
    BY <1>1, <1>2, <1>3 DEF FlowNext

(* Once an agent is switched off with no worker at a job of the release, it *)
(* is not published until the agent is switched on again.                   *)
THEOREM SwitchedOffCorrect == FlowSpec => OffMeansUnpublished
  <1> SUFFICES ASSUME NEW r \in Releases
               PROVE  FlowSpec => [](SwitchedOff(r) => ([](agent # "public") => [](intent[r] # "activated")))
    BY DEF OffMeansUnpublished
  <1>1. SwitchedOff(r) => Unpublished(r)
    BY DEF SwitchedOff, Unpublished, NoOldVerdict
  <1>2. FlowInv /\ Unpublished(r) /\ [FlowNext]_allVars /\ (agent # "public")' => Unpublished(r)'
    <2> SUFFICES ASSUME FlowInv, Unpublished(r), [FlowNext]_allVars, agent' # "public"
                 PROVE  Unpublished(r)'
      OBVIOUS
    <2>1. agent # "public" /\ intent[r] # "activated" /\ NoOldVerdict(r)
      BY DEF Unpublished
    <2>2. NoOldVerdict(r)'
      BY <2>1, VerdictStep
    <2>3. ~Allowed(r)
      BY <2>1 DEF Allowed, NoOldVerdict
    <2>4. IntentMoves(r)
      BY IntentStep
    <2>5. intent'[r] # "activated"
      BY <2>1, <2>3, <2>4 DEF IntentMoves
    <2>6. QED
      BY <2>2, <2>5 DEF Unpublished
  <1>3. Unpublished(r) => intent[r] # "activated"
    BY DEF Unpublished
  <1>4. QED
    BY FlowInvariant, <1>1, <1>2, <1>3, PTL DEF FlowSpec
================================================================================
