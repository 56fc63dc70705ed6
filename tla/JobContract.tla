----------------------------- MODULE JobContract -----------------------------
(***************************************************************************)
(* What the job table promises to whoever enqueues a job, with workers,    *)
(* leases and the repository lock left out: a job is started from the      *)
(* queue, may be restarted while it runs, may return to the queue only     *)
(* while it has retries left, and once it is completed or failed it never  *)
(* changes again.                                                          *)
(***************************************************************************)
EXTENDS Naturals

CONSTANTS Jobs,              \* the job ids that can be allocated
          MaxJobAttempts,    \* MAX_JOB_ATTEMPTS of server/jobs.py
          MaxRetryAttempts   \* MAX_RETRY_ATTEMPTS of server/jobs.py

VARIABLES state,             \* state[j]: where job j stands
          tries              \* tries[j]: how often job j was started

contractVars == <<state, tries>>

Submit(j) ==
    /\ state[j] = "absent"
    /\ state' = [state EXCEPT ![j] = "queued"]
    /\ UNCHANGED tries

Start(j) ==
    /\ state[j] = "queued"
    /\ state' = [state EXCEPT ![j] = "running"]
    /\ tries' = [tries EXCEPT ![j] = @ + 1]

Restart(j) ==
    /\ state[j] = "running"
    /\ tries[j] < MaxJobAttempts
    /\ tries' = [tries EXCEPT ![j] = @ + 1]
    /\ UNCHANGED state

Requeue(j) ==
    /\ state[j] = "running"
    /\ tries[j] < MaxRetryAttempts
    /\ state' = [state EXCEPT ![j] = "queued"]
    /\ UNCHANGED tries

Settle(j) ==
    /\ state[j] = "running"
    /\ \E s \in {"completed", "failed"} : state' = [state EXCEPT ![j] = s]
    /\ UNCHANGED tries

ContractInit ==
    /\ state = [j \in Jobs |-> "absent"]
    /\ tries = [j \in Jobs |-> 0]

ContractNext ==
    \E j \in Jobs :
        Submit(j) \/ Start(j) \/ Restart(j) \/ Requeue(j) \/ Settle(j)

ContractSpec == ContractInit /\ [][ContractNext]_contractVars
==============================================================================
