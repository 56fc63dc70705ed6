SPECIFICATION FairSpec
CONSTANTS
    Workers = {w1}
    MaxJobs = 2
    MaxJobAttempts = 10
    MaxRetryAttempts = 3
    NoOne = NoOne
    Outsider = Outsider
INVARIANTS TypeOK AttemptsBounded
PROPERTIES JobContractHolds QueuedJobsSettle
