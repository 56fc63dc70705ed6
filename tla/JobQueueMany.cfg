SPECIFICATION Spec
CONSTANTS
    Workers = {w1, w2, w3}
    MaxJobs = 2
    MaxJobAttempts = 3
    MaxRetryAttempts = 2
    NoOne = NoOne
    Outsider = Outsider
SYMMETRY WorkerSymmetry
INVARIANTS LockGuardsProcessing LeaseFollowsStatus AttemptsNearlyBounded
