SPECIFICATION FlowSpec
CONSTANTS
    Workers = {w1}
    Clients = {c1, c2}
    Releases = {r1}
    MaxJobs = 2
    MaxJobAttempts = 3
    MaxRetryAttempts = 2
    NoOne = NoOne
    Outsider = Outsider
SYMMETRY FlowSymmetry
INVARIANTS FlowIsConsistent PreparingHasJob CompletedJobDecidesIntent
PROPERTY IntentDecisionFinal
