CONSTANTS
    None = None
    Publishers = {1, 2}
    Dirs = {1, 2}
    Bundles = {"b1", "b2"}
    MaxPending = 2
    MaxContents = 4
    MaxJobs = 2
    LastTrouble = 3
    PairTrouble = 1
    PairJobs = 1
SPECIFICATION Spec
INVARIANTS ReportsAreTrue
PROPERTIES RepeatingPublishes
CHECK_DEADLOCK FALSE
