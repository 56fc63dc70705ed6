CONSTANTS
    c1 = c1
    c2 = c2
    d1 = d1
    d2 = d2
    Web = {c1, c2}
    Worker = worker
    Digests = {d1}
    MaxContents = 3
    MaxPending = 1
    Faults = TRUE
SYMMETRY Symmetry
SPECIFICATION Spec
INVARIANTS StoreTypeOK PendingAtMostOneOver SealedNotPending
CHECK_DEADLOCK FALSE
PROPERTY ConsumedKeepsObject
