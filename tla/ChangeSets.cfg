CONSTANTS
    c1 = c1
    c2 = c2
    k1 = k1
    k2 = k2
    k3 = k3
    b1 = b1
    b2 = b2
    b3 = b3
    Clients = {c1, c2}
    Contents = {k1, k2, k3}
    Bundles = {b1, b2, b3}
    Versions = {"1.0.0", "1.1.0"}
    Declared <- DeclaredVersions
SYMMETRY Symmetry
SPECIFICATION Spec
INVARIANTS HistoryIsSound AcceptedFollowsBase
CHECK_DEADLOCK FALSE
