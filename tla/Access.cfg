CONSTANTS
    v1 = v1
    v2 = v2
    g1 = g1
    g2 = g2
    k1 = k1
    k2 = k2
    k3 = k3
    None = None
    Clients = {v1, v2}
    Slugs = {"agent"}
    Invitations = {k1, k2, k3}
    Keys = {"key1", "key2", "key3", "key4"}
    Nothing = Nothing
    NoUser = NoUser
    NoPassword = NoPassword
    Visitors = {v1, v2}
    Exposures = {"e1"}
    Grants = {g1, g2}
    Tokens = {k1, k2, k3}
    Limits = {1, 9}
    Horizon = 2
    MaxAttempts = 2
    Window = 3
    LastSecond = 9
    MaxAdmitted = 6
    Browsers = {v1, v2}
    Users = {"user"}
    SessionIds = {1, 2, 3}
    Passwords = {"p1", "p2"}
    MaxAge = 1
    LastTick = 2
SYMMETRY Symmetry
SPECIFICATION Spec
INVARIANTS LoginsAreGuarded
PROPERTIES EnrollmentIsSafe LinksKeepTheirLimits
CHECK_DEADLOCK FALSE
