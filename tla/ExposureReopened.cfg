SPECIFICATION Spec
CONSTANTS
    Clients = {c1}
    MaxExposures = 1
    MaxCases = 2
PROPERTY ClosedStaysClosed
