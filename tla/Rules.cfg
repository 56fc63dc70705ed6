CONSTANTS
    Clients = {c1, c2}
    MaxExposures = 1
    MaxCases = 2
SYMMETRY Symmetry
SPECIFICATION MCSpec
INVARIANTS ReviewTypeOK BlockingNeedsApproval OneDecisionPerCase SourcesAreRight VisibilityIsRight GatesAreRight
