CONSTANTS
    RegistryOrder <- Registries
    IdentityOrder <- KeyOrder
    MaxDepth = 4
    Keys = {"a", "b"}
    Paths <- SomePaths
    Values = {1, 2}
    Mapping = Mapping
    Ids = {"e1", "e2"}
    ApiKeys = {k1, k2, k3}
    NoKey = NoKey
SPECIFICATION Spec
INVARIANTS PlansAreRight LayersAreRight
PROPERTIES RotationKeepsKey PlanningEnds RotationCompletes
CHECK_DEADLOCK FALSE
