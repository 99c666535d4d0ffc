SPECIFICATION Spec
CONSTANTS
    Tasks = {a, b}
    CompNames = {"U"}
    Parts = {"c1", "c2"}
    Generics = {"R", "X"}
    Demands <- MCDemands
    Constructible <- MCConstructible
    MaxCalls = 2
    Offline = FALSE
    None = None
INVARIANTS CacheIsWhole WrapperHasItsFiles PreflightsAreProven
PROPERTY NoRequestInBan
CONSTRAINT Explored
SYMMETRY AnyTask
CHECK_DEADLOCK FALSE
