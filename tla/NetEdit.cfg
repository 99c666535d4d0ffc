SPECIFICATION Spec
CONSTANTS
    None = None
    Insts = {"R-1", "R2"}
    Modules = {"R", "S"}
    Ports = {"p", "q"}
    PinNames = {"p", "q", "x", "y"}
    Attrs = {"v"}
    Names <- MCNames
    Vars <- MCVars
    VarOf <- MCVarOf
    PlaceholderOf <- MCPlaceholderOf
    BindOf <- MCBindOf
    Declares <- MCDeclares
    Binders <- MCBinders
    Boards <- MCBoards
    Typed = {"N-1"}
    MaxEdits = 3
INVARIANTS
    NetTypeOK
    NoDanglingRefs
    PositionsFollowInstances
PROPERTIES
    OrphansArePruned
    NoSilentMerge
    OtherPinsKeepTheirNets
CHECK_DEADLOCK FALSE
