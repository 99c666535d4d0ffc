SPECIFICATION Spec
CONSTANTS
    U = U
    J = J
    R1 = R1
    R2 = R2
    R3 = R3
    None = None
    Comps <- MCComps
    Tree <- MCTree
    PinNames <- MCPinNames
    Symbolic = {R1, R2, R3}
    PortOrder <- MCPortOrder
    Kind <- MCKind
    Boards <- MCBoards
    Packings <- MCPackings
    Spots <- MCSpots
    NetOrder <- MCNetOrder
    ChipWidth = 144
    LabelNear = 12
    LabelLen <- MCLabelLen
    LabelHeight = 24
    MaxEdits = 2
INVARIANTS EveryPinIsDrawn WiresAreDrawable FoundSpaceIsFree
PROPERTY MovesKeepTheDrawing
CHECK_DEADLOCK FALSE
