SPECIFICATION Spec
CONSTANTS
    Files = {board, module}
    Entry = board
    Content = {c1, c2}
    Absent = Absent
    GateDepth = 2
    MaxDrift = 2
SYMMETRY ContentSymmetry
INVARIANTS
    TypeOK
    HistoryBounded
    HistoryLinked
PROPERTIES
    DiscardOnlyAfterDrift
    ClobberOnlyInWindow
CHECK_DEADLOCK FALSE
