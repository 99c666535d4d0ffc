SPECIFICATION QuietSpec
CONSTANTS
    Files = {board, module}
    Entry = board
    Content = {c1, c2}
    Absent = Absent
    GateDepth = 3
    MaxDrift = 1
SYMMETRY ContentSymmetry
PROPERTIES
    GateIsTimeline
CHECK_DEADLOCK FALSE
