SPECIFICATION PageSpec
CONSTANTS
    Boards = {main}
    Parts = {part}
    First = main
    None = None
    Missing = Missing
    Callers = {opener}
    Opener = opener
    NoCaller = NoCaller
    Cap = 1
    Red = {2}
    MaxEdits = 2
INVARIANTS
    PageJudgesTheFiles
    TokenCatchesUp
CHECK_DEADLOCK FALSE
