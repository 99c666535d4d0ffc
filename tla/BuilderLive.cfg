SPECIFICATION FairSpec
CONSTANTS
    Boards = {main}
    Parts = {}
    First = main
    None = None
    Missing = Missing
    Callers = {opener}
    Opener = opener
    NoCaller = NoCaller
    Cap = 1
    Red = {2}
    MaxEdits = 2
PROPERTIES
    EveryoneAnswered
    CatchesUp
CHECK_DEADLOCK FALSE
