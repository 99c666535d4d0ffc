SPECIFICATION Spec
CONSTANTS
    Boards = {main, alt}
    Parts = {}
    First = main
    None = None
    Missing = Missing
    Callers = {opener, tool}
    Opener = opener
    NoCaller = NoCaller
    Cap = 2
    Red = {2}
    MaxEdits = 2
INVARIANTS
    TypeOK
    BuildsTheBoardShown
    NoChangeForgotten
    SourceFollowsProject
PROPERTIES
    AnswersAreFresh
CHECK_DEADLOCK FALSE
