CONSTANTS
    Boards = {b1, b2}
    Users = {user}
    Restore = restore
    None = None
    MaxWindows = 2
    MaxLaunches = 3
SPECIFICATION Spec
INVARIANTS
    WindowsBacked
    NoOrphans
    SomethingShows
PROPERTIES
    RestoresWhatWasOpen
CHECK_DEADLOCK FALSE
