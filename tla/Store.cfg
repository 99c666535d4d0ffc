SPECIFICATION Spec
CONSTANTS
    Tasks = {a, b}
    Roots = {r1, r2, r3}
    Ids = {i1, i2, i3}
    Workspaces = {w}
    Home <- MCHome
    MaxProjects = 2
    MaxSessions = 2
    MenuLength = 1
    MaxTime = 3
    None = None
CONSTRAINT Explored
SYMMETRY Alike
INVARIANTS RecentsHoldTheNewest HiddenSessionsContinue
CHECK_DEADLOCK FALSE
