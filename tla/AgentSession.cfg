CONSTANTS
    Senders = {s1, s2}
    None = None
    Backlog = 3
    MaxSpawns = 2
SPECIFICATION Spec
SYMMETRY SenderSymmetry
INVARIANTS
    TypeOK
    OneCliPerWindow
    PromptsSurvive
    ResumesAreLinked
    RunningMeansBusy
CONSTRAINT Explored
