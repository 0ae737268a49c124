SPECIFICATION Spec
CONSTANTS
    Writers = {w1, w2}
    Branches = {b1, b2}
    Items = {x}
    MaxCommits = 3
    MaxSweeps = 1
    Ops = {"raise", "reset"}
    KeepYoung = TRUE
    Overrun = FALSE
    PinSources = TRUE
CHECK_DEADLOCK FALSE
SYMMETRY Symmetry
INVARIANTS HeadsIntact MarkersProtect
PROPERTIES BackupFollows NothingLandsUnderSweep
