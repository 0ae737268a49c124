SPECIFICATION Spec
CONSTANTS
    Writers = {w1, w2}
    Branches = {b1, b2}
    Items = {x}
    MaxCommits = 4
    MaxSweeps = 1
    Ops = {"commit", "raise", "attach", "crash"}
    KeepYoung = FALSE
    Overrun = FALSE
    PinSources = TRUE
CHECK_DEADLOCK FALSE
SYMMETRY Symmetry
INVARIANTS TypeOK PublishedUnmarked DroppedUnreachable
PROPERTIES AtomicBranches
