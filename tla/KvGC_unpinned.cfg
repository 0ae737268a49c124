SPECIFICATION ForkedSpec
CONSTANTS
    Writers = {w1, w2}
    Branches = {b1, b2}
    Items = {x, y}
    MaxCommits = 4
    MaxSweeps = 1
    Ops = {"merge", "delete"}
    KeepYoung = FALSE
    Overrun = FALSE
    PinSources = FALSE
CHECK_DEADLOCK FALSE
SYMMETRY Symmetry
INVARIANTS HeadsIntact
