SPECIFICATION ForkedSpec
CONSTANTS
    Writers = {w1, w2}
    Branches = {b1, b2}
    Items = {x, y}
    MaxCommits = 4
    MaxSweeps = 1
    Ops = {"merge", "commit", "create", "delete"}
    KeepYoung = FALSE
    Overrun = FALSE
    PinSources = TRUE
CHECK_DEADLOCK FALSE
SYMMETRY Symmetry
INVARIANTS HistoryIntact
PROPERTIES AtomicMoves
