SPECIFICATION MCSpec
CONSTANTS
    Copies = {a, b}
    Rows = {x, y, schema}
    Schema = schema
    None = none
    Ops = {"schema", "rebase", "keep", "restore", "close", "sync", "fail"}
    Twins = FALSE
    MaxTx = 3
    MaxCommits = 4
    MaxCrashes = 1
CHECK_DEADLOCK FALSE
SYMMETRY Symmetry
INVARIANTS RowsTrue EpochsTrue
PROPERTIES BranchKept LogMovesKept
