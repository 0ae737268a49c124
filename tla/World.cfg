SPECIFICATION WorldSpec
CONSTANTS
    None = none
    Kinds = {"write", "code", "commit", "discard", "refresh", "checkout", "close"}
    Within = {"commit", "discard", "refresh"}
    Autocommit = {TRUE, FALSE}
    Turns = {1, 2}
    MaxCalls = 3
    MaxWrites = 2
    MaxNotes = 3
    MaxFolds = 3
    MaxOthers = 2
    MaxAttempts = 2
    Nil = nil
    Marked = marked
    Paths = {p, q}
    Values = {v1, v2}
    Other = other
    Workspaces = {"w1", "w2", "w3"}
    Home <- HomeOf
    Stash = "a.stash-0"
    Plain = {"w2"}
    Verbs = {}
    MaxCommits = 14
    MaxEdits = 4
    MaxVerbs = 6
    MaxFails = 1
    v1 = v1
    v2 = v2
    q = q
CHECK_DEADLOCK FALSE
INVARIANTS TurnsTrue GitTrue
PROPERTIES EndLands CallsLand GitMovesExact
