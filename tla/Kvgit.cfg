SPECIFICATION KvgitSpec
CONSTANTS
    Trees = {v, w}
    Keys = {x, y}
    Nothing = nothing
    Rules = {"none", "ours", "theirs", "fn"}
    Acts = {"commit", "merge", "refresh", "reset", "drop"}
    MaxWrites = 2
    MaxAsked = 3
    MaxBuilt = 4
    a1 = a1
    a2 = a2
    b1 = b1
    Stores = {"A", "B"}
    Remotes = {"r"}
    Tabs = {a1, a2, b1}
    Home <- HomeOf
    Kinds = {"commit", "pull", "push", "sync", "delete", "forget", "unless", "drop", "sweep", "crash"}
    MaxCommits = 3
    MaxCalls = 3
    Absent = absent
    None = none
    Mixed = mixed
    k1 = k1
    k2 = k2
    k3 = k3
    k4 = k4
CHECK_DEADLOCK FALSE
SYMMETRY Symmetry
INVARIANTS WorktreeTrue SyncTrue StorageTrue
PROPERTIES WorktreeCommitsTaken SyncMovesKept StoresTrue
