SPECIFICATION Spec
CONSTANTS
    Hosts = {h1, h2, h3}
    None = none
    Calls = {q}
    RetrySafe = {}
    OpenFails = FALSE
    MaxCrashes = 2
CHECK_DEADLOCK FALSE
SYMMETRY Symmetry
INVARIANT RunsAtMostOnce
PROPERTY LostIsHonest
