SPECIFICATION FairSpec
CONSTANTS
    Hosts = {h1, h2}
    None = none
    Calls = {q}
    RetrySafe = {}
    OpenFails = FALSE
    MaxCrashes = 0
CHECK_DEADLOCK FALSE
PROPERTY CallsAnswered
