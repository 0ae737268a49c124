SPECIFICATION FairSpec
CONSTANTS
    Nil = Nil
    w1 = w1
    w2 = w2
    b1 = b1
    x = x
    h1 = h1
    h2 = h2
    q = q
    f = f
    Workers = {1, 2}
    MaxRuns = 2
    Targets = {"fs", "host"}
    PerRun = 1
    MaxLate = 1
    Timeout = 1
    HostTime = 1
CHECK_DEADLOCK FALSE
PROPERTIES KernelTrue CallsReturn HostsServe WorldProgress AgentProgress
