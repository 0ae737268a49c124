SPECIFICATION AgexSpec
CONSTANTS
 MaxSteps = 4
 NoLimit = NoLimit
 MaxToolCalls = 2
 CallsPer = 2
 WideTo = 1
 MaxSums = 1
 Nudges = 1
 MaxTurns = 2
 MaxCrashes = 1
 Ops = {"resume","abandon","fold","cancel","flaky","broken"}
 Maps = {1, 2}
 Items = 2
 MaxParallel = 1
 Slots = 1
 MapOps = {"turn","one","sweep"}
CHECK_DEADLOCK FALSE
INVARIANTS TurnsTrue MapsTrue ExchangesWhole
PROPERTIES StopsKept
