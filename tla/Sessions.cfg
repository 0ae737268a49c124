SPECIFICATION FairSpec
CONSTANTS
    Names = {a, b}
    MaxRuns = 2
    MaxWorkers = 1
    Ops = {"resume", "cancel", "result", "listen", "close", "fail"}
CHECK_DEADLOCK FALSE
INVARIANTS JobsHeld AnswersHeld
PROPERTIES SweepSpares CallsReturn
