SPECIFICATION RuntimeSpec
CONSTANTS
    r1 = r1
    r2 = r2
    w1 = w1
    s1 = s1
    s2 = s2
    Run = {r1}
    Worker = {w1}
    Slot = {s1, s2}
    WorkerOf <- WorkerOfOne
    Seq = {1}
    RetryLimits = {1}
    MaxRecoveries = 1
    MaxReleases = 1
    Free = Free
    NoRow = NoRow
    NoRun = NoRun
    NoSlot = NoSlot
CHECK_DEADLOCK FALSE
INVARIANTS
    InFlightNamesHolder
