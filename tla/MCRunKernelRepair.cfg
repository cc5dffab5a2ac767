SPECIFICATION RepairSpec
CONSTANTS
    r1 = r1
    r2 = r2
    w1 = w1
    s1 = s1
    Run = {r1, r2}
    Worker = {w1}
    Slot = {s1}
    WorkerOf <- WorkerOfSingle
    Seq = {1}
    RetryLimits = {1}
    MaxRecoveries = 1
    MaxReleases = 0
    Free = Free
    NoRow = NoRow
    NoRun = NoRun
CHECK_DEADLOCK FALSE
PROPERTIES
    NeverResurrected
    RepairsStick
