SPECIFICATION FairSpec
CONSTANTS
    r1 = r1
    r2 = r2
    r3 = r3
    w1 = w1
    w2 = w2
    s1 = s1
    s2 = s2
    s3 = s3
    Run = {r1, r2}
    Worker = {w1}
    Slot = {s1, s2}
    WorkerOf <- WorkerOfOne
    Seq = {1}
    RetryLimits = {1}
    MaxRecoveries = 1
    MaxReleases = 0
    Free = Free
    NoRow = NoRow
    NoRun = NoRun
CHECK_DEADLOCK FALSE
PROPERTIES
    RunsTerminate
