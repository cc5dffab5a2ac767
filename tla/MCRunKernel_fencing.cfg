SPECIFICATION Spec
CONSTANTS
    r1 = r1
    r2 = r2
    r3 = r3
    w1 = w1
    w2 = w2
    s1 = s1
    s2 = s2
    s3 = s3
    Run = {r1}
    Worker = {w1, w2}
    Slot = {s1, s2, s3}
    WorkerOf <- WorkerOfThree
    Seq = {1, 2}
    RetryLimits = {2}
    MaxRecoveries = 1
    MaxReleases = 1
    Free = Free
    NoRow = NoRow
    NoRun = NoRun
CHECK_DEADLOCK FALSE
INVARIANTS
    TypeOK
    SingleWriter
    ReplaySeesLedger
    EveryClaimAccounted
