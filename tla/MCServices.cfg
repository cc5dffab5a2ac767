SPECIFICATION ServicesSpec
CONSTANTS
    \* Registry
    oldBuild = oldBuild
    newBuild = newBuild
    bareBuild = bareBuild
    hourly = hourly
    daily = daily
    Worker = {oldBuild, newBuild, bareBuild}
    Daemon = {d1, d2}
    VersionOf <- MCVersionOf
    PatternOf <- MCPatternOf
    NoPattern = NoPattern
    NoDaemon = NoDaemon
    NoVersion = NoVersion
    MaxRegistrations = 3
    MaxDue = 2
    MaxPatches = 1
    \* Creation
    Creator = {c1, c2}
    Batches <- MCBatches
    Operation = {op}
    Keyless = Keyless
    Nothing = Nothing
    Gone = Gone
    MaxRequests = 3
    \* RowLocks
    parent = parent
    child = child
    Run = {parent, child}
    ParentOf <- OneFamily
    NoRun = NoRun
    Tx = {t1, t2, t3}
    Nobody = Nobody
    Ops = {"cancel", "finish", "suspend", "resume", "claim", "reap", "release", "log"}
    \* Embedded
    Runtime = {e1, e2, e3}
    Explicit = {e2}
    Host = Host
    OtherClient = OtherClient
    Vacant = Vacant
    NoRuntime = NoRuntime
    \* RateLimit
    caller1 = caller1
    caller2 = caller2
    Caller = {caller1, caller2}
    Shared = Shared
    Rate <- SlowCallers
    Burst = 2
    MaxEntries = 2
    MaxTime = 3
    MaxSetBacks = 1
    \* RunsPage
    task = task
    All = All
    Filter = {All, task}
    RunsOf <- MCRunsOf
    PageLimit = 1
    MaxRuns = 3
    MaxGenerations = 3
    MaxKeyChanges = 1
    MaxPauses = 2
    \* ClaimConnection
    Conn = {n1, n2}
    Claim = {q1}
    Other = {o1, o2}
    Claimed = 1
    Unused = Unused
    \* SharedReads
    Probe = {health, metrics}
    Stats = tasks
    PoolMax = 2
    Flight = {f1, f2, f3}
    Ttl = 2
    MaxNow = 4
    \* RunDetail
    LogsLimit = 2
    MaxLines = 4
    MaxViews = 2
CHECK_DEADLOCK FALSE
CONSTRAINTS FewChanges FewEnded
INVARIANTS
    OwnersSchedule
    SameKeySameRun
    OnlyUnsortedBatchesDeadlock
    DecisionsHold
    OnlyLateCancelDeadlocks
    HostUndisturbed
    RateHeld
    LedgerReadOutsideTx
    ReadsAreShared
    EndedRunShowsItsLogs
PROPERTIES
    OneFirePerDueTime
    QueueRowFreezesRun
    ListIsTrue
