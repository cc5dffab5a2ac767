SPECIFICATION DaemonSpec
CONSTANTS
    \* LogFlush
    MaxLines = 4
    FlushThreshold = 2
    BufferMax = 3
    QueueMax = 1
    ChunkMax = 2
    \* ResultDelivery
    Client = {c1, c2, c3}
    Local = {c2}
    Polling = {c3}
    Daemon = {d1}
    Nowhere = Nowhere
    MaxFaults = 2
    \* Listener
    MaxGeneration = 4
    \* Exit
    MaxEvents = 3
    \* ClaimScan
    busy = busy
    quiet = quiet
    a1 = a1
    k1 = k1
    k2 = k2
    q1 = q1
    capped = capped
    oldCode = oldCode
    newCode = newCode
    NoCap = NoCap
    ScanRun = {a1, k1, k2, q1}
    Spaces <- MCSpaces
    SpaceOf <- MCSpaceOf
    CapOf <- MCCapOf
    UrgencyOf <- MCUrgencyOf
    PinOf <- MCPinOf
    AnyBuild = AnyBuild
    Build = {oldCode, newCode}
    MaxDeploys = 1
    ClaimLimit = 1
    WindowFloor = 2
    \* TimerScan
    t1 = t1
    t2 = t2
    l1 = l1
    l2 = l2
    Timer = {t1, t2}
    Orphan = {1, 2}
    WaitLoop = {l1, l2}
    TimerLimit = 1
    OrphanLimit = 1
    MaxFailures = 2
    \* Migration
    oldDaemon = oldDaemon
    newDaemon = newDaemon
    newestDaemon = newestDaemon
    Booter = {oldDaemon, newDaemon, newestDaemon}
    FolderOf <- MCFolderOf
    MaxBoots = 4
    NoHolder = NoHolder
CHECK_DEADLOCK FALSE
INVARIANTS
    OutcomeIsTrue
    CleanExit
    MigratedOnce
PROPERTIES
    BufferedLinesLand
    EveryCallEnds
    ComesBack
    AlwaysLeaves
    EveryRunServedOrReported
    DueWaitsSettle
