SPECIFICATION RegSpec
CONSTANTS
    old = old
    new = new
    gone = gone
    p1 = p1
    p2 = p2
    Worker = {old, new, gone}
    Daemon = {d1, d2}
    VersionOf <- MCVersionOf
    PatternOf <- MCPatternOf
    NoPattern = NoPattern
    NoDaemon = NoDaemon
    NoVersion = NoVersion
    MaxRegistrations = 3
    MaxDue = 2
    MaxPatches = 1
SYMMETRY Symmetry
PROPERTY ServedVersionStays
CHECK_DEADLOCK FALSE
