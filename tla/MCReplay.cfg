SPECIFICATION ReplaySpec
CONSTANTS
    Exec = {e1, e2}
    Branch = {b1, b2}
    Legacy <- MCLegacy
    Calls <- MCCalls
    MaxPos = 2
    MaxAttempts = 2
    MaxTold = 1
    None = None
SYMMETRY Symmetry
CONSTRAINT StoppedBesideAnother
INVARIANTS NothingDoneTwice
PROPERTIES NothingAfterSignal AbortIsNotAFailure
CHECK_DEADLOCK FALSE
