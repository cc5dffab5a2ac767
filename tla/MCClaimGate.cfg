SPECIFICATION FairSpec
CONSTANTS
    t1 = t1
    t2 = t2
    k1 = k1
    k2 = k2
    c1 = c1
    c2 = c2
    NoKey = NoKey
    Nobody = Nobody
    Run = {1, 2, 3, 4}
    Task = {t1, t2}
    TaskOf <- TaskOfMixed
    Key = {k1, k2}
    AskedKey <- NamedKeys
    DefaultKey <- Defaults
    Limits = {0}
    InitialLimit <- OneEach
    Claimer = {c1, c2}
    ClaimLimit = 2
    Window = 2
CHECK_DEADLOCK FALSE
INVARIANTS
    LimitHeld
PROPERTIES
    ClaimsEnd
