SPECIFICATION Spec
CONSTANTS
    t1 = t1
    t2 = t2
    k1 = k1
    k2 = k2
    c1 = c1
    c2 = c2
    NoKey = NoKey
    Nobody = Nobody
    Run = {1, 2}
    Task = {t1}
    TaskOf <- TaskOfSame
    Key = {k1}
    AskedKey <- NoKeys
    DefaultKey <- DefaultOne
    Limits = {1}
    InitialLimit <- Unlimited
    Claimer = {c1, c2}
    ClaimLimit = 1
    Window = 2
CHECK_DEADLOCK FALSE
INVARIANTS
    LimitHeld
