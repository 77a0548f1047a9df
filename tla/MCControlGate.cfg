SPECIFICATION FairSpec
CONSTANTS
    v1 = v1
    v2 = v2
    t1 = t1
    t2 = t2
    t3 = t3
    Identities = {v1, v2}
    Threads = {t1, t2, t3}
    Free = Free
    NoOwner = NoOwner
    MaxU64 = 3
    ViewingLease = 1
    TypingLease = 2
INVARIANTS
    TypeOK
    EffectAuthority
    MaintenanceKillsUnattended
PROPERTIES
    NoFalseSuccess
    DeadSessionGrantsNothing
    KeepsPromise
    StopReturns
