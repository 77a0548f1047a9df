SPECIFICATION Spec
CONSTANTS
    s1 = s1
    s2 = s2
    v1 = v1
    v2 = v2
    t1 = t1
    t2 = t2
    t3 = t3
    None = None
    Free = Free
    Sessions = {s1}
    Views = {v1, v2}
    Leases <- TwoLeases
    Threads = {t1, t2, t3}
    Requests <- Everyone
SYMMETRY ThreadSymmetry
INVARIANTS
    TypeOK
    NoLeaseForStopped
    NoProcessForgotten
PROPERTIES
    OwnerExcludesTakeover
    StopOkMeansDead
