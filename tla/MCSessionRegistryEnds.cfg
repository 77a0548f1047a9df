SPECIFICATION FairSpec
CONSTANTS
    s1 = s1
    s2 = s2
    v1 = v1
    v2 = v2
    t1 = t1
    t2 = t2
    t3 = t3
    None = None
    Free = Free
    Sessions = {s1}
    Views = {v1}
    Leases <- OneLease
    Threads = {t1, t2, t3}
    Requests <- Orders
PROPERTIES
    EveryRequestEnds
    StopRetainedEnds
