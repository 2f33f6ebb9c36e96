\* Three runs of one swap; no two are inside lock() at the same moment.
SPECIFICATION Spec
CONSTANTS
    p1 = p1
    p2 = p2
    p3 = p3
    Procs = {p1, p2, p3}
    Ttl = 4
    TouchInterval = 3
    RetryDelay = 4
    MaxTime = 10
    LockIsAtomic = TRUE
INVARIANTS
    TypeOK
    MutualExclusion
PROPERTIES
    AbandonsOnlyToTheLiving
