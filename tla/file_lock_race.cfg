\* The same, with the system calls of lock() interleaved.
SPECIFICATION Spec
CONSTANTS
    p1 = p1
    p2 = p2
    p3 = p3
    Procs = {p1, p2, p3}
    Ttl = 4
    TouchInterval = 3
    RetryDelay = 4
    MaxTime = 10
    LockIsAtomic = FALSE
INVARIANTS
    MutualExclusion
