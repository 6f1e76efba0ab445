SPECIFICATION Spec
CONSTANTS
    p1 = p1
    p2 = p2
    p3 = p3
    Proc = {p1, p2, p3}
    NoProc = NoProc
    Mutex = {m1, m2}
    NoMutex = NoMutex
    Base <- Priorities
    Algorithm = "CMN"
    NumQueues = 2
    NumCpus = 2
    Suspension = TRUE
SYMMETRY MutexSymmetry
INVARIANTS
    TypeOK
    OwnershipAgrees
    WaitersAreBlocked
    BlockedHasWaker
    ReadyQueuesMatchPriorities
    BoostHasReason
CHECK_DEADLOCK FALSE
