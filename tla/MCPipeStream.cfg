SPECIFICATION FairSpec
CHECK_DEADLOCK FALSE
CONSTANTS
    t1 = t1
    t2 = t2
    t3 = t3
    p1 = p1
    p2 = p2
    Threads = {t1, t2}
    Procs = {p1, p2}
    Owner <- MCOwner
    Creator = p1
    Closed = closed
    kMaxFds = 2
    Capacity = 2
    MaxCall = 3
    MaxBytes = 3
PROPERTIES
    ImplementsByteStream
    EofReachesReaders
    BrokenPipeReachesWriters
