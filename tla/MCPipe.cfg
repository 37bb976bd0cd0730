SPECIFICATION Spec
CHECK_DEADLOCK FALSE
CONSTANTS
    t1 = t1
    t2 = t2
    t3 = t3
    p1 = p1
    p2 = p2
    Threads = {t1, t2, t3}
    Procs = {p1}
    Owner <- MCSiblings
    Creator = p1
    Closed = closed
    kMaxFds = 2
    Capacity = 1
    MaxCall = 2
    MaxBytes = 2
SYMMETRY MCSymmetry
INVARIANTS
    TypeOK
    NoLostWakeup
