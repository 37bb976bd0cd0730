SPECIFICATION Spec
CONSTANTS
    Threads = {t1, t2, t3}
    Procs = {p1, p2, p3}
    Channels = {p1, p2, p3}
    NoChannel = nullptr
    Kernel = kernel
    kMaxPid = 4
INVARIANTS
    ReaperOwnerLive
