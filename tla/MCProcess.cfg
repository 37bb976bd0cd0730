SPECIFICATION Spec
CONSTANTS
    Threads = {t1, t2, t3, t4}
    Procs = {p1, p2, p3, p4}
    Channels = {p1, p2, p3, p4}
    NoChannel = nullptr
    Kernel = kernel
    kMaxPid = 4
SYMMETRY MCSymmetry
INVARIANTS
    PidPoolExact
    ChildrenSound
    WaitedChildSound
    NoSleeperOnZombie
    LiveThreadsOwnLiveProcess
PROPERTIES
    ReapedByParentOnly
