SPECIFICATION Spec
CONSTANTS
    Threads = {t1, t2}
    Reaper = reaper
    Idle = idle
    Channels = {c1}
    NoChannel = nochannel
    kQuantum <- MCLiveQuantum
    kBoostInterval = 3
INVARIANTS
    NoLostThread
