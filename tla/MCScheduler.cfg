SPECIFICATION Spec
CONSTANTS
    Threads = {t1, t2, t3}
    Reaper = reaper
    Idle = idle
    Channels = {c1, c2}
    NoChannel = nochannel
    kQuantum <- MCQuantum
    kBoostInterval = 3
SYMMETRY MCSymmetry
INVARIANTS
    TypeOK
    RunNodeLinkedOnce
    RunQueuesSound
    WaitQueueSound
    DeadThreadsSound
    OnlyCurrentRuns
    QuantumBounded
PROPERTIES
    TerminatedNeverRuns
    ImplementsAbstract
