SPECIFICATION FairSpec
CONSTANTS
    u1 = u1
    u2 = u2
    Users = {u1, u2}
    First = u1
    Idle = idle
    Reaper = reaper
    Sigs = {1, 2}
    SIGKILL = 2
    SIGEXC = 1
    Fatal = {1, 2}
    Rips = {0, 1}
    EntryRip = 0
    HandlerRip = 1
    StackTop = 1
    Signalled = {u2}
    Reach <- MCReach
    Nothing = nothing
INVARIANTS
    GsSound
    InterruptFlagSound
PROPERTIES
    InterruptReturnsOwnContext
    CallReturnsToCaller
    SignalsNotPassedOver
    LowestSignalActedOn
