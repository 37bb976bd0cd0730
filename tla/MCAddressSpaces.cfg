SPECIFICATION Spec
CHECK_DEADLOCK FALSE
CONSTANTS
    PageBytes = 2
    PieBias = 2
    Procs = {p1, p2, p3}
    InitProc = p1
    Roots = {r1, r2, r3}
    KernelRoot = rk
    NoRoot = none
    Kernel = kernel
    MaxPids = 2
    Executables <- MCExecutables
    UserPages = {1, 2, 3, 4, 5}
    StackPage = 5
    BrkArgs = {4, 5, 6, 7, 8}
    MapArgs = {{3, 4}}
SYMMETRY MCSymmetry
INVARIANTS
    Cr3Sound
    RootsExact
    HeapCovered
PROPERTIES
    FailureUndoesAll
