SPECIFICATION Spec
CONSTANTS
    Frames = {1, 2}
    PageSize = 2
    MaxNodes = 13
    Version <- MCVersion
    Closed = closed
    kMaxFds = 2
    MaxDescs = 2
    Paths <- MCPaths
    OpenFlags <- MCOpenFlags
    Modulus = 16
    MaxSize = 3
    BufferMax = 4
    Seeks <- MCSeeks
    ReadLens <- MCReadLens
    WriteData <- MCWriteData
    WritevData <- MCWritevData
    Rooms = {3}
VIEW MCView
INVARIANTS
    TypeOK
    FramesExclusive
    EachEntryOnce
PROPERTIES
    ImplementsByteFile
