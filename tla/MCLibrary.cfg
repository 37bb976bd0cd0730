SPECIFICATION Spec
CONSTANTS
    W = 3
    Cols = 2
    Rows = 2
    Glyphs = {"x", "y"}
    MaxOutput = 6
    Frames = {1, 2, 3, 4}
    PageSize = 2
    MaxNodes = 14
    Modulus = 64
    Version <- MCVersion
    Archives <- MCArchives
    Base = 8
    TrailerNames <- MCTrailerNames
INVARIANTS
    ArithmeticRight
    CursorInRange
    ScreenShowsTail
    EntriesReadInTurn
    InitrdLoaded
CHECK_DEADLOCK FALSE
