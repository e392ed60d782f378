SPECIFICATION LiveSpec
CONSTANTS
    LINES = 5
    LINE_WORDS = 3
    VIS_WORDS = 2
    BURST = 2
    H_TOTAL = 10
    V_TOTAL = 9
    V_SYNC_AT = 6
    Pictures <- MCPictures
    Watches = {0, 1}
    WRITES = 2
    DELAY = 2
INVARIANTS
    FlagCovers
    PixelIsMemory
    NoMissAfterFirst
PROPERTIES
    DrawnIsShown
