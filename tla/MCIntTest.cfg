SPECIFICATION LiveSpec
CONSTANTS
    BYTE = 4
    TICK_DIV = 3
    PERIOD = 13
    FIFO = 3
    DELAY = 4
    SPINS = 90
    QDEPTH = 11
    GAP = 12
    START = 40
    Programs <- MCPrograms
INVARIANTS
    NoExpiryLost
    LatchedReadWhole
    TypedIsRead
PROPERTIES
    OneEntryPerExpiry
    TestPasses
