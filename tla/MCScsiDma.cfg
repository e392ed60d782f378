SPECIFICATION LiveSpec
CONSTANTS
    LANES = 4
    FLUSH_IDLE = 2
    LINK_LIMIT = 2
    NoByte = NoByte
    NoDesc = NoDesc
    Chains <- MCChains
    Words = 2
    MaxCommands = 2
    MaxStops = 1
    Hasty = FALSE
INVARIANTS
    BytesInPlace
    DataBeforeInterrupt
    InterruptOwed
    StopWins
PROPERTIES
    ChannelFinishes
