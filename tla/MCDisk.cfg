SPECIFICATION LiveSpec
CONSTANTS
    NS = 2
    SECT = 4
    GROUP = 2
    WORDS = 2
    PREFETCH = 2
    FLUSH_IDLE = 2
    NoWord = NoWord
    Watch = 1
    Size = 5
    NewSize = 5
    Guests <- MCBoth
INVARIANTS
    ReadsLatest
    NothingLost
    CleanMatchesImage
    SidesApart
    WritesBelong
PROPERTIES
    DiskServes
