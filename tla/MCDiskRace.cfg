SPECIFICATION Spec
CONSTANTS
    NS = 1
    SECT = 4
    GROUP = 2
    WORDS = 2
    PREFETCH = 2
    FLUSH_IDLE = 3
    NoWord = NoWord
    Watch = 4
    Size = 5
    NewSize = 5
    Guests <- MCHasty
INVARIANTS
    SidesApart
