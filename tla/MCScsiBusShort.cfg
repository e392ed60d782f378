SPECIFICATION Spec
CONSTANTS
    Plans <- MCShortPlans
    FillsApart = TRUE
    SEL_TIMEOUT = 6
    PAUSE = 4
    RST_HOLD = 3
    DIN_SETTLE = 6
    PIO_SETTLE = 12
    ID = 1
    BLOCK = 4
    RING = 2
    ANSWER = 3
    CMD_WAIT = 20
INVARIANTS
    NoByteTooMany
