SPECIFICATION LiveSpec
CONSTANTS
    QW = 4
    PAGE = 8
    SEG = 16
    ASIZE = 48
    Descriptors <- MCDescriptors
    Later <- MCLater
    Tlbs <- MCTlbs
    Tables <- MCTables
    RUNS = 2
    POKES = 1
    DELAY = 1
    FUEL = 40
INVARIANTS
    RestartLosesNothing
    EndIsTold
PROPERTIES
    TransferEnds
