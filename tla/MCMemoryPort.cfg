SPECIFICATION LiveSpec
CONSTANTS
    LineFills <- MCShortFills
    LineWrites <- MCLineWrites
    ScsiHoles = TRUE
    McHoles = FALSE
    NumIds = 2
    NoRequest = NoRequest
INVARIANTS
    TypeOK
    PortNeverOverrun
    CpuGetsItsWord
    FillComplete
    EngineGetsItsAnswer
PROPERTIES
    ImplementsService
    EveryoneServed
