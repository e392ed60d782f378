SPECIFICATION LiveSpec
CONSTANTS
    Loads <- MCLoads
    FBR_SUB = 1
    FBR_AHEAD = 2
    RF = 8
    LineWords = 3
    Burst = 2
    NoRequest = NoRequest
    NoWord = NoWord
INVARIANTS
    AnswersMatch
    CommandsAreWanted
    LineWriteInOnePiece
PROPERTIES
    RamContract
    EveryoneServed
