SPECIFICATION Spec
CONSTANTS
    Header = 1
    MaxChunk = 1
    MaxSend = 1
    Entities <- MCEntities
    ErrorEntity <- MCErrorEntity
    Scripts <- MCScripts
    SndBuf = 20
    Garbage <- NoGarbage
INVARIANTS
    BrokenNotAnswered
CHECK_DEADLOCK FALSE
