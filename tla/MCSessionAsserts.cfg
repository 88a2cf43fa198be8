SPECIFICATION Spec
CONSTANTS
    Header = 1
    MaxChunk = 1
    MaxSend = 1
    Entities <- MCEntities
    ErrorEntity <- MCErrorEntity
    Scripts <- GoodScripts
    SndBuf = 2
    Garbage <- NoGarbage
INVARIANTS
    TickHasWork
CHECK_DEADLOCK FALSE
