SPECIFICATION Spec
CONSTANTS
    Header = 1
    MaxChunk = 1
    MaxSend = 1
    Entities <- MCEntities
    ErrorEntity <- MCErrorEntity
    Scripts <- GoodScripts
    SndBuf = 20
    Garbage <- AnyGarbage
INVARIANTS
    RegisteredAsAsked
CHECK_DEADLOCK FALSE
