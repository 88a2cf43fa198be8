SPECIFICATION LoopSpec
CONSTANTS
    Header = 3
    MaxChunk = 3
    MaxSend = 1
    Entities <- MCEntities
    ErrorEntity <- MCErrorEntity
    Scripts <- GoodScripts
    SndBuf = 2
    Garbage <- NoGarbage
PROPERTIES
    WriteReturns
CHECK_DEADLOCK FALSE
