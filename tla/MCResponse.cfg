SPECIFICATION Spec
CONSTANTS
    Header = 2
    MaxChunk = 2
    MaxSend = 3
    MaxRoom = 4
    Entities <- MCEntities
INVARIANTS
    TypeOK
    NothingLost
    SentIsPrefix
    DoneButForBacklog
CHECK_DEADLOCK FALSE
