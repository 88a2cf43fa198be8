SPECIFICATION FairSpec
CONSTANTS
    Header = 3
    MaxChunk = 3
    MaxSend = 1
    Entities <- MCEntities
    ErrorEntity <- MCErrorEntity
    Scripts <- MCScripts
    SndBuf = 2
    Garbage <- NoGarbage
INVARIANTS
    TypeOK
    CurrentIntact
    LossIsBacklog
    HistoryAgrees
    NothingWaits
    CloseIsLast
PROPERTIES
    ImplementsPipeline
    EveryRequestAnswered
CHECK_DEADLOCK FALSE
