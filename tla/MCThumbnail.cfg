SPECIFICATION FairSpec
CONSTANTS
    Size = 3
    Capacity = 2
INVARIANTS
    TypeOK
    NothingLeftOver
    ThumbnailsAreWhole
    MadeOnce
PROPERTIES
    AlwaysAnswers
