SPECIFICATION Spec
CONSTANTS
    Octet = {"CR", "LF", "x"}
    EndLine <- MCEndLine
    Size = 4
    Streams <- MCStreams
INVARIANTS
    TypeOK
    NothingLost
    LinesAreExact
    FeedHasRoom
