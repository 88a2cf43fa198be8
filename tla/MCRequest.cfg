SPECIFICATION Spec
CONSTANTS
    Known = {"Host", "Request_URI", "GET"}
    Methods = {"GET"}
    Written <- MCWritten
    USHRT_MAX = 7
    MaxLine = 3
    MaxLines = 3
INVARIANTS
    TypeOK
    HeadersAreExact
CHECK_DEADLOCK FALSE
