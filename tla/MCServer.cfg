SPECIFICATION Spec
CONSTANTS
    Fds = {11, 12}
    Lfd = 10
    MaxEvents = 2
    Timeout = 2
    Busy = 1
    Period = 2
    Limit = 1
    Garbage = {"in", "out"}
    MaxTime = 9
INVARIANTS
    TypeOK
    NoStaleEvent
    EntriesOwnFds
    NoneOverdue
CHECK_DEADLOCK FALSE
