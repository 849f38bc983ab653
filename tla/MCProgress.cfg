SPECIFICATION ProgressSpec
CONSTANTS
    r1 = r1
    r2 = r2
    NoRequest = NoRequest
    Requests = {r1, r2}
    RequestOrder <- Ordered
    Times = {1, 2}
    Capacity = 2
    MaxEvents = 3
    MaxRestarts = 1
    Sockets = {1, 2, 3, 4}
    MaxConnects = 3
    MaxDisconnects = 2
    Documents = {"own", "other"}
    OwnOrigin = {"own"}
    FirstDocument = "other"
    Fragments = {"a"}
    MaxEntries = 3
CHECK_DEADLOCK FALSE
INVARIANTS
    TimelineIsCurrent
    LoadsAreHeard
    ReconnectAddsNoSocket
PROPERTIES
    ForwarderCatchesUp
    Reconnects
