SPECIFICATION MCSpec
CONSTANTS
    r1 = r1
    r2 = r2
    h1 = h1
    h2 = h2
    Hosts = {h1, h2}
    HostOf <- MCHostOf
    None = None
    Local = Local
    Requests = {r1, r2}
    RequestActions = {"none"}
    ResponseActions = {"none"}
    Losses = FALSE
    HistoryCap = 4
    MaxInFlight = 2
    MaxClears = 0
    NoRequest = NoRequest
    RequestOrder <- MCOrder
    Times = {1}
    Capacity = 1
    MaxEvents = 0
    MaxRestarts = 0
    FedPlaces = {}
CHECK_DEADLOCK FALSE
INVARIANTS
    PairedWithinHost
