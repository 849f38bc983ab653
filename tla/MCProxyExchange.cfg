SPECIFICATION MCSpec
CONSTANTS
    r1 = r1
    r2 = r2
    h1 = h1
    h2 = h2
    Hosts = {h1, h2}
    HostOf <- MCHostOf
    None = None
    Local = Local
    Requests = {r1, r2}
    RequestActions = {"none", "pass", "script", "block", "redirect", "mock", "modify", "pause"}
    ResponseActions = {"none", "pass", "script", "block", "redirect", "mock", "modify", "pause"}
    Losses = TRUE
    HistoryCap = 2
    MaxInFlight = 2
    MaxClears = 1
    NoRequest = NoRequest
    RequestOrder <- MCOrder
    Times = {1}
    Capacity = 2
    MaxEvents = 4
    MaxRestarts = 1
    FedPlaces = {"new", "rules", "answering", "answered", "forward", "pausing", "held", "announcing", "recording", "upstream", "response", "pairing", "judging", "emitting", "closing", "done", "lost"}
CHECK_DEADLOCK FALSE
INVARIANTS
    PairedOnce
    NoRequestForgotten
    IdleMeansDrained
    CountersAgree
    RowsAreAnnounced
PROPERTIES
    TimelineIsFed
