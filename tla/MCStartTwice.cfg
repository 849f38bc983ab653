SPECIFICATION Spec
CONSTANTS
    c1 = c1
    c2 = c2
    NoTask = NoTask
    NoBrowser = NoBrowser
    Callers = {c1, c2}
    Ports = {8080}
    MaxListeners = 2
    MaxStarting = 2
    MaxBrowsers = 0
INVARIANTS
    StartIsIdempotent
