SPECIFICATION PauseSpec
CONSTANTS
    Requests = {r1}
    Resumers = {c1}
    Edits = {none, m1, m2}
    NoEdit = none
    Absent = Absent
    NoRequest = NoRequest
CHECK_DEADLOCK FALSE
INVARIANTS
    OkMeansApplied
