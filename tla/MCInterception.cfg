SPECIFICATION InterceptionSpec
CONSTANTS
    a = a
    b = b
    good = good
    bad = bad
    none = none
    c = c
    x1 = x1
    x2 = x2
    e1 = e1
    Ids = {a, b}
    Priorities = {1, 2}
    Regexes = {good, bad}
    ValidRegexes = {good}
    NoRegex = none
    Conds = {c}
    Traffic = {x1, x2}
    RegexHits <- MCRegexHits
    CondHits <- MCCondHits
    Submitted <- MCSubmitted
    Evaluators = {e1}
    NoVerdict = NoVerdict
    MaxRules = 3
    MaxReorder = 3
    r1 = r1
    r2 = r2
    c1 = c1
    c2 = c2
    m1 = m1
    m2 = m2
    Requests = {r1, r2}
    Resumers = {c1, c2}
    Edits = {none, m1, m2}
    NoEdit = none
    Absent = Absent
    NoRequest = NoRequest
CHECK_DEADLOCK FALSE
INVARIANTS
    CacheCoherent
    SortedUnlessReordered
    ReorderIsTheLoop
    EntryHasHolder
    WokenWithAnEdit
PROPERTIES
    DecidesAtOnce
    HeldExchangesEnd
    ImplementsHold
