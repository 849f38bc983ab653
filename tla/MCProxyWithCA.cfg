SPECIFICATION MCSpec
CONSTANTS
    c1 = c1
    c2 = c2
    NoTask = NoTask
    NoBrowser = NoBrowser
    Callers = {c1, c2}
    Ports = {8080, 9090}
    MaxListeners = 3
    MaxStarting = 1
    MaxBrowsers = 2
    cert_file = cert_file
    other_cert = other_cert
    key_file = key_file
    CertPaths = {cert_file, other_cert}
    KeyPaths = {key_file}
    DefaultCert = cert_file
    DefaultKey = key_file
    Absent = Absent
    Torn = Torn
    NoPem = NoPem
    MaxPairs = 3
    Free = Free
    Regenerating = Regenerating
    BothListeners = 2
    BothPairs = 2
    BothBrowsers = 1
SYMMETRY Interchangeable
INVARIANTS
    SerialStartsKeepTrack
    CrashLeavesNoMixedPair
    SignsWithStoredPair
PROPERTIES
    WholePairStays
    LifecycleIsKept
