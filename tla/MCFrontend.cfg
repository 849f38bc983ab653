SPECIFICATION FrontendSpec
CONSTANTS
    core = core
    extra = extra
    c1 = c1
    c2 = c2
    Ids = {core, extra}
    Builtins <- CoreOnly
    DependsOn <- ExtraOnCore
    Calls = {c1, c2}
    Operations <- AllOperations
    HooksThrow = TRUE
    MaxObjects = 2
    Edits <- EditorEdits
    Deletable <- Deletions
    Watched <- AllAndSection
    Profiles = {"work"}
    NamedProfiles = {"work"}
    Callers = {c1, c2}
    MaxCalls = 3
    MaxReloads = 1
    MaxFailures = 1
    SettingValid <- SettingIsValid
    Handlers = {"h1"}
    Streams = {"s1", "s2"}
    MaxPublished = 3
    Requests = {1}
    Functions = {"f", "g"}
    MaxHooks = 4
    MaxWindows = 3
    MaxTabs = 1
    MaxTime = 2
    GivenIds = {2}
    MaxOverlap = 1
    MaxFiles = 3
    MaxTouched = 2
    MaxKept = 3
    MaxListed = 2
    MaxLogged = 2
    MaxAdded = 6
    Touched <- ModalPaths
    MaxPageLoads = 2
    MaxStorageFailures = 1
    Queries <- Found
    MaxWorkspaces = 1
SYMMETRY Interchangeable
CHECK_DEADLOCK FALSE
INVARIANTS
    RecordsAgree
    ValidUnlessEarly
    QuietWatcherIsCurrent
    StoredProfilesAgree
    StreamsLoseNothing
    HooksRunOnce
    OpenAreRegistered
    TablesFit
    ActiveFollows
    FilesKeepTheirOwn
    WrittenIsKept
    NewestAreShown
    SelectionIsRun
PROPERTIES
    SerialStopDisablesAll
