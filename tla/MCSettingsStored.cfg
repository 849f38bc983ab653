SPECIFICATION ConfigSpec
CONSTANTS
    Edits <- OneEdit
    Deletable = {}
    Watched = {}
    Profiles = {}
    NamedProfiles = {}
    Callers = {"c1"}
    MaxCalls = 1
    MaxReloads = 0
    MaxFailures = 0
    SettingValid <- SettingIsValid
CHECK_DEADLOCK FALSE
INVARIANTS
    SetIsStored
