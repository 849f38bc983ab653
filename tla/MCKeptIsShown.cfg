SPECIFICATION ModalSpec
CONSTANTS
    Touched <- ModalPaths
    MaxPageLoads = 2
    MaxStorageFailures = 1
CHECK_DEADLOCK FALSE
PROPERTIES
    KeptIsShown
