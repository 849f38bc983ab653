SPECIFICATION Spec
CONSTANTS
    t1 = t1
    t2 = t2
    t3 = t3
    NoCommand = NoCommand
    Tasks = {t1}
    Commands = {"set_mode"}
CHECK_DEADLOCK FALSE
PROPERTIES
    ModesPersist
