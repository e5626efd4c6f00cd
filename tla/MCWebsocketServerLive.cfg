SPECIFICATION Spec
CONSTANTS
    Items = {i1}
    NoItem = NoItem
    Platforms = {"Windows", "Linux"}
PROPERTIES
    ErrorEndsConnection
    StopTerminates
CHECK_DEADLOCK FALSE
