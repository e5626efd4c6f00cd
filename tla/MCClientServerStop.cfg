SPECIFICATION Spec
CONSTANTS
    Items = {i1}
    NoItem = NoItem
    AutoProxy = TRUE
PROPERTY
    StopDisconnects
CHECK_DEADLOCK FALSE
