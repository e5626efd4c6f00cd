SPECIFICATION EndSpec
CONSTANTS
    Items = {i1}
    NoItem = NoItem
    AutoProxy = TRUE
INVARIANT
    OnlyErrorsOutliveTheServer
PROPERTIES
    StopTerminates
    ErrorReapsListedItem
    DestructorReturns
CHECK_DEADLOCK FALSE
