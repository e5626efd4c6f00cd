SPECIFICATION Spec
CONSTANTS
    Header = 2
    Sends = 5
    Answers = 3
    Capacity = 2
    Chunk = 2
PROPERTIES
    ReachesTarget
    ReachesBrowser
CHECK_DEADLOCK FALSE
