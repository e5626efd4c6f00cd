SPECIFICATION Spec
CONSTANTS
    Sends = 1
    Answers = 2
    Capacity = 1
    Deployments = {{}, {"server"}}
INVARIANTS
    WholeMessages
PROPERTIES
    NoGap
    CloseReachesBrowser
    ClosedEndsEverything
CHECK_DEADLOCK FALSE
