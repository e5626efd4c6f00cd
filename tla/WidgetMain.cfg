SPECIFICATION WindowSpec
CONSTANT
    Cores = {c1, c2}
INVARIANTS
    NeverTerminated
    ProxyOnlyInItsMode
    ThreadsFollowButtons
PROPERTY
    HandlersReturn
CHECK_DEADLOCK FALSE
