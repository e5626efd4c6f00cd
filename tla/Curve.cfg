SPECIFICATION Spec
CONSTANTS
    p = 43
    CURVE_B = 7
    Bits = 5
    Order = 31
    WINDOW_A = 3
    Null = Null
    Zs = {1, 5}
    MaxSteps = 2
    Keys = {0, 1, 13, 30, 31}
    Messages = {0, 3, 8, 20, 31}
    Drawn = {0, 1, 5, 6, 9, 17, 22, 30, 31}
INVARIANTS
    PointsFollowTheLaw
    SumsAreOfTheMultiples
    SignaturesVerify
    KeysStayPairs
CHECK_DEADLOCK FALSE
