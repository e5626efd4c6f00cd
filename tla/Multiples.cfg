SPECIFICATION Spec
CONSTANTS
    p = 31
    CURVE_B = 3
    Bits = 6
    Order = 43
    WINDOW_A = 3
    Null = Null
INVARIANTS
    DigitsAddUp
    SecretMultiples
CHECK_DEADLOCK FALSE
