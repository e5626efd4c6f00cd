SPECIFICATION RoutingSpec
CONSTANT Null = Null
INVARIANT PacIsTunnelled
CHECK_DEADLOCK FALSE
