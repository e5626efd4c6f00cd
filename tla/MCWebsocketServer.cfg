SPECIFICATION SafeSpec
CONSTANTS
    Items = {i1, i2}
    NoItem = NoItem
    Platforms = {"Windows"}
SYMMETRY Symmetry
CONSTRAINT OneRequest
INVARIANTS
    DestructorFindsNothing
    LeftoverIsReported
    StrandedOnlyByStartupRace
    StopEndsWebSockets
CHECK_DEADLOCK FALSE
