SPECIFICATION SafeSpec
CONSTANTS
    Items = {i1, i2}
    NoItem = NoItem
    AutoProxy = TRUE
SYMMETRY Symmetry
INVARIANTS
    TypeOK
    ClearLeavesNothing
    DestructorFindsNothing
    StrandedOnlyByStartupRace
    StopLeavesNothingRunning
    CrashOnlyDuringSetup
PROPERTY
    Promise
CHECK_DEADLOCK FALSE
