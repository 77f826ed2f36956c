SPECIFICATION Spec
CONSTANTS
    Capacity = 2
    MaxStdin = 3
    MaxOutput = 3
    Heirs = TRUE
CHECK_DEADLOCK FALSE

INVARIANTS
    TypeOK
    NothingLeftBehind
    OutputIsComplete
PROPERTY
    ReturnsInTime
