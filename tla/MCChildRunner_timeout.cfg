SPECIFICATION Spec
CONSTANTS
    Capacity = 2
    MaxStdin = 3
    MaxOutput = 3
    Heirs = FALSE
CHECK_DEADLOCK FALSE
PROPERTY EnforcesTimeout
