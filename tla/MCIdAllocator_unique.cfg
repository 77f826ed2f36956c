SPECIFICATION Spec
CONSTANTS
    Threads = {t1, t2}
    MaxId = 3
    Lens = {1, 2}
INVARIANT
    UniqueIds
CHECK_DEADLOCK FALSE
