SPECIFICATION Spec
CONSTANTS
    Threads = {t1, t2, t3}
    MaxId = 6
    Lens = {0, 1, 2}
INVARIANTS
    TypeOK
    UniqueUntilWrap
    NoGaps
PROPERTY
    OverflowAborts
CHECK_DEADLOCK FALSE
