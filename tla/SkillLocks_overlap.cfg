SPECIFICATION LockSpec
CONSTANTS
    Operators = {t1, t2}
    LongOperations = FALSE
    MaxAgings = 1
    MaxDeaths = 1
    MaxLost = 0
INVARIANTS
    NoOverlap
CHECK_DEADLOCK FALSE
