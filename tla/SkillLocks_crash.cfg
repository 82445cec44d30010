SPECIFICATION LockSpec
CONSTANTS
    Operators = {t1, t2}
    LongOperations = FALSE
    MaxAgings = 0
    MaxDeaths = 1
    MaxLost = 0
INVARIANTS
    ActiveRunIsLive
CHECK_DEADLOCK FALSE
