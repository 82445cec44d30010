SPECIFICATION FairLockSpec
CONSTANTS
    Operators = {t1, t2}
    LongOperations = TRUE
    MaxAgings = 2
    MaxDeaths = 2
    MaxLost = 1
INVARIANTS
    NoOverlapWhileFresh
    ScheduledRunIsLive
PROPERTIES
    LockComesFree
CHECK_DEADLOCK FALSE
