SPECIFICATION Spec
CONSTANTS
    Threads = {t1, t2}
    MaxCalls = 3
    MaxGen = 2
    MaxExits = 1
INVARIANTS
    TimeoutMeansUnanswered
CHECK_DEADLOCK FALSE
