SPECIFICATION FairSpec
CONSTANTS
    Threads = {t1, t2}
    MaxCalls = 2
    MaxGen = 3
    MaxExits = 1
INVARIANTS
    AnswerMatches
    OneServer
PROPERTIES
    CallsReturn
CHECK_DEADLOCK FALSE
