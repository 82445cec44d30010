SPECIFICATION FairSpec
CONSTANTS
    s1 = s1
    Sessions = {s1}
    Agent = "act"
    Turns = {1}
    Callers = {c1, c2}
    Home <- OneSession
    MaxCrashes = 1
    MaxFaults = 1
CHECK_DEADLOCK FALSE
INVARIANTS
    StartedOnce
    CancelReachesCodex
    StopReachesCodex
PROPERTIES
    FinishedStays
    LedgerSpec
    QueuedFinishes
    ExecutedResultsLeave
