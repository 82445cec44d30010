SPECIFICATION Spec
CONSTANTS
    s1 = s1
    Sessions = {s1}
    Agent = "act"
    Turns = {1}
    Callers = {c1}
    Home <- OneSession
    MaxCrashes = 0
    MaxFaults = 0
CHECK_DEADLOCK FALSE
INVARIANTS
    CancelTakesEffect
