SPECIFICATION Spec
CONSTANTS
    s1 = s1
    Sessions = {s1}
    Agent = "assistant"
    Turns = {1, 2}
    Callers = {c1}
    Home <- OneSession
    MaxCrashes = 1
    MaxFaults = 1
CHECK_DEADLOCK FALSE
PROPERTIES
    InOrder
