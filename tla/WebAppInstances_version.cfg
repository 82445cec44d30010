SPECIFICATION Spec
CONSTANTS
    r1 = r1
    r2 = r2
    Requests = {r1, r2}
    Versions = {1, 2}
    MaxInstances = 2
    MaxRequests = 3
    MaxCrashes = 0
    MaxFaults = 0
INVARIANTS
    ServedIsActive
CHECK_DEADLOCK FALSE
