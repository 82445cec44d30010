SPECIFICATION FairSpec
CONSTANTS
    r1 = r1
    Requests = {r1}
    Versions = {1, 2}
    MaxInstances = 1
    MaxRequests = 1
    MaxCrashes = 0
    MaxFaults = 1
PROPERTIES
    IdleTimeoutStops
CHECK_DEADLOCK FALSE
