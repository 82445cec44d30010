SPECIFICATION FairSpec
CONSTANTS
    r1 = r1
    r2 = r2
    Requests = {r1, r2}
    Versions = {1, 2}
    MaxInstances = 2
    MaxRequests = 3
    MaxCrashes = 1
    MaxFaults = 1
INVARIANTS
    OneRuns
    NothingLeaks
PROPERTIES
    QuietSwitch
    IdleEnds
CHECK_DEADLOCK FALSE
