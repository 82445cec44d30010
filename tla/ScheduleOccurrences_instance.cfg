SPECIFICATION FairSpec
CONSTANTS
    Kinds = {"platform"}
    Definitions = {"daily", "hourly"}
    Intervals = {"hourly"}
    Every = 1
    Calendar <- SomeCalendar
    Requests = {r1}
    MaxTime = 2
    MaxEdits = 0
    MaxCrashes = 0
CHECK_DEADLOCK FALSE
INVARIANTS
    OneInstance
