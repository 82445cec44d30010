SPECIFICATION FairSpec
CONSTANTS
    Kinds = {"skill", "platform"}
    Definitions = {"daily", "hourly"}
    Intervals = {"hourly"}
    Every = 1
    Calendar <- SomeCalendar
    Requests = {r1}
    MaxTime = 2
    MaxEdits = 2
    MaxCrashes = 1
CHECK_DEADLOCK FALSE
INVARIANTS
    NoBackfill
    LatestIsClaimed
PROPERTIES
    LedgerSpec
    ClaimedEnds
