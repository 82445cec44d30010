SPECIFICATION FairSpec
CONSTANTS
    Calendar <- TwoSchedules
    Required = TRUE
    MaxTurns = 3
    MaxTime = 2
    MaxEvents = 2
CHECK_DEADLOCK FALSE
INVARIANTS
    OneInFlight
    SuccessIsFinalUnlessLost
    NothingBackfilled
PROPERTIES
    LatestSettles
