SPECIFICATION Spec
CONSTANTS
    Calendar <- TwoSchedules
    Required = TRUE
    MaxTurns = 3
    MaxTime = 2
    MaxEvents = 3
CHECK_DEADLOCK FALSE
INVARIANTS
    OneInFlight
    SuccessIsFinalUnlessLost
    NothingBackfilled
