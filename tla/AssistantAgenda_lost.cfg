SPECIFICATION Spec
CONSTANTS
    Calendar <- OneSchedule
    Required = FALSE
    MaxTurns = 3
    MaxTime = 1
    MaxEvents = 1
CHECK_DEADLOCK FALSE
INVARIANTS
    SuccessIsFinal
