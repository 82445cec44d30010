SPECIFICATION FairSpec
CONSTANTS
    w1 = w1
    w2 = w2
    Workers = {w1, w2}
    Workflows = {"task_dag", "single_codex"}
    NTasks = 2
    Tested = {2}
    BatchEnds = {1, 2}
    MaxFailures = 1
    MaxRequests = 3
    MaxCrashes = 1
INVARIANTS
    CancelledNotInstallable
    BuiltWasApproved
PROPERTIES
    CancelBeatsFinish
    RequestsEnd
CHECK_DEADLOCK FALSE
