SPECIFICATION FairReplySpec
CONSTANTS
    Prompts = {p1, p2}
    Callers = {c1, c2}
    MaxDeaths = 1
INVARIANTS
    ReplyReachesAgent
PROPERTIES
    WaitsEnd
CHECK_DEADLOCK FALSE
