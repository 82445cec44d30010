SPECIFICATION FairSpec
CONSTANTS
    a1 = a1
    a2 = a2
    Approvals = {a1}
    web = web
    other = other
    bot = bot
    Threads = {web, other, bot}
    Poller = bot
    MaxCrashes = 1
    MaxFaults = 1
INVARIANTS
    ShownIsTrue
PROPERTIES
    WithdrawnNeverRuns
    ClaimsSettle
    LedgerSpec
CHECK_DEADLOCK FALSE
