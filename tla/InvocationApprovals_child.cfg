SPECIFICATION Spec
CONSTANTS
    a1 = a1
    a2 = a2
    Approvals = {a1}
    web = web
    other = other
    bot = bot
    Threads = {web, other, bot}
    Poller = bot
    MaxCrashes = 0
    MaxFaults = 0
INVARIANTS
    OnlyInterruptedUnknown
CHECK_DEADLOCK FALSE
