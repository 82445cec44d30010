SPECIFICATION FairSpec
CONSTANTS
    Bots <- MCBots
    First = "b1"
    Others <- MCOthers
    MaxWeb = 1
    MaxUpdates = 2
    MaxTopics = 2
    MaxUpsets = 1
PROPERTIES
    RefreshesFirst
CHECK_DEADLOCK FALSE
