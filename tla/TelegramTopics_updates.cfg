SPECIFICATION FairSpec
CONSTANTS
    Bots <- MCBots
    First = "b1"
    Others <- MCOthers
    MaxWeb = 1
    MaxUpdates = 2
    MaxTopics = 2
    MaxUpsets = 1
INVARIANTS
    RepeatsNeedUpsets
    OldPairingEnds
    OneTopicPerSession
PROPERTIES
    EveryUpdateOffered
CHECK_DEADLOCK FALSE
