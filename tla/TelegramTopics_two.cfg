SPECIFICATION Spec
CONSTANTS
    Bots <- MCBots
    First = "b1"
    Others <- MCOthers
    MaxWeb = 1
    MaxUpdates = 2
    MaxTopics = 2
    MaxUpsets = 2
INVARIANTS
    RepeatsNeedUpsets
    OldPairingEnds
    OneTopicPerSession
CHECK_DEADLOCK FALSE
