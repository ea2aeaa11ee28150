SPECIFICATION FairSpec
CONSTANTS
    Start = 1
    LastBlock = 4
    MaxBlocksPerBatch = 2
    LightThreshold = 3
    ModerateThreshold = 4
    HeavyThreshold = 5
    LightMax = 4
    ModerateMax = 4
    HeavyMax = 4
    MaxConcurrent = 2
    MaxResumed = 0
    MaxPrepFailures = 0
    IOMayFail = FALSE
PROPERTIES
    DisconnectDrains
    BacklogReachesL1
CHECK_DEADLOCK FALSE
