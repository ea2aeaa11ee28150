SPECIFICATION Spec
CONSTANTS
    Start = 1
    LastBlock = 5
    MaxBlocksPerBatch = 1
    LightThreshold = 3
    ModerateThreshold = 4
    HeavyThreshold = 5
    LightMax = 2
    ModerateMax = 3
    HeavyMax = 4
    MaxConcurrent = 2
    MaxResumed = 1
    MaxPrepFailures = 1
    IOMayFail = TRUE
INVARIANTS
    TypeOK
    L1InOrder
    NothingLost
    PreparationSlots
    CheckpointTracksL1
PROPERTIES
    ImplementsBatchLog
CHECK_DEADLOCK FALSE
