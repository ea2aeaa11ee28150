SPECIFICATION FairSpec
CONSTANTS
    StartBlock = 1
    LastBlock = 6
    MaxBlocksPerBatch = 3
    MaxFailures = 2
    SourceMayFail = TRUE
INVARIANTS
    BatchesSound
PROPERTIES
    ImplementsBatchLog
    EveryBlockSubmitted
CHECK_DEADLOCK FALSE
