SPECIFICATION FairSpec
CONSTANTS
    LastBlock = 3
    MaxBlocksPerBatch = 2
    MaxFailures = 1
    SourceMayFail = TRUE
    MayFail = TRUE
    MaxKeys = 2
    MaxSamples = 1
INVARIANTS
    ExecutesChain
    DisplayTruthful
PROPERTIES
    EveryBlockExecuted
    InputReturns
CHECK_DEADLOCK FALSE
