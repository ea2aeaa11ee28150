SPECIFICATION FairSpec
CONSTANTS
    FirstNum = 1
    ContinueOnError = FALSE
    CountsRecorded = TRUE
    MayFail = TRUE
    MaxBatches = 3
    MaxBatchBlocks = 2
    MaxRestarts = 2
INVARIANTS
    ExecutionInOrder
PROPERTIES
    DerivedOnce
    EveryBatchDerived
CHECK_DEADLOCK FALSE
