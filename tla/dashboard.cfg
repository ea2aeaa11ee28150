SPECIFICATION Spec
CONSTANTS
    MaxLogEntries = 3
    MaxSamples = 1
    MaxL1Blocks = 2
    MaxVisible = 2
    BarWidth = 16
    MaxBlock = 1
    MaxTip = 3
    MaxBatchBlocks = 2
    MaxL1 = 3
    MaxQueue = 1
    MaxKeys = 1
    InitialBlocks = {1}
    SyncThreshold = 1
INVARIANTS
    DisplayTruthful
    BookkeepingExact
    PanelsTruthful
CHECK_DEADLOCK FALSE
