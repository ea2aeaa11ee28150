SPECIFICATION FairSpec
CONSTANTS
    MaxLogEntries = 3
    MaxSamples = 1
    MaxL1Blocks = 2
    MaxVisible = 2
    BarWidth = 16
    MaxBlock = 1
    MaxTip = 3
    MaxBatchBlocks = 2
    MaxL1 = 2
    MaxQueue = 1
    MaxKeys = 0
    InitialBlocks = {0, 1}
    SyncThreshold = 1
PROPERTIES
    StopsCleanly
CHECK_DEADLOCK FALSE
