SPECIFICATION FairSpec
CONSTANTS
    Sequences = TRUE
    Validates = TRUE
    SkipSyncModes = {TRUE, FALSE}
    SyncThreshold = 1
    BlocksPerTick = 2
    MaxPerTick = 2
    MaxTip = 3
    MaxStarts = 3
    MayFail = TRUE
    ProducerLags = TRUE
    MayMessage = TRUE
    SourceModes = {TRUE, FALSE}
INVARIANTS
    
    SyncedWasFetched
PROPERTIES
    
    FlagStops
CHECK_DEADLOCK FALSE
