SPECIFICATION FairSpec
CONSTANTS
    alice = alice
    shop = shop
    ghost = ghost
    Account <- MCAccount
    Genesis <- MCGenesis
    Chain <- MCChain
    Timestamp <- MCTimestamp
    Activation <- MCActivation
    Batches <- MCBatches
    Backends = {"trie", "rpc"}
    MaxFaults = 2
    MaxCorrupt = 1
INVARIANTS
    StateSound
    ReportsTruthful
PROPERTIES
    SavedNotReplayed
    
CHECK_DEADLOCK FALSE
