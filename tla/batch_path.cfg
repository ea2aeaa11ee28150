SPECIFICATION FairSpec
CONSTANTS
    Modes = {"in-memory", "anvil", "remote", "local"}
    Capacity = 2
    Config <- MCConfig
    Size <- MCSize
    MaxEmpty = 2
    MaxFaults = 1
    MaxCrashes = 1
    MaxOther = 1
INVARIANTS
    FlowInOrder
    NothingDropped
PROPERTIES
    EveryBlockSubmitted
CHECK_DEADLOCK FALSE
