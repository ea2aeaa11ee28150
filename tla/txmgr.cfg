SPECIFICATION FairSpec
CONSTANTS
    s1 = s1
    s2 = s2
    Sender <- TwoSenders
    BlobSender = {s2}
    MayRevert = {s1}
    Config <- SmallConfig
    OwnCaps <- SomeOwnCaps
    BaseFees = {5}
    Excesses <- HeaderExcesses
    Word = 64
    MaxU128 = 100000
    BlobFraction = 3
    MaxTerms = 10
    MaxFee = 40
    MaxFaults = 2
    MaxBumps = 1
INVARIANTS
    NoncesUnique
PROPERTIES
    OutcomesTruthful
    FeesSound
    EverySendEnds
CHECK_DEADLOCK FALSE
