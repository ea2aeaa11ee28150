SPECIFICATION FairSpec
CONSTANTS
    Names <- MCNames
    World <- MCWorld
    AccountTable <- MCAccountTable
    StorageTable <- MCStorageTable
    Commits <- MCCommits
    Configs <- MCConfigs
    MaxRuns = 3
    MaxWriteErrors = 1
INVARIANTS
    FaithfulCopy
    CommitsDurable
PROPERTIES
    MigrationEnds
CHECK_DEADLOCK FALSE
