SPECIFICATION UtilityFairSpec
CONSTANTS
    Path <- MCPath
    DeviceTrees <- MCDeviceTrees
    LocalTrees <- MCLocalTrees
    MaxTries = 2
INVARIANTS WorkIsDone ManifestTellsTruth NothingLeftInLine
PROPERTY OperationEnds
CHECK_DEADLOCK FALSE
