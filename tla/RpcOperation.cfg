SPECIFICATION Spec
CONSTANTS
    ChunkSize = 2
    PingsPerFile = 3
    PingCap = 3
    MaxSize = 26
INVARIANTS SuccessMeansDone
CHECK_DEADLOCK FALSE
