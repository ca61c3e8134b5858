SPECIFICATION Spec
CONSTANTS
    Flipper = {f1, f2}
    NoDevice = none
    MaxConnections = 2
    MaxTimers = 1
INVARIANTS OnlyOfflineRemoved
CHECK_DEADLOCK FALSE
