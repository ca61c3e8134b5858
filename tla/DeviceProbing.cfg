SPECIFICATION FairSpec
CONSTANTS
    Pointer = {p1}
    NumTries = 2
    RetryCount = 2
    MaxArrivals = 2
INVARIANTS ReportsAreTrue DetectorAgrees
PROPERTY ProbesEnd
CHECK_DEADLOCK FALSE
