SPECIFICATION Spec
CONSTANTS
    CounterMax = 2
    Replied = {"request"}
    MaxQueue = 1
    MaxPosted = 1
    MaxReceived = 1
PROPERTIES StoppedUntilStarted
CHECK_DEADLOCK FALSE
