SPECIFICATION FairSpec
CONSTANTS
    CounterMax = 2
    Replied = {"request"}
    MaxQueue = 2
    MaxPosted = 2
    MaxReceived = 2
INVARIANTS NeverStalls PortIsSound SlotsAreSafe InOrder
PROPERTIES ImplementsExecutor SessionSettles
CHECK_DEADLOCK FALSE
