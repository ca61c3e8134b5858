SPECIFICATION RecoveryFairSpec
CONSTANTS
    Operation = {o1, o2, o3}
    NoOperation = none
    MaxTries = 2
INVARIANTS TurnIsSound NothingStalls
PROPERTIES SuccessMeansDone ImplementsExecutor QueuedOperationsLeave
