SPECIFICATION BackendSpec
CONSTANTS
    Flipper = {f1, f2}
    NoDevice = none
    MaxConnections = 2
    MaxTimers = 1
    MaxWork = 2
INVARIANTS ListIsSound InfoIsNewest OnlyRefusalsStrand UserIsHeard WorkIsShown EndIsShown
PROPERTIES DevicesStay
SYMMETRY Symmetry
CHECK_DEADLOCK FALSE
