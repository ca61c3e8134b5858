SPECIFICATION FairSpec
CONSTANTS
    MaxRepeat = 3
    MaxChecks = 3
INVARIANTS SuccessMeansDone FirstIsNotInterrupted
PROPERTY ProgramExits
CHECK_DEADLOCK FALSE
