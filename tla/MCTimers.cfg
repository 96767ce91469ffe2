SPECIFICATION Spec
CONSTANTS
    Msecs = {1, 2}
    MaxTimers = 2
    MaxItems = 2
    MaxLists = 4
    MaxImmediates = 2
    MaxLate = 1
    Programs <- MCPrograms
INVARIANTS TypeOK Watched
PROPERTIES OnTime Fires ImmediateRuns LoopDrains
CHECK_DEADLOCK FALSE
