SPECIFICATION Spec
CONSTANTS
    HighWaterMark = 2
    Writev = {TRUE, FALSE}
    MayFail = TRUE
    Callers = {"main", "callback", "drain"}
    MaxWrites = 3
    MaxCorks = 2
    MaxEnds = 2
INVARIANTS TypeOK InOrder NothingLost PendingCount OvertakenIsDue FinishIsLast
PROPERTIES WriteCompletes EndFinishes DrainComes
CHECK_DEADLOCK FALSE
