SPECIFICATION Spec
CONSTANTS
    HighWaterMark = 2
    Writev = {FALSE}
    MayFail = FALSE
    Callers = {"main", "finish"}
    MaxWrites = 2
    MaxCorks = 0
    MaxEnds = 1
PROPERTY NothingAfterEnd
CHECK_DEADLOCK FALSE
