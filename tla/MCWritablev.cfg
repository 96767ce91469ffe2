SPECIFICATION Spec
CONSTANTS
    HighWaterMark = 2
    Writev = {TRUE}
    MayFail = FALSE
    Callers = {"main", "_write"}
    MaxWrites = 4
    MaxCorks = 1
    MaxEnds = 0
PROPERTY WriteCompletes
CHECK_DEADLOCK FALSE
