SPECIFICATION Spec
CONSTANTS
    w1 = w1
    w2 = w2
    Worker = {w1, w2}
    Conn = {c1}
    Programs <- ListenOnce
    MayCrash = {}
    BindMayFail = FALSE
INVARIANT NoResourceLeak
CHECK_DEADLOCK FALSE
