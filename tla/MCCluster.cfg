SPECIFICATION Spec
CONSTANTS
    w1 = w1
    w2 = w2
    Worker = {w1, w2}
    Conn = {c1, c2}
    Programs <- MCPrograms
    MayCrash = {w2}
    BindMayFail = TRUE
INVARIANTS TypeOK OneCopy NoIdleWorker FreeIsIdle MessagesFindHandle RemovedIsGone ListenIsAnswered DisconnectCompletes
CHECK_DEADLOCK FALSE
