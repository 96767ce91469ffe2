SPECIFICATION Spec
CONSTANTS
    Dest = {d1, d2}
    MaxChunks = 3
    Cases <- MCCases
INVARIANTS TypeOK NoLostWakeup
PROPERTIES FlowSpec Completes
CHECK_DEADLOCK FALSE
