SPECIFICATION Spec
CONSTANTS
    Dest = {d1, d2}
    MaxChunks = 3
    Cases <- PipeCases
PROPERTY PipesComplete
CHECK_DEADLOCK FALSE
