SPECIFICATION Spec
CONSTANTS
    c1 = c1
    c2 = c2
    s = s
    Columns = {c1, c2, s}
    NumRows <- MCNumRows
    Data <- MCData
    INVALID_VAL <- MCInvalid
    Queries <- MCQueries
    Handles = {h1, h2}
    VEC_SIZE = 2
    MAX_THREADS = 2
    MaxTasks = 3
\* A crashed server takes no more steps.
CHECK_DEADLOCK FALSE
INVARIANT
    BatchComplete
