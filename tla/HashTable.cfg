SPECIFICATION Spec
CONSTANTS
    Keys <- MCKeys
    Vals = {u}
    Sizes = {0, 1, 2}
    Buffers = {1, 2}
    MaxPuts = 4
\* A crashed program takes no more steps.
CHECK_DEADLOCK FALSE
INVARIANTS
    TypeOK
    FoundWherePut
    NothingLeaks
PROPERTY
    ImplementsMultiMap
