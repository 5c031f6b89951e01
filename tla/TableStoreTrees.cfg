SPECIFICATION Spec
CONSTANTS
    Order = 6
    INVALID_VAL = 99
    ColCount = 1
    Capacity = 32
    Files <- TreeFiles
    NewRows <- TreeNewRows
    Values = {205}
    Bounds <- TreeBounds
    Types <- TreeTypes
    Junk = {2, 500}
    MaxCommands = 4
INVARIANTS
    KeptIsSafe
    IndexesSound
CONSTRAINT KeptSoFar
CHECK_DEADLOCK FALSE
