SPECIFICATION Spec
CONSTANTS
    Order = 6
    INVALID_VAL = 99
    ColCount = 2
    Capacity = 3
    Files <- MCFiles
    NewRows <- MCNewRows
    Values = {1, 3}
    Bounds <- MCBounds
    Types <- MCTypes
    Junk = {50}
    MaxCommands = 2
INVARIANTS
    ColumnsHaveTableLength
CHECK_DEADLOCK FALSE
