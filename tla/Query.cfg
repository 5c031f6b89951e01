SPECIFICATION Spec
CONSTANTS
    Order = 6
    INVALID_VAL = 99
    Partitions = 3
    Tables <- MCTables
    IndexTypes <- MCIndexTypes
    Bounds <- MCBounds
    Sums <- MCSums
    Aggregates <- MCAggregates
    IntMin <- MCIntMin
    IntMax <- MCIntMax
    Junk <- MCJunk
    MaxCommands <- MCMaxCommands
INVARIANTS
    TypeOK
    KeptIsSafe
    SelectsExact
    ValuesExact
    JoinsExact
    ScalarsExact
    IndexNearBounds
CONSTRAINT KeptSoFar
CHECK_DEADLOCK FALSE
