SPECIFICATION Spec
CONSTANTS
    Columns = {a, b, c}
    Handles = {x, y}
    Objects = {o1, o2, o3, o4, o5}
    Null = Null
    NoName = NoName
    MaxVPool = 5
    MaxBaseCol = 4
SYMMETRY Symmetry
CONSTRAINT RulesKept
\* The server stops at its first fault and after a shutdown.
CHECK_DEADLOCK FALSE
INVARIANTS
    TypeOK
PROPERTIES
    ColumnsHandedOver
    ImplementsEnvironment
