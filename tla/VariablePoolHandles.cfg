SPECIFICATION Spec
CONSTANTS
    Columns = {a}
    Handles = {w, x, y, z}
    Objects = {o1, o2, o3, o4, o5}
    Null = Null
    NoName = NoName
    MaxVPool = 5
    MaxBaseCol = 1
SYMMETRY Symmetry
CONSTRAINT RulesKept
\* The server stops at its first fault and after a shutdown.
CHECK_DEADLOCK FALSE
INVARIANTS
    RulesSuffice
    OneEntryPerName
    NothingLeaks
    IInv
