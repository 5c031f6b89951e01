SPECIFICATION Spec
CONSTANTS
    Tables = {t}
    Columns = {a, b}
    IndexTypes = {"CLUSTER_SORT", "UNCLUSTER_BTREE"}
    Rows = {1, 2}
    MaxLength = 2
SYMMETRY Symmetry
CONSTRAINT RulesKept
\* A database that cannot be opened again is the end.
CHECK_DEADLOCK FALSE
INVARIANTS
    TypeOK
    FoundIsSaved
