SPECIFICATION Spec
CONSTANTS
    two = two
    three = three
    long = long
    header = header
    empty = empty
    other = other
    Clients = {c1, c2}
    Results <- MCResults
    NumTuples <- MCNumTuples
    Column = Column
    Junk = Junk
    Files <- MCFiles
    Lines <- MCLines
    Headed <- MCHeaded
    Known <- MCKnown
    NoFile = NoFile
    PrintVec = 2
    TextVec = 2
    LoadVec = 2
    Capacity = 2
    MaxCommands = 2
SYMMETRY Symmetry
\* The server may stop, and clients leave.
CHECK_DEADLOCK FALSE
INVARIANTS
    TypeOK
    Lockstep
    IndexCurrent
PROPERTIES
    ImplementsService
