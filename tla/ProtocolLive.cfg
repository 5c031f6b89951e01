SPECIFICATION FairSpec
CONSTANTS
    two = two
    three = three
    long = long
    header = header
    empty = empty
    other = other
    Clients = {c1, c2}
    Results <- MCResults
    NumTuples <- MCNumTuples
    Column = Column
    Junk = Junk
    Files <- MCFiles
    Lines <- MCLines
    Headed <- MCHeaded
    Known <- MCKnown
    NoFile = NoFile
    PrintVec = 2
    TextVec = 2
    LoadVec = 2
    Capacity = 1
    MaxCommands = 1
\* The server may stop, and clients leave.
CHECK_DEADLOCK FALSE
PROPERTIES
    EveryCommandAnswered
