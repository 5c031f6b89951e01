----------------------------- MODULE Persistence -----------------------------
(***************************************************************************)
(* The database in memory and on disk.  A shutdown truncates the catalog,  *)
(* writes a file per column and one per index, and the catalog last: its   *)
(* lines are below a buffer of stdio (MAX_BASE_COL columns), which only    *)
(* the final fflush writes.  A startup reads what the catalog lists.       *)
(*                                                                         *)
(* The format of the files is left out.  A catalog is a function of table  *)
(* names, a column file the cells of the column, an index file the cells   *)
(* it was built from; a cell is the number of a row.  Rows are numbered by *)
(* their values in the column that has the index: a table is in the order  *)
(* a clustered index needs when its numbers ascend.  The database has one  *)
(* name, so that one that is created again finds the files of the old one. *)
(* How commands change data and indexes is not the matter here: Load and   *)
(* Delete stand for all that do.                                           *)
(***************************************************************************)
EXTENDS Naturals, Sequences, FiniteSets, Functions

CONSTANTS
    Tables, Columns,    \* their names
    IndexTypes,         \* the types indexes are created with
    Rows,               \* numbers of rows
    MaxLength           \* bound on the rows of a table

AllTypes == {"CLUSTER_BTREE", "CLUSTER_SORT", "UNCLUSTER_BTREE", "UNCLUSTER_SORT"}
ClusteredTypes == {"CLUSTER_BTREE", "CLUSTER_SORT"}

ASSUME PersistenceAssumption ==
    /\ IndexTypes \subseteq AllTypes
    /\ Rows \subseteq Nat \ {0}
    /\ MaxLength \in Nat
    /\ IsFiniteSet(Columns)

VARIABLES
    proc,       \* where the server is
    db,         \* current_db
    catalog,    \* the file dbcatalog
    file,       \* the other files
    todo,       \* files the shutdown has not come to
    opened,     \* files it truncated and has not written
    saved,      \* history: what the last complete shutdown saved
    kept        \* history: no file failed and no rule was broken

disk == <<catalog, file>>
vars == <<proc, db, disk, todo, opened, saved, kept>>

\* A column file, or one of an index; the type is part of the name.
Paths == Tables \X Columns \X ({"data"} \cup AllTypes)

\* An index: its state is "unset" until it is built, as malloc left it.
Index(type, state, of) == [type |-> type, state |-> state, of |-> of]
NoIndex == Index("NONE", "unset", <<>>)
Column(data, index) == [data |-> data, index |-> index]

\* A table: count columns were declared, those in DOMAIN col created.
Table(count, length, col) == [count |-> count, length |-> length, col |-> col]

\* Mistake: columns beyond those declared are created.
DefectComplete(t) == Cardinality(DOMAIN t.col) > t.count

Complete(t) == Cardinality(DOMAIN t.col) = t.count

Database(table) == [open |-> TRUE, table |-> table]
NoDb == [open |-> FALSE, table |-> <<>>]

InOrder(data) == \A i, j \in 1..Len(data) : i <= j => data[i] <= data[j]

File(state, cells) == [state |-> state, cells |-> cells]
Catalog(state, table) == [state |-> state, table |-> table]

Extend(f, x, y) == [z \in DOMAIN f \cup {x} |-> IF z = x THEN y ELSE f[z]]

Present == DOMAIN db.table
Created(t) == DOMAIN db.table[t].col
Col(t, c) == db.table[t].col[c]

-------------------------------------------------------------------------------
(* What files hold.                                                        *)

\* n cells: calloc left zeros behind the end.
Cells(data, n) == [j \in 1..n |-> IF j <= Len(data) THEN data[j] ELSE 0]

\* commit_column writes as many cells as the table has rows.
ColumnCells(t, c) == Cells(Col(t, c).data, db.table[t].length)

\* commit_index: what the pointers of the index lead to.
IndexFile(t, c) ==
    LET x == Col(t, c).index
    IN  IF x.state = "unset" THEN File("junk", <<>>) ELSE File("cells", x.of)

Content(p) == IF p[3] = "data" THEN File("cells", ColumnCells(p[1], p[2]))
              ELSE IndexFile(p[1], p[2])

\* A clustered sorted column is its own index.
FileTypes == AllTypes \ {"CLUSTER_SORT"}

FilesOf(t) ==
    {<<t, c, "data">> : c \in Created(t)} \cup
    {<<t, c, Col(t, c).index.type>> : c \in {x \in Created(t) : Col(t, x).index.type \in FileTypes}}

AllFiles == UNION {FilesOf(t) : t \in Present}

\* db_shutdown, commit_table: a table's line and a line for every column it was
\* declared with.
Lines ==
    [t \in Present |->
        [count |-> db.table[t].count,
         length |-> db.table[t].length,
         type |-> [c \in Created(t) |-> Col(t, c).index.type]]]

-------------------------------------------------------------------------------
(* What a startup makes of them.                                           *)

\* read_column_data
ReadColumn(t, c) ==
    IF file[<<t, c, "data">>].state = "absent" THEN <<>>
    ELSE Cells(file[<<t, c, "data">>].cells, catalog.table[t].length)

\* db_sort_clustered at a startup: the positions of the cells as they were read,
\* in order or not.
RestoredSort(t, c) == Index("CLUSTER_SORT", "built", ReadColumn(t, c))

\* read_index
ReadIndex(t, c) ==
    LET type == catalog.table[t].type[c]
        stored == file[<<t, c, type>>]
    IN  IF type = "NONE" THEN NoIndex
        ELSE IF type = "CLUSTER_SORT" THEN RestoredSort(t, c)
        ELSE Index(type, IF stored.state = "cells" THEN "built" ELSE "unset", stored.cells)

\* db_startup; a catalog without lines leaves no database.
Found ==
    IF catalog.state # "lines" THEN NoDb
    ELSE Database([t \in DOMAIN catalog.table |->
            Table(catalog.table[t].count, catalog.table[t].length,
                  [c \in DOMAIN catalog.table[t].type |->
                      Column(ReadColumn(t, c), ReadIndex(t, c))])])

\* What the client of a shutdown counts on: every column with all its rows, and
\* indexes built of them.
WantedIndex(t, c) ==
    IF Col(t, c).index.type = "NONE" THEN NoIndex
    ELSE Index(Col(t, c).index.type, "built", ColumnCells(t, c))

Wanted ==
    Database([t \in Present |->
        Table(db.table[t].count, db.table[t].length,
              [c \in Created(t) |-> Column(ColumnCells(t, c), WantedIndex(t, c))])])

-------------------------------------------------------------------------------
Init ==
    /\ proc = "off"
    /\ db = NoDb
    /\ catalog = Catalog("absent", <<>>)
    /\ file = [p \in Paths |-> File("absent", <<>>)]
    /\ todo = {}
    /\ opened = {}
    /\ saved = NoDb
    /\ kept = TRUE

Up == proc = "up"
Alive == proc \in {"up", "saving", "closed"}

-------------------------------------------------------------------------------
(* The process.                                                            *)

\* A table with a column that was declared and not created stops every startup:
\* its line has an empty name, which has_column takes for a duplicate.
Start ==
    /\ proc = "off"
    /\ IF \E t \in DOMAIN Found.table : ~Complete(Found.table[t])
       THEN proc' = "broken" /\ UNCHANGED db
       ELSE proc' = "up" /\ db' = Found
    /\ UNCHANGED <<disk, todo, opened, saved, kept>>

\* A crash, anywhere; or the end after a shutdown.
Stop ==
    /\ Alive
    /\ proc' = "off"
    /\ db' = NoDb
    /\ todo' = {}
    /\ opened' = {}
    /\ saved' = IF proc = "saving" THEN NoDb ELSE saved
    /\ UNCHANGED <<disk, kept>>

-------------------------------------------------------------------------------
(* Commands.                                                               *)

Work == Up /\ UNCHANGED <<proc, todo, opened, kept>>

\* db_add: a database that is open is dropped, with its catalog.
CreateDb ==
    /\ Work
    /\ db' = Database(<<>>)
    /\ IF db.open THEN catalog' = Catalog("absent", <<>>) /\ saved' = NoDb
       ELSE UNCHANGED <<catalog, saved>>
    /\ UNCHANGED file

Change(t, table) ==
    db' = Database(Extend(db.table, t, table)) /\ UNCHANGED <<disk, saved>>

CreateTable(t, n) ==
    /\ Work
    /\ db.open
    /\ t \notin Present
    /\ Change(t, Table(n, 0, <<>>))

\* Columns other than c of table t are as they were.
WithColumn(t, c, column) ==
    Table(db.table[t].count, db.table[t].length, Extend(db.table[t].col, c, column))

CreateColumn(t, c) ==
    /\ Work
    /\ t \in Present
    /\ c \notin Created(t)
    /\ ~Complete(db.table[t])
    /\ Change(t, WithColumn(t, c, Column(<<>>, NoIndex)))

\* Bound: one column of a table has an index, which may be created again.
CreateIndex(t, c, type) ==
    /\ Work
    /\ t \in Present
    /\ c \in Created(t)
    /\ Col(t, c).index.type # type
    /\ \A d \in Created(t) \ {c} : Col(t, d).index = NoIndex
    /\ Change(t, WithColumn(t, c, Column(Col(t, c).data, Index(type, "unset", <<>>))))

\* Rows go to tables all of whose columns are there and as long as the table.
Ready(t) ==
    /\ t \in Present
    /\ Complete(db.table[t])
    /\ \A c \in Created(t) : Len(Col(t, c).data) = db.table[t].length

\* All columns of t hold rows now, and the indexes follow.
Store(t, rows) ==
    Change(t, Table(db.table[t].count, Len(rows),
        [c \in Created(t) |->
            Column(rows, IF Col(t, c).index.type = "NONE" THEN NoIndex
                         ELSE Index(Col(t, c).index.type, "built", rows))]))

\* The rows of a table, which are those of any of its columns.
RowsOf(t) == Col(t, CHOOSE c \in Created(t) : TRUE).data

Clustered(t) == \E c \in Created(t) : Col(t, c).index.type \in ClusteredTypes

\* Mistake: the columns of a clustered index are left as they were appended.
DefectArranged(t, rows) == {rows}

\* db_create_index: building a clustered index sorts all columns by its own.
Arranged(t, rows) ==
    IF Clustered(t)
    THEN LET orders == Bijection(DOMAIN rows, DOMAIN rows)
         IN  {s \in {[j \in DOMAIN rows |-> rows[o[j]]] : o \in orders} : InOrder(s)}
    ELSE {rows}

Load(t, row) ==
    /\ Work
    /\ Ready(t)
    /\ db.table[t].length < MaxLength
    /\ \E rows \in Arranged(t, Append(RowsOf(t), row)) : Store(t, rows)

Delete(t) ==
    /\ Work
    /\ Ready(t)
    /\ db.table[t].length > 0
    /\ \A c \in Created(t) : Col(t, c).index = NoIndex \/ Col(t, c).index.state = "built"
    /\ Store(t, Tail(RowsOf(t)))

-------------------------------------------------------------------------------
(* Shutdown.                                                               *)

\* Rules: every declared column was created, and every index was built by a
\* load.  A clustered sorted index that was not, and has no file, does no harm
\* where the rows happen to be in order.
Savable ==
    \A t \in Present :
        /\ Complete(db.table[t])
        /\ \A c \in Created(t) :
              \/ Col(t, c).index.type = "NONE"
              \/ Col(t, c).index.state = "built"
              \/ Col(t, c).index.type = "CLUSTER_SORT" /\ InOrder(Col(t, c).data)

\* open_catalog("w"); the lines that follow stay in the buffer.
Truncated == Catalog("empty", <<>>)

Shutdown ==
    /\ Up
    /\ db.open
    /\ proc' = "saving"
    /\ catalog' = Truncated
    /\ todo' = AllFiles
    /\ kept' = (kept /\ Savable)
    /\ UNCHANGED <<db, file, opened, saved>>

\* The catalog cannot be opened: nothing is written, what the last shutdown
\* saved is still there, and the client is told all the same that this one did.
ShutdownFails ==
    /\ Up
    /\ db.open
    /\ proc' = "closed"
    /\ UNCHANGED <<db, disk, todo, opened, saved, kept>>

\* One file after the other, a column before its index; which table or column
\* comes first is left open.
NextFile(p) ==
    /\ proc = "saving"
    /\ opened = {}
    /\ p \in todo
    /\ p[3] # "data" => <<p[1], p[2], "data">> \notin todo

\* fopen truncates.
OpenFile(p) ==
    /\ NextFile(p)
    /\ file' = [file EXCEPT ![p] = File("cells", <<>>)]
    /\ todo' = todo \ {p}
    /\ opened' = {p}
    /\ UNCHANGED <<proc, db, catalog, saved, kept>>

\* A file that cannot be opened is left as it is, and a column's index with it.
SkipFile(p) ==
    /\ NextFile(p)
    /\ todo' = IF p[3] = "data" THEN {q \in todo : <<q[1], q[2]>> # <<p[1], p[2]>>}
               ELSE todo \ {p}
    /\ kept' = FALSE
    /\ UNCHANGED <<proc, db, disk, opened, saved>>

\* Following the pointers of an index that was never built stops the server or
\* writes something.
WriteFile(p) ==
    /\ proc = "saving"
    /\ p \in opened
    /\ file' = [file EXCEPT ![p] = Content(p)]
    /\ opened' = {}
    /\ UNCHANGED <<proc, db, catalog, todo, saved, kept>>

\* fflush of the catalog; the memory is free.
ShutdownEnds ==
    /\ proc = "saving"
    /\ todo = {} /\ opened = {}
    /\ proc' = "closed"
    /\ catalog' = Catalog("lines", Lines)
    /\ saved' = Wanted
    /\ db' = NoDb
    /\ UNCHANGED <<file, todo, opened, kept>>

-------------------------------------------------------------------------------
Command ==
    \/ CreateDb
    \/ \E t \in Tables :
          \/ \E n \in 1..Cardinality(Columns) : CreateTable(t, n)
          \/ \E c \in Columns : CreateColumn(t, c)
          \/ \E c \in Columns, type \in IndexTypes : CreateIndex(t, c, type)
          \/ \E row \in Rows : Load(t, row)
          \/ Delete(t)

Save ==
    \/ Shutdown \/ ShutdownFails \/ ShutdownEnds
    \/ \E p \in Paths : OpenFile(p) \/ SkipFile(p) \/ WriteFile(p)

Next == Start \/ Stop \/ Command \/ Save

Spec == Init /\ [][Next]_vars

-------------------------------------------------------------------------------
(* Properties.                                                             *)

Data == Seq(Rows \cup {0})
Indexes == [type : AllTypes \cup {"NONE"}, state : {"unset", "built"}, of : Data]
IsTable(t) ==
    /\ t = Table(t.count, t.length, t.col)
    /\ t.count \in Nat \ {0} /\ t.length \in Nat
    /\ t.col = [c \in DOMAIN t.col |-> t.col[c]]
    /\ DOMAIN t.col \subseteq Columns
    /\ \A c \in DOMAIN t.col : t.col[c] \in [data : Data, index : Indexes]
    /\ Cardinality(DOMAIN t.col) <= t.count
IsDb(d) ==
    /\ d = [open |-> d.open, table |-> d.table]
    /\ d.open \in BOOLEAN
    /\ DOMAIN d.table \subseteq Tables
    /\ \A t \in DOMAIN d.table : IsTable(d.table[t])
    /\ ~d.open => d = NoDb

\* Every variable keeps its type: no table has more columns than it was declared
\* with, and all files are those of columns.
TypeOK ==
    /\ proc \in {"off", "up", "saving", "closed", "broken"}
    /\ IsDb(db) /\ IsDb(saved)
    /\ catalog.state \in {"absent", "empty", "lines"}
    /\ file \in [Paths -> [state : {"absent", "cells", "junk"}, cells : Data]]
    /\ todo \subseteq Paths
    /\ opened \subseteq Paths
    /\ kept \in BOOLEAN

\* Indexes can be searched: each was built of the cells of its column, and the
\* cells of a clustered one, which is searched by halving, are in order.
Searchable(d) ==
    \A t \in DOMAIN d.table : \A c \in DOMAIN d.table[t].col :
        LET data == d.table[t].col[c].data
            index == d.table[t].col[c].index
        IN  \/ index.type = "NONE"
            \/ /\ index.state = "built"
               /\ index.of = data
               /\ index.type \in ClusteredTypes => InOrder(data)

\* Stable storage: whenever the server is started, it finds the database as the
\* last complete shutdown had it, with indexes that can be searched; or none, if
\* that database was dropped or a later shutdown was interrupted.  It never
\* finds a mixture of two.
FoundIsSaved ==
    kept => /\ proc # "broken"
            /\ Found = IF proc = "saving" THEN NoDb ELSE saved
            /\ Searchable(Found)
===============================================================================
