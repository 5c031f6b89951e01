--------------------------- MODULE PersistenceProofs ---------------------------
(***************************************************************************)
(* Proofs about Persistence, for any tables, columns and rows: a startup   *)
(* finds what the last complete shutdown saved.                            *)
(***************************************************************************)
EXTENDS Persistence, SequenceTheorems, FiniteSetTheorems, TLAPS

(* The inductive invariant *)

\* Every column declared is there.
AllComplete(d) == \A t \in DOMAIN d.table : Complete(d.table[t])

\* Rows are in all columns or in none, and built indexes are those of their
\* columns.
TableAgrees(t) ==
    /\ Complete(t) \/ t.length = 0
    /\ \A c \in DOMAIN t.col : Len(t.col[c].data) = t.length
    /\ \A c, d \in DOMAIN t.col : t.col[c].data = t.col[d].data
    /\ \A c \in DOMAIN t.col :
          t.col[c].index.state = "built" =>
              /\ t.col[c].index.of = t.col[c].data
              /\ t.col[c].index.type \in ClusteredTypes => InOrder(t.col[c].data)

IndexesAgree(d) == \A t \in DOMAIN d.table : TableAgrees(d.table[t])

\* The line of a table and those of its columns.
IsLine(l) ==
    /\ l.count \in Nat \ {0} /\ l.length \in Nat
    /\ DOMAIN l.type \subseteq Columns
    /\ Cardinality(DOMAIN l.type) <= l.count
    /\ \A c \in DOMAIN l.type : l.type[c] \in AllTypes \cup {"NONE"}

CatalogSound ==
    catalog.state = "lines" =>
        /\ DOMAIN catalog.table \subseteq Tables
        /\ \A t \in DOMAIN catalog.table : IsLine(catalog.table[t])

\* One file is open at a time, and only while files are written.
Pending ==
    /\ proc # "saving" => todo = {} /\ opened = {}
    /\ \A p, q \in opened : p = q

\* While files are written: the catalog is empty, the files still to write are
\* files of the database, and all others of it are as they should be.
Saving ==
    proc = "saving" =>
        /\ db.open
        /\ catalog = Truncated
        /\ todo \subseteq AllFiles /\ opened \subseteq AllFiles
        /\ kept => /\ Savable
                   /\ \A p \in AllFiles \ (todo \cup opened) : file[p] = Content(p)

\* The saved database can be loaded and searched, and memory has what the files
\* will.
KeptSound ==
    kept => /\ AllComplete(saved)
            /\ Searchable(saved)
            /\ IndexesAgree(saved)
            /\ IndexesAgree(db)

IInv ==
    /\ TypeOK
    /\ FoundIsSaved
    /\ CatalogSound
    /\ Pending
    /\ Saving
    /\ KeptSound
-------------------------------------------------------------------------------
(* Cells and rows *)

\* As many cells as the table has rows are written and read.
LEMMA CellsFacts ==
  ASSUME NEW data \in Data, NEW n \in Nat
  PROVE  /\ Cells(data, n) \in Data
         /\ Len(Cells(data, n)) = n
         /\ Cells(Cells(data, n), n) = Cells(data, n)
<1>1. Len(data) \in Nat /\ data \in [1..Len(data) -> Rows \cup {0}]
  BY LenProperties DEF Data
<1>2. Cells(data, n) \in [1..n -> Rows \cup {0}]
  BY <1>1 DEF Cells
<1>3. Cells(data, n) \in Seq(Rows \cup {0})
  BY <1>2, SeqDef
<1>4. Len(Cells(data, n)) = n
  BY <1>2, <1>3, LenProperties
<1>5. Cells(Cells(data, n), n) = Cells(data, n)
  <2>1. Cells(Cells(data, n), n) = [j \in 1..n |-> Cells(data, n)[j]]
    BY <1>4 DEF Cells
  <2> QED
    BY <1>2, <2>1
<1> QED
  BY <1>3, <1>4, <1>5 DEF Data

\* Rows that all stand in a column are its cells.
LEMMA CellsAll ==
  ASSUME NEW data \in Data
  PROVE  Len(data) \in Nat /\ Cells(data, Len(data)) = data
<1>1. Len(data) \in Nat /\ data \in [1..Len(data) -> Rows \cup {0}]
  BY LenProperties DEF Data
<1>2. Cells(data, Len(data)) = [j \in 1..Len(data) |-> data[j]]
  BY <1>1 DEF Cells
<1> QED
  BY <1>1, <1>2

LEMMA EmptyData == << >> \in Data
  BY EmptySeq DEF Data

LEMMA ColumnSetFinite ==
  ASSUME NEW D \in SUBSET Columns
  PROVE  IsFiniteSet(D) /\ Cardinality(D) \in Nat
  BY PersistenceAssumption, FS_Subset, FS_CardinalityType
-------------------------------------------------------------------------------
(* Types *)

LEMMA NoDbTyped == IsDb(NoDb) /\ AllComplete(NoDb) /\ IndexesAgree(NoDb) /\ Searchable(NoDb)
  BY DEF IsDb, NoDb, AllComplete, IndexesAgree, Searchable

LEMMA DatabaseTyped ==
  ASSUME NEW f, f = [t \in DOMAIN f |-> f[t]], DOMAIN f \subseteq Tables,
         \A t \in DOMAIN f : IsTable(f[t])
  PROVE  IsDb(Database(f))
  BY DEF IsDb, Database

LEMMA TableTyped ==
  ASSUME NEW n \in Nat \ {0}, NEW m \in Nat, NEW f, f = [c \in DOMAIN f |-> f[c]],
         DOMAIN f \subseteq Columns, Cardinality(DOMAIN f) <= n,
         \A c \in DOMAIN f : f[c] \in [data : Data, index : Indexes]
  PROVE  IsTable(Table(n, m, f))
  BY DEF IsTable, Table

LEMMA IndexTyped ==
  ASSUME NEW type \in AllTypes \cup {"NONE"}, NEW state \in {"unset", "built"},
         NEW of \in Data
  PROVE  Index(type, state, of) \in Indexes
  BY DEF Index, Indexes

LEMMA NoIndexTyped == NoIndex \in Indexes
  BY EmptyData, IndexTyped DEF NoIndex

LEMMA ColumnTyped ==
  ASSUME NEW data \in Data, NEW index \in Indexes
  PROVE  Column(data, index) \in [data : Data, index : Indexes]
  BY DEF Column

\* What memory holds of a table.
LEMMA TableFacts ==
  ASSUME TypeOK, NEW t \in Present
  PROVE  /\ t \in Tables
         /\ IsTable(db.table[t])
         /\ db.open
         /\ db.table[t].count \in Nat \ {0}
         /\ db.table[t].length \in Nat
         /\ Created(t) \subseteq Columns
         /\ Cardinality(Created(t)) \in Nat
         /\ Cardinality(Created(t)) <= db.table[t].count
<1>1. IsDb(db)
  BY DEF TypeOK
<1>2. t \in Tables /\ IsTable(db.table[t])
  BY <1>1 DEF IsDb, Present
<1>3. db.open
  BY <1>1 DEF IsDb, Present, NoDb
<1> QED
  BY <1>2, <1>3, ColumnSetFinite DEF IsTable, Created

LEMMA ColFacts ==
  ASSUME TypeOK, NEW t \in Present, NEW c \in Created(t)
  PROVE  /\ c \in Columns
         /\ Col(t, c).data \in Data
         /\ Col(t, c).index \in Indexes
         /\ Col(t, c) = Column(Col(t, c).data, Col(t, c).index)
         /\ Col(t, c).index.type \in AllTypes \cup {"NONE"}
         /\ Col(t, c).index.of \in Data
         /\ ColumnCells(t, c) \in Data
<1>1. IsTable(db.table[t]) /\ db.table[t].length \in Nat /\ c \in Columns
  BY TableFacts
<1>2. Col(t, c) \in [data : Data, index : Indexes]
  BY <1>1 DEF IsTable, Col, Created
<1>3. ColumnCells(t, c) \in Data
  BY <1>1, <1>2, CellsFacts DEF ColumnCells
<1> QED
  BY <1>1, <1>2, <1>3 DEF Indexes, Column

\* As long as a table agrees, a column's file holds the column.
LEMMA ColumnCellsAll ==
  ASSUME TypeOK, NEW t \in Present, NEW c \in Created(t), TableAgrees(db.table[t])
  PROVE  ColumnCells(t, c) = Col(t, c).data
<1>1. Len(Col(t, c).data) = db.table[t].length
  BY DEF TableAgrees, Created, Col
<1> QED
  BY <1>1, ColFacts, CellsAll DEF ColumnCells

\* The files of the database are files, and what is written is their type.
LEMMA FileFacts ==
  ASSUME TypeOK
  PROVE  /\ AllFiles \subseteq Paths
         /\ \A p \in AllFiles : /\ p[1] \in Present /\ p[2] \in Created(p[1])
                                /\ Content(p) \in [state : {"absent", "cells", "junk"}, cells : Data]
<1> SUFFICES ASSUME NEW t \in Present, NEW p \in FilesOf(t)
             PROVE  /\ p \in Paths
                    /\ p[1] \in Present /\ p[2] \in Created(p[1])
                    /\ Content(p) \in [state : {"absent", "cells", "junk"}, cells : Data]
  BY DEF AllFiles
<1>1. PICK c \in Created(t), k \in {"data"} \cup FileTypes : p = <<t, c, k>>
  BY DEF FilesOf
<1>2. p \in Paths
  BY <1>1, TableFacts, ColFacts DEF Paths, FileTypes
<1>3. Content(p) \in [state : {"absent", "cells", "junk"}, cells : Data]
  BY <1>1, ColFacts, EmptyData DEF Content, IndexFile, File
<1> QED
  BY <1>1, <1>2, <1>3
-------------------------------------------------------------------------------
(* What a startup finds *)

\* Files that are there are read into a database, whatever they hold.
LEMMA FoundTyped ==
  ASSUME TypeOK, CatalogSound
  PROVE  IsDb(Found)
<1>1. CASE catalog.state # "lines"
  BY <1>1, NoDbTyped DEF Found
<1>2. CASE catalog.state = "lines"
  <2> DEFINE col(t) == [c \in DOMAIN catalog.table[t].type |->
                           Column(ReadColumn(t, c), ReadIndex(t, c))]
             table(t) == Table(catalog.table[t].count, catalog.table[t].length, col(t))
             f == [t \in DOMAIN catalog.table |-> table(t)]
  <2>1. ASSUME NEW t \in DOMAIN catalog.table PROVE t \in Tables /\ IsTable(table(t))
    <3>1. t \in Tables /\ IsLine(catalog.table[t])
      BY <1>2 DEF CatalogSound
    <3>2. ASSUME NEW c \in DOMAIN catalog.table[t].type
          PROVE  Column(ReadColumn(t, c), ReadIndex(t, c)) \in [data : Data, index : Indexes]
      <4> DEFINE type == catalog.table[t].type[c]
      <4>1. /\ c \in Columns /\ type \in AllTypes \cup {"NONE"}
            /\ catalog.table[t].length \in Nat
        BY <3>1 DEF IsLine
      <4>2. ASSUME NEW k \in {"data"} \cup AllTypes
            PROVE  file[<<t, c, k>>] \in [state : {"absent", "cells", "junk"}, cells : Data]
        <5>1. <<t, c, k>> \in Paths
          BY <3>1, <4>1 DEF Paths
        <5> QED
          BY <5>1 DEF TypeOK
      <4>3. ReadColumn(t, c) \in Data
        BY <4>1, <4>2, CellsFacts, EmptyData DEF ReadColumn
      <4>4. ReadIndex(t, c) \in Indexes
        <5>1. CASE type = "NONE"
          BY <5>1, NoIndexTyped DEF ReadIndex
        <5>2. CASE type = "CLUSTER_SORT"
          BY <5>2, <4>1, <4>3, IndexTyped DEF ReadIndex, RestoredSort
        <5>3. CASE type \notin {"NONE", "CLUSTER_SORT"}
          <6>1. file[<<t, c, type>>].cells \in Data
            BY <5>3, <4>1, <4>2
          <6> QED
            BY <5>3, <4>1, <6>1, IndexTyped DEF ReadIndex
        <5> QED
          BY <5>1, <5>2, <5>3
      <4> QED
        BY <4>3, <4>4, ColumnTyped
    <3>3. DOMAIN col(t) = DOMAIN catalog.table[t].type
      OBVIOUS
    <3> HIDE DEF col
    <3>4. IsTable(Table(catalog.table[t].count, catalog.table[t].length, col(t)))
      <4>1. \A c \in DOMAIN col(t) : col(t)[c] \in [data : Data, index : Indexes]
        BY <3>2, <3>3 DEF col
      <4>2. col(t) = [c \in DOMAIN col(t) |-> col(t)[c]]
        BY DEF col
      <4> QED
        BY <3>1, <3>3, <4>1, <4>2, TableTyped DEF IsLine
    <3> QED
      BY <3>1, <3>4
  <2>2. Found = Database(f)
    BY <1>2 DEF Found
  <2>3. DOMAIN f = DOMAIN catalog.table /\ f = [t \in DOMAIN f |-> f[t]]
    OBVIOUS
  <2>4. \A t \in DOMAIN f : f[t] = table(t)
    OBVIOUS
  <2> HIDE DEF f, table
  <2>5. IsDb(Database(f))
    BY <2>1, <2>3, <2>4, DatabaseTyped
  <2> QED
    BY <2>2, <2>5
<1> QED
  BY <1>1, <1>2

\* The database a shutdown wants is one.
LEMMA WantedTyped ==
  ASSUME TypeOK
  PROVE  IsDb(Wanted)
<1> DEFINE col(t) == [c \in Created(t) |-> Column(ColumnCells(t, c), WantedIndex(t, c))]
           table(t) == Table(db.table[t].count, db.table[t].length, col(t))
           f == [t \in Present |-> table(t)]
<1>1. ASSUME NEW t \in Present, NEW c \in Created(t)
      PROVE  WantedIndex(t, c) \in Indexes
  BY ColFacts, IndexTyped, NoIndexTyped DEF WantedIndex
<1>2. ASSUME NEW t \in Present PROVE IsTable(table(t))
  <2>1. DOMAIN col(t) = Created(t) /\ col(t) = [c \in DOMAIN col(t) |-> col(t)[c]]
    OBVIOUS
  <2>2. \A c \in Created(t) : col(t)[c] = Column(ColumnCells(t, c), WantedIndex(t, c))
    OBVIOUS
  <2> HIDE DEF col
  <2>3. \A c \in DOMAIN col(t) : col(t)[c] \in [data : Data, index : Indexes]
    BY <2>1, <2>2, <1>1, ColFacts, ColumnTyped
  <2> QED
    BY <2>1, <2>3, TableFacts, TableTyped
<1>3. Wanted = Database(f)
  BY DEF Wanted
<1>4. DOMAIN f = Present /\ f = [t \in DOMAIN f |-> f[t]] /\ \A t \in Present : f[t] = table(t)
  OBVIOUS
<1> HIDE DEF f, table
<1> QED
  BY <1>2, <1>3, <1>4, TableFacts, DatabaseTyped

\* An index that a shutdown may save is built over a column in the order it
\* needs, now or at the next startup.
LEMMA SavableOrder ==
  ASSUME TypeOK, Savable, NEW t \in Present, NEW c \in Created(t), TableAgrees(db.table[t]),
         Col(t, c).index.type \in ClusteredTypes
  PROVE  InOrder(Col(t, c).data)
<1>1. Col(t, c).index.type # "NONE"
  BY DEF ClusteredTypes
<1>2. CASE Col(t, c).index.state = "built"
  BY <1>2 DEF TableAgrees, Created, Col
<1>3. CASE Col(t, c).index.state # "built"
  BY <1>1, <1>3 DEF Savable
<1> QED
  BY <1>2, <1>3

\* What may be saved can be loaded, and its indexes can be searched.
LEMMA WantedSound ==
  ASSUME TypeOK, Savable, IndexesAgree(db)
  PROVE  AllComplete(Wanted) /\ IndexesAgree(Wanted) /\ Searchable(Wanted)
<1> DEFINE col(t) == [c \in Created(t) |-> Column(ColumnCells(t, c), WantedIndex(t, c))]
           table(t) == Table(db.table[t].count, db.table[t].length, col(t))
<1>1. ASSUME NEW t \in Present
      PROVE  /\ Complete(table(t))
             /\ TableAgrees(table(t))
             /\ \A c \in Created(t) :
                   \/ WantedIndex(t, c).type = "NONE"
                   \/ /\ WantedIndex(t, c).state = "built"
                      /\ WantedIndex(t, c).of = ColumnCells(t, c)
                      /\ WantedIndex(t, c).type \in ClusteredTypes => InOrder(ColumnCells(t, c))
  <2>1. /\ DOMAIN col(t) = Created(t)
        /\ \A c \in Created(t) : col(t)[c] = Column(ColumnCells(t, c), WantedIndex(t, c))
    OBVIOUS
  <2> HIDE DEF col
  <2>2. TableAgrees(db.table[t])
    BY DEF IndexesAgree, Present
  <2>3. \A c \in Created(t) : ColumnCells(t, c) = Col(t, c).data
    BY <2>2, ColumnCellsAll
  <2>4. Complete(table(t))
    BY <2>1 DEF Savable, Complete, Table, Created
  <2>5. ASSUME NEW c \in Created(t)
        PROVE  IF Col(t, c).index.type = "NONE"
               THEN WantedIndex(t, c).type = "NONE" /\ WantedIndex(t, c).state = "unset"
               ELSE /\ WantedIndex(t, c).state = "built"
                    /\ WantedIndex(t, c).of = ColumnCells(t, c)
                    /\ WantedIndex(t, c).type \in ClusteredTypes => InOrder(ColumnCells(t, c))
    <3>1. CASE Col(t, c).index.type = "NONE"
      BY <3>1 DEF WantedIndex, NoIndex, Index
    <3>2. CASE Col(t, c).index.type # "NONE"
      <4>1. /\ WantedIndex(t, c).type = Col(t, c).index.type
            /\ WantedIndex(t, c).state = "built"
            /\ WantedIndex(t, c).of = ColumnCells(t, c)
        BY <3>2 DEF WantedIndex, Index
      <4>2. Col(t, c).index.type \in ClusteredTypes => InOrder(ColumnCells(t, c))
        BY <2>2, <2>3, SavableOrder
      <4> QED
        BY <3>2, <4>1, <4>2
    <3> QED
      BY <3>1, <3>2
  <2>6. TableAgrees(table(t))
    <3>1. /\ table(t).col = col(t) /\ table(t).length = db.table[t].length
          /\ \A c \in Created(t) : /\ col(t)[c].data = ColumnCells(t, c)
                                   /\ col(t)[c].index = WantedIndex(t, c)
      BY <2>1 DEF Table, Column
    <3>2. \A c \in Created(t) : Len(ColumnCells(t, c)) = db.table[t].length
      BY <2>2, <2>3 DEF TableAgrees, Created, Col
    <3>3. \A c, d \in Created(t) : ColumnCells(t, c) = ColumnCells(t, d)
      BY <2>2, <2>3 DEF TableAgrees, Created, Col
    <3> HIDE DEF table
    <3> QED
      BY <2>1, <2>4, <2>5, <3>1, <3>2, <3>3 DEF TableAgrees
  <2> QED
    BY <2>4, <2>5, <2>6
<1>2. /\ DOMAIN Wanted.table = Present
      /\ \A t \in Present : /\ Wanted.table[t] = table(t)
                            /\ DOMAIN Wanted.table[t].col = Created(t)
                            /\ \A c \in Created(t) :
                                  /\ Wanted.table[t].col[c].data = ColumnCells(t, c)
                                  /\ Wanted.table[t].col[c].index = WantedIndex(t, c)
  BY DEF Wanted, Database, Table, Column
<1> HIDE DEF table
<1>3. AllComplete(Wanted) /\ IndexesAgree(Wanted)
  BY <1>1, <1>2 DEF AllComplete, IndexesAgree
<1>4. Searchable(Wanted)
  BY <1>1, <1>2 DEF Searchable
<1> QED
  BY <1>3, <1>4

\* Once every file holds what it should, the catalog makes them the database.
LEMMA FoundIsWanted ==
  ASSUME TypeOK, Savable, IndexesAgree(db),
         \A p \in AllFiles : file[p] = Content(p),
         catalog' = Catalog("lines", Lines), file' = file
  PROVE  Found' = Wanted
<1>1. ASSUME NEW t \in Present, NEW c \in Created(t)
      PROVE  /\ ReadColumn(t, c)' = ColumnCells(t, c)
             /\ ReadIndex(t, c)' = WantedIndex(t, c)
  <2> DEFINE type == Col(t, c).index.type
  <2>1. /\ catalog'.table[t].length = db.table[t].length
        /\ catalog'.table[t].type[c] = type
    BY DEF Catalog, Lines
  <2>2. file[<<t, c, "data">>] = File("cells", ColumnCells(t, c))
    <3>1. <<t, c, "data">> \in AllFiles
      BY DEF AllFiles, FilesOf
    <3> QED
      BY <3>1 DEF Content
  <2>3. ReadColumn(t, c)' = ColumnCells(t, c)
    <3>1. Cells(ColumnCells(t, c), db.table[t].length) = ColumnCells(t, c)
      BY ColFacts, TableFacts, CellsFacts DEF ColumnCells
    <3> QED
      BY <2>1, <2>2, <3>1 DEF ReadColumn, File
  <2>4. CASE type = "NONE"
    BY <2>1, <2>3, <2>4 DEF ReadIndex, WantedIndex
  <2>5. CASE type = "CLUSTER_SORT"
    BY <2>1, <2>3, <2>5 DEF ReadIndex, RestoredSort, WantedIndex
  <2>6. CASE type \notin {"NONE", "CLUSTER_SORT"}
    <3>1. type \in FileTypes
      BY <2>6, ColFacts DEF FileTypes
    <3>2. <<t, c, type>> \in AllFiles
      BY <3>1 DEF AllFiles, FilesOf
    <3>3. Col(t, c).index.state = "built" /\ Col(t, c).index.of = ColumnCells(t, c)
      <4>1. TableAgrees(db.table[t])
        BY DEF IndexesAgree, Present
      <4>2. Col(t, c).index.state = "built"
        BY <2>6, <3>1 DEF Savable
      <4>3. Col(t, c).index.of = Col(t, c).data
        BY <4>1, <4>2 DEF TableAgrees, Col, Created
      <4> QED
        BY <4>1, <4>2, <4>3, ColumnCellsAll
    <3>4. type # "data"
      BY <3>1 DEF FileTypes, AllTypes
    <3>5. file[<<t, c, type>>] = File("cells", ColumnCells(t, c))
      BY <3>2, <3>3, <3>4 DEF Content, IndexFile
    <3> QED
      BY <2>1, <2>3, <2>6, <3>5 DEF ReadIndex, WantedIndex, File
  <2> QED
    BY <2>3, <2>4, <2>5, <2>6
<1>2. /\ catalog'.state = "lines"
      /\ DOMAIN catalog'.table = Present
      /\ \A t \in Present : /\ catalog'.table[t].count = db.table[t].count
                            /\ catalog'.table[t].length = db.table[t].length
                            /\ DOMAIN catalog'.table[t].type = Created(t)
  BY DEF Catalog, Lines
<1> QED
  BY <1>1, <1>2 DEF Found, Wanted
-------------------------------------------------------------------------------
(* Commands *)

LEMMA DiskKept ==
  ASSUME UNCHANGED disk
  PROVE  catalog' = catalog /\ file' = file /\ Found' = Found
  BY DEF disk, Found, ReadColumn, ReadIndex, RestoredSort

\* A table that is changed in memory only.
LEMMA ChangeKeeps ==
  ASSUME IInv, Work, NEW t \in Tables, NEW table, Change(t, table),
         IsTable(table), kept => TableAgrees(table)
  PROVE  IInv'
<1> DEFINE f == Extend(db.table, t, table)
<1>1. /\ DOMAIN f = Present \cup {t}
      /\ f = [u \in DOMAIN f |-> f[u]]
      /\ \A u \in DOMAIN f : f[u] = IF u = t THEN table ELSE db.table[u]
  BY DEF Extend, Present
<1>2. /\ proc = "up" /\ proc' = proc /\ todo' = todo /\ opened' = opened /\ kept' = kept
      /\ saved' = saved /\ db' = Database(f) /\ catalog' = catalog /\ file' = file
      /\ Found' = Found
  BY DiskKept DEF Work, Up, Change
<1> HIDE DEF f
<1>3. IsDb(db')
  <2>1. DOMAIN f \subseteq Tables /\ \A u \in DOMAIN f : IsTable(f[u])
    BY <1>1, TableFacts DEF IInv
  <2> QED
    BY <1>1, <1>2, <2>1, DatabaseTyped
<1>4. TypeOK'
  BY <1>2, <1>3 DEF IInv, TypeOK
<1>5. kept => IndexesAgree(db')
  BY <1>1, <1>2 DEF IInv, KeptSound, IndexesAgree, Database, Present
<1> QED
  BY <1>2, <1>4, <1>5 DEF IInv, FoundIsSaved, CatalogSound, Pending, Saving, KeptSound

\* A table with one more column, or another one.
LEMMA WithColumnFacts ==
  ASSUME IInv, NEW t \in Present, NEW c \in Columns, NEW data \in Data, NEW index \in Indexes,
         index.state # "built",
         \/ c \in Created(t) /\ data = Col(t, c).data
         \/ ~Complete(db.table[t]) /\ data = <<>>
  PROVE  LET table == WithColumn(t, c, Column(data, index))
         IN  IsTable(table) /\ (kept => TableAgrees(table))
<1> DEFINE column == Column(data, index)
           col == Extend(db.table[t].col, c, column)
           table == WithColumn(t, c, column)
<1>1. /\ DOMAIN col = Created(t) \cup {c}
      /\ col = [d \in DOMAIN col |-> col[d]]
      /\ \A d \in DOMAIN col : col[d] = IF d = c THEN column ELSE Col(t, d)
  BY DEF Extend, Created, Col
<1>2. TypeOK
  BY DEF IInv
<1>3. Cardinality(Created(t) \cup {c}) <= db.table[t].count
  <2>1. IsFiniteSet(Created(t)) /\ Cardinality(Created(t)) \in Nat
    BY <1>2, TableFacts, ColumnSetFinite
  <2>2. Cardinality(Created(t) \cup {c}) =
            IF c \in Created(t) THEN Cardinality(Created(t)) ELSE Cardinality(Created(t)) + 1
    BY <2>1, FS_AddElement
  <2>3. CASE c \in Created(t)
    BY <1>2, <2>2, <2>3, TableFacts
  <2>4. CASE c \notin Created(t)
    <3>1. Cardinality(Created(t)) # db.table[t].count
      BY <2>4 DEF Complete, Created
    <3> QED
      BY <1>2, <2>1, <2>2, <2>4, <3>1, TableFacts
  <2> QED
    BY <2>3, <2>4
<1>4. table = Table(db.table[t].count, db.table[t].length, col)
  BY DEF WithColumn
<1> HIDE DEF col, column
<1>5. \A d \in DOMAIN col : col[d] \in [data : Data, index : Indexes]
  <2>1. column \in [data : Data, index : Indexes]
    BY ColumnTyped DEF column
  <2>2. \A d \in Created(t) : Col(t, d) \in [data : Data, index : Indexes]
    BY <1>2, ColFacts, ColumnTyped
  <2> QED
    BY <1>1, <2>1, <2>2
<1>6. IsTable(Table(db.table[t].count, db.table[t].length, col))
  BY <1>1, <1>2, <1>3, <1>5, TableFacts, TableTyped
<1>7. ASSUME kept PROVE TableAgrees(Table(db.table[t].count, db.table[t].length, col))
  <2> DEFINE new == Table(db.table[t].count, db.table[t].length, col)
  <2>1. TableAgrees(db.table[t])
    BY <1>7 DEF IInv, KeptSound, IndexesAgree, Present
  <2>2. /\ new.count = db.table[t].count /\ new.length = db.table[t].length /\ new.col = col
        /\ column.data = data /\ column.index = index
    BY DEF Table, Column, column
  <2> HIDE DEF new
  <2>3. /\ \A d \in Created(t) : Len(Col(t, d).data) = db.table[t].length
        /\ \A d, e \in Created(t) : Col(t, d).data = Col(t, e).data
    BY <2>1 DEF TableAgrees, Created, Col
  <2>4. \A d \in DOMAIN col : /\ Len(col[d].data) = db.table[t].length
                              /\ \A e \in DOMAIN col : col[d].data = col[e].data
    <3>1. CASE c \in Created(t) /\ data = Col(t, c).data
      <4>1. \A d \in DOMAIN col : d \in Created(t) /\ col[d].data = Col(t, d).data
        BY <1>1, <2>2, <3>1
      <4> QED
        BY <2>3, <4>1
    <3>2. CASE ~Complete(db.table[t]) /\ data = <<>>
      <4>1. db.table[t].length = 0
        BY <2>1, <3>2 DEF TableAgrees
      <4>2. ASSUME NEW d \in Created(t) PROVE Col(t, d).data = <<>>
        BY <1>2, <2>3, <4>1, ColFacts, EmptySeq DEF Data
      <4>3. \A d \in DOMAIN col : col[d].data = <<>>
        BY <1>1, <2>2, <3>2, <4>2
      <4>4. Len(<<>>) = 0
        BY EmptySeq
      <4> QED
        BY <4>1, <4>3, <4>4
    <3> QED
      BY <3>1, <3>2
  <2>5. Complete(new) \/ new.length = 0
    <3>1. CASE c \in Created(t)
      <4>1. DOMAIN col = Created(t)
        BY <1>1, <3>1
      <4> QED
        BY <2>1, <2>2, <4>1 DEF TableAgrees, Complete, Created
    <3>2. CASE c \notin Created(t)
      BY <2>1, <2>2, <3>2 DEF TableAgrees
    <3> QED
      BY <3>1, <3>2
  <2>6. ASSUME NEW d \in DOMAIN col, col[d].index.state = "built"
        PROVE  /\ col[d].index.of = col[d].data
               /\ col[d].index.type \in ClusteredTypes => InOrder(col[d].data)
    <3>1. d # c
      BY <1>1, <2>2, <2>6
    <3>2. d \in Created(t) /\ col[d] = Col(t, d)
      BY <1>1, <3>1
    <3> QED
      BY <2>1, <2>6, <3>2 DEF TableAgrees, Created, Col
  <2>7. TableAgrees(new)
    BY <2>2, <2>4, <2>5, <2>6 DEF TableAgrees
  <2> QED
    BY <2>7 DEF new
<1> QED
  BY <1>4, <1>6, <1>7 DEF column

\* A table all of whose columns hold the same rows.
LEMMA StoreKeeps ==
  ASSUME IInv, Work, NEW t \in Present, Complete(db.table[t]), NEW rows \in Data, Store(t, rows),
         kept /\ Clustered(t) => InOrder(rows)
  PROVE  IInv'
<1> DEFINE index(c) == IF Col(t, c).index.type = "NONE" THEN NoIndex
                       ELSE Index(Col(t, c).index.type, "built", rows)
           col == [c \in Created(t) |-> Column(rows, index(c))]
           table == Table(db.table[t].count, Len(rows), col)
<1>1. TypeOK
  BY DEF IInv
<1>2. ASSUME NEW c \in Created(t) PROVE index(c) \in Indexes
  BY <1>1, ColFacts, IndexTyped, NoIndexTyped
<1>3. DOMAIN col = Created(t) /\ \A c \in Created(t) : col[c] = Column(rows, index(c))
  OBVIOUS
<1>4. IsTable(table)
  <2>1. \A c \in Created(t) : col[c] \in [data : Data, index : Indexes]
    BY <1>2, <1>3, ColumnTyped
  <2>2. col = [c \in DOMAIN col |-> col[c]]
    OBVIOUS
  <2> HIDE DEF col
  <2> QED
    BY <1>1, <1>3, <2>1, <2>2, CellsAll, TableFacts, TableTyped
<1>5. ASSUME kept PROVE TableAgrees(table)
  <2>1. ASSUME NEW c \in Created(t), index(c).state = "built"
        PROVE  index(c).of = rows /\ (index(c).type \in ClusteredTypes => InOrder(rows))
    <3>1. Col(t, c).index.type # "NONE" /\ index(c) = Index(Col(t, c).index.type, "built", rows)
      BY <2>1 DEF Index, NoIndex
    <3>2. Col(t, c).index.type \in ClusteredTypes => Clustered(t)
      BY DEF Clustered
    <3> QED
      BY <1>5, <3>1, <3>2 DEF Index
  <2>2. \A c \in Created(t) : col[c].data = rows /\ col[c].index = index(c)
    BY <1>3 DEF Column
  <2>3. table.count = db.table[t].count /\ table.length = Len(rows) /\ table.col = col
    BY DEF Table
  <2> HIDE DEF table, col, index
  <2>4. Complete(table)
    BY <1>3, <2>3 DEF Complete, Created
  <2> QED
    BY <1>3, <2>1, <2>2, <2>3, <2>4 DEF TableAgrees
<1>6. t \in Tables /\ Change(t, table)
  BY <1>1, TableFacts DEF Store
<1> QED
  BY <1>4, <1>5, <1>6, ChangeKeeps

\* Load and Delete start from the rows the table has.
LEMMA ReadyFacts ==
  ASSUME TypeOK, NEW t \in Tables, Ready(t)
  PROVE  t \in Present /\ RowsOf(t) \in Data /\ Len(RowsOf(t)) = db.table[t].length
<1>1. t \in Present /\ Cardinality(Created(t)) # 0
  BY TableFacts DEF Ready, Complete, Created
<1>2. Created(t) # {}
  BY <1>1, FS_EmptySet
<1>3. PICK c \in Created(t) : RowsOf(t) = Col(t, c).data
  BY <1>2 DEF RowsOf
<1> QED
  BY <1>1, <1>3, ColFacts DEF Ready

\* A load keeps the rows, and sorts them for a clustered index.
LEMMA ArrangedFacts ==
  ASSUME NEW t, NEW rows \in Data, NEW s \in Arranged(t, rows)
  PROVE  s \in Data /\ (Clustered(t) => InOrder(s))
<1>1. CASE ~Clustered(t)
  BY <1>1 DEF Arranged
<1>2. CASE Clustered(t)
  <2>1. rows \in [1..Len(rows) -> Rows \cup {0}] /\ Len(rows) \in Nat
    BY LenProperties DEF Data
  <2>2. PICK o \in Bijection(DOMAIN rows, DOMAIN rows) :
            s = [j \in DOMAIN rows |-> rows[o[j]]] /\ InOrder(s)
    BY <1>2 DEF Arranged
  <2>3. o \in [1..Len(rows) -> 1..Len(rows)]
    BY <2>1, <2>2 DEF Bijection, Injection
  <2>4. s \in [1..Len(rows) -> Rows \cup {0}]
    BY <2>1, <2>2, <2>3
  <2>5. s \in Seq(Rows \cup {0})
    BY <2>1, <2>4, SeqDef
  <2> QED
    BY <2>2, <2>5 DEF Data
<1> QED
  BY <1>1, <1>2

\* Rows stay in order when the first is deleted.
LEMMA TailInOrder ==
  ASSUME NEW rows \in Data, Len(rows) > 0, InOrder(rows)
  PROVE  InOrder(Tail(rows))
<1>1. /\ Len(rows) \in Nat
      /\ Len(Tail(rows)) = Len(rows) - 1
      /\ \A j \in 1..Len(Tail(rows)) : Tail(rows)[j] = rows[j + 1]
  BY HeadTailProperties, EmptySeq, LenProperties DEF Data
<1> QED
  BY <1>1 DEF InOrder

LEMMA CreateDbKeeps ==
  ASSUME IInv, CreateDb
  PROVE  IInv'
<1>1. /\ proc = "up" /\ proc' = proc /\ todo' = todo /\ opened' = opened /\ kept' = kept
      /\ db' = Database(<<>>) /\ file' = file
  BY DEF CreateDb, Work, Up
<1>2. IsDb(db') /\ IndexesAgree(db')
  BY <1>1 DEF IsDb, Database, IndexesAgree
<1>3. CASE db.open
  <2>1. catalog' = Catalog("absent", <<>>) /\ saved' = NoDb
    BY <1>3 DEF CreateDb
  <2>2. Found' = NoDb /\ CatalogSound'
    BY <2>1 DEF Found, Catalog, CatalogSound, NoDb
  <2>3. TypeOK'
    BY <1>1, <1>2, <2>1, NoDbTyped DEF IInv, TypeOK, Catalog
  <2> QED
    BY <1>1, <1>2, <2>1, <2>2, <2>3, NoDbTyped DEF IInv, FoundIsSaved, Pending, Saving, KeptSound
<1>4. CASE ~db.open
  <2>1. catalog' = catalog /\ saved' = saved
    BY <1>4 DEF CreateDb
  <2>2. Found' = Found
    BY <1>1, <2>1, DiskKept DEF disk
  <2>3. TypeOK'
    BY <1>1, <1>2, <2>1 DEF IInv, TypeOK
  <2> QED
    BY <1>1, <1>2, <2>1, <2>2, <2>3 DEF IInv, FoundIsSaved, CatalogSound, Pending, Saving, KeptSound
<1> QED
  BY <1>3, <1>4

LEMMA CommandKeeps ==
  ASSUME IInv, Command
  PROVE  IInv'
<1> TypeOK
  BY DEF IInv
<1>1. CASE CreateDb
  BY <1>1, CreateDbKeeps
<1>2. ASSUME NEW t \in Tables, NEW n \in 1..Cardinality(Columns), CreateTable(t, n)
      PROVE  IInv'
  <2>1. Cardinality(Columns) \in Nat
    BY PersistenceAssumption, FS_CardinalityType
  <2>2. IsTable(Table(n, 0, <<>>)) /\ TableAgrees(Table(n, 0, <<>>))
    BY <2>1, FS_EmptySet DEF IsTable, Table, TableAgrees
  <2> QED
    BY <1>2, <2>2, ChangeKeeps DEF CreateTable
<1>3. ASSUME NEW t \in Tables, NEW c \in Columns, CreateColumn(t, c)
      PROVE  IInv'
  <2>1. NoIndex.state # "built"
    BY DEF NoIndex, Index
  <2>2. Work /\ t \in Present /\ ~Complete(db.table[t])
        /\ Change(t, WithColumn(t, c, Column(<<>>, NoIndex)))
    BY <1>3 DEF CreateColumn
  <2> QED
    BY <2>1, <2>2, EmptyData, NoIndexTyped, WithColumnFacts, ChangeKeeps
<1>4. ASSUME NEW t \in Tables, NEW c \in Columns, NEW type \in IndexTypes, CreateIndex(t, c, type)
      PROVE  IInv'
  <2>1. Index(type, "unset", <<>>) \in Indexes /\ Index(type, "unset", <<>>).state # "built"
    BY EmptyData, IndexTyped, PersistenceAssumption DEF Index
  <2>2. Work /\ t \in Present /\ c \in Created(t)
        /\ Change(t, WithColumn(t, c, Column(Col(t, c).data, Index(type, "unset", <<>>))))
    BY <1>4 DEF CreateIndex
  <2>3. Col(t, c).data \in Data
    BY <2>2, ColFacts
  <2> QED
    BY <2>1, <2>2, <2>3, WithColumnFacts, ChangeKeeps
<1>5. ASSUME NEW t \in Tables, NEW row \in Rows, Load(t, row)
      PROVE  IInv'
  <2>1. t \in Present /\ RowsOf(t) \in Data
    BY <1>5, ReadyFacts DEF Load
  <2>2. Append(RowsOf(t), row) \in Data
    BY <2>1, AppendProperties DEF Data
  <2>3. PICK rows \in Arranged(t, Append(RowsOf(t), row)) : Store(t, rows)
    BY <1>5 DEF Load
  <2>4. rows \in Data /\ (Clustered(t) => InOrder(rows))
    BY <2>2, ArrangedFacts
  <2> QED
    BY <1>5, <2>1, <2>3, <2>4, StoreKeeps DEF Load, Ready
<1>6. ASSUME NEW t \in Tables, Delete(t)
      PROVE  IInv'
  <2>1. t \in Present /\ RowsOf(t) \in Data /\ Len(RowsOf(t)) > 0
    BY <1>6, ReadyFacts DEF Delete
  <2>2. Tail(RowsOf(t)) \in Data
    BY <2>1, HeadTailProperties, EmptySeq, LenProperties DEF Data
  <2>3. ASSUME kept, Clustered(t) PROVE InOrder(Tail(RowsOf(t)))
    <3>1. TableAgrees(db.table[t])
      BY <2>1, <2>3 DEF IInv, KeptSound, IndexesAgree, Present
    <3>2. PICK c \in Created(t) : Col(t, c).index.type \in ClusteredTypes
      BY <2>3 DEF Clustered
    <3>3. Col(t, c).index.state = "built"
      BY <1>6, <3>2 DEF Delete, NoIndex, Index, ClusteredTypes
    <3>4. InOrder(Col(t, c).data)
      BY <3>1, <3>2, <3>3 DEF TableAgrees, Created, Col
    <3>5. RowsOf(t) = Col(t, c).data
      BY <3>1, <3>2 DEF RowsOf, TableAgrees, Created, Col
    <3> QED
      BY <2>1, <3>4, <3>5, TailInOrder
  <2> QED
    BY <1>6, <2>1, <2>2, <2>3, StoreKeeps DEF Delete, Ready
<1> QED
  BY <1>1, <1>2, <1>3, <1>4, <1>5, <1>6 DEF Command
-------------------------------------------------------------------------------
(* Startup, crashes and shutdown *)

LEMMA StartKeeps ==
  ASSUME IInv, Start
  PROVE  IInv'
<1>1. /\ proc = "off" /\ UNCHANGED disk
      /\ todo' = todo /\ opened' = opened /\ saved' = saved /\ kept' = kept
  BY DEF Start
<1>2. catalog' = catalog /\ file' = file /\ Found' = Found
  BY <1>1, DiskKept
<1>3. kept => Found = saved
  BY <1>1 DEF IInv, FoundIsSaved
<1>4. CASE \E t \in DOMAIN Found.table : ~Complete(Found.table[t])
  <2>1. proc' = "broken" /\ db' = db
    BY <1>4 DEF Start
  <2>2. ~kept
    BY <1>3, <1>4 DEF IInv, KeptSound, AllComplete
  <2>3. TypeOK'
    BY <1>1, <1>2, <2>1 DEF IInv, TypeOK
  <2> QED
    BY <1>1, <1>2, <2>1, <2>2, <2>3 DEF IInv, FoundIsSaved, CatalogSound, Pending, Saving, KeptSound
<1>5. CASE ~\E t \in DOMAIN Found.table : ~Complete(Found.table[t])
  <2>1. proc' = "up" /\ db' = Found
    BY <1>5 DEF Start
  <2>2. IsDb(Found)
    BY FoundTyped DEF IInv
  <2>3. TypeOK'
    BY <1>1, <1>2, <2>1, <2>2 DEF IInv, TypeOK
  <2>4. KeptSound'
    BY <1>1, <1>3, <2>1 DEF IInv, KeptSound
  <2> QED
    BY <1>1, <1>2, <2>1, <2>3, <2>4 DEF IInv, FoundIsSaved, CatalogSound, Pending, Saving
<1> QED
  BY <1>4, <1>5

\* A crash while the files are written leaves an empty catalog: no database.
LEMMA StopKeeps ==
  ASSUME IInv, Stop
  PROVE  IInv'
<1>1. /\ proc \in {"up", "saving", "closed"} /\ proc' = "off" /\ db' = NoDb
      /\ todo' = {} /\ opened' = {} /\ kept' = kept /\ UNCHANGED disk
      /\ saved' = IF proc = "saving" THEN NoDb ELSE saved
  BY DEF Stop, Alive
<1>2. catalog' = catalog /\ file' = file /\ Found' = Found
  BY <1>1, DiskKept
<1>3. TypeOK'
  BY <1>1, <1>2, NoDbTyped DEF IInv, TypeOK
<1>4. KeptSound'
  BY <1>1, NoDbTyped DEF IInv, KeptSound
<1>5. FoundIsSaved'
  BY <1>1, <1>2 DEF IInv, FoundIsSaved
<1> QED
  BY <1>1, <1>2, <1>3, <1>4, <1>5 DEF IInv, CatalogSound, Pending, Saving

\* What a shutdown writes depends on memory only.
LEMMA DbKept ==
  ASSUME db' = db
  PROVE  /\ AllFiles' = AllFiles
         /\ Savable' = Savable
         /\ \A p \in AllFiles : Content(p)' = Content(p)
<1>1. AllFiles' = AllFiles
  BY DEF AllFiles, FilesOf, Present, Created, Col
<1>2. Savable' = Savable
  BY Zenon DEF Savable, Present, Created, Col
<1>3. \A p \in AllFiles : Content(p)' = Content(p)
  BY Zenon DEF Content, ColumnCells, IndexFile, Col
<1> QED
  BY <1>1, <1>2, <1>3

LEMMA ShutdownKeeps ==
  ASSUME IInv, Shutdown
  PROVE  IInv'
<1>1. /\ proc = "up" /\ db.open /\ proc' = "saving" /\ catalog' = Truncated /\ todo' = AllFiles
      /\ kept' = (kept /\ Savable) /\ db' = db /\ file' = file /\ opened' = opened /\ saved' = saved
  BY DEF Shutdown, Up
<1>2. AllFiles' = AllFiles /\ Savable' = Savable
  BY <1>1, DbKept
<1>3. Found' = NoDb /\ CatalogSound'
  BY <1>1 DEF Found, Truncated, Catalog, CatalogSound
<1>4. TypeOK'
  BY <1>1, FileFacts DEF IInv, TypeOK, Truncated, Catalog
<1>5. opened = {}
  BY <1>1 DEF IInv, Pending
<1>6. Saving'
  BY <1>1, <1>2, <1>5 DEF Saving, Truncated
<1> QED
  BY <1>1, <1>3, <1>4, <1>5, <1>6, NoDbTyped DEF IInv, FoundIsSaved, Pending, KeptSound

LEMMA ShutdownFailsKeeps ==
  ASSUME IInv, ShutdownFails
  PROVE  IInv'
<1>1. /\ proc = "up" /\ proc' = "closed" /\ db' = db /\ UNCHANGED disk
      /\ todo' = todo /\ opened' = opened /\ saved' = saved /\ kept' = kept
  BY DEF ShutdownFails, Up
<1>2. catalog' = catalog /\ file' = file /\ Found' = Found
  BY <1>1, DiskKept
<1>3. TypeOK'
  BY <1>1, <1>2 DEF IInv, TypeOK
<1> QED
  BY <1>1, <1>2, <1>3 DEF IInv, FoundIsSaved, CatalogSound, Pending, Saving, KeptSound

\* While files are written nothing can be found, and memory stays as it was.
LEMMA SavingStep ==
  ASSUME IInv, proc = "saving", UNCHANGED <<proc, db, catalog, saved>>,
         file' \in [Paths -> [state : {"absent", "cells", "junk"}, cells : Data]],
         todo' \subseteq AllFiles, opened' \subseteq AllFiles, \A p, q \in opened' : p = q,
         kept' \in BOOLEAN, kept' => kept,
         kept' => \A p \in AllFiles \ (todo' \cup opened') : file'[p] = Content(p)
  PROVE  IInv'
<1>1. /\ AllFiles' = AllFiles /\ Savable' = Savable
      /\ \A p \in AllFiles : Content(p)' = Content(p)
  BY DbKept
<1>2. Found' = NoDb /\ CatalogSound'
  BY DEF IInv, Saving, Found, Truncated, Catalog, CatalogSound
<1>3. TypeOK'
  BY FileFacts DEF IInv, TypeOK
<1>4. Saving'
  BY <1>1 DEF IInv, Saving, Truncated
<1> QED
  BY <1>2, <1>3, <1>4 DEF IInv, FoundIsSaved, Pending, KeptSound

LEMMA WritingKeeps ==
  ASSUME IInv, NEW p \in Paths, OpenFile(p) \/ SkipFile(p) \/ WriteFile(p)
  PROVE  IInv'
<1>1. /\ proc = "saving" /\ todo \subseteq AllFiles /\ opened \subseteq AllFiles /\ TypeOK
      /\ \A q, r \in opened : q = r
  BY DEF IInv, Pending, Saving, OpenFile, SkipFile, WriteFile, NextFile
<1>2. kept => \A q \in AllFiles \ (todo \cup opened) : file[q] = Content(q)
  BY <1>1 DEF IInv, Saving
<1>3. file \in [Paths -> [state : {"absent", "cells", "junk"}, cells : Data]] /\ kept \in BOOLEAN
  BY <1>1 DEF TypeOK
<1>4. CASE OpenFile(p)
  <2>1. /\ opened = {} /\ p \in todo /\ todo' = todo \ {p} /\ opened' = {p}
        /\ file' = [file EXCEPT ![p] = File("cells", <<>>)]
        /\ UNCHANGED <<proc, db, catalog, saved>> /\ kept' = kept
    BY <1>4 DEF OpenFile, NextFile
  <2>2. file' \in [Paths -> [state : {"absent", "cells", "junk"}, cells : Data]]
    BY <1>3, <2>1, EmptyData DEF File
  <2>3. kept => \A q \in AllFiles \ (todo' \cup opened') : file'[q] = Content(q)
    BY <1>1, <1>2, <1>3, <2>1, FileFacts
  <2> QED
    BY <1>1, <1>3, <2>1, <2>2, <2>3, SavingStep
<1>5. CASE SkipFile(p)
  <2>1. /\ todo' \subseteq todo /\ opened' = opened /\ file' = file /\ kept' = FALSE
        /\ UNCHANGED <<proc, db, catalog, saved>>
    BY <1>5, DiskKept DEF SkipFile, disk
  <2> QED
    BY <1>1, <1>3, <2>1, SavingStep
<1>6. CASE WriteFile(p)
  <2>1. /\ p \in opened /\ todo' = todo /\ opened' = {} /\ kept' = kept
        /\ file' = [file EXCEPT ![p] = Content(p)]
        /\ UNCHANGED <<proc, db, catalog, saved>>
    BY <1>6 DEF WriteFile
  <2>2. Content(p) \in [state : {"absent", "cells", "junk"}, cells : Data]
    BY <1>1, <2>1, FileFacts
  <2>3. file' \in [Paths -> [state : {"absent", "cells", "junk"}, cells : Data]]
    BY <1>3, <2>1, <2>2
  <2>4. kept => \A q \in AllFiles \ (todo' \cup opened') : file'[q] = Content(q)
    BY <1>1, <1>2, <1>3, <2>1, FileFacts
  <2> QED
    BY <1>1, <1>3, <2>1, <2>3, <2>4, SavingStep
<1> QED
  BY <1>4, <1>5, <1>6

LEMMA ShutdownEndsKeeps ==
  ASSUME IInv, ShutdownEnds
  PROVE  IInv'
<1>1. /\ proc = "saving" /\ todo = {} /\ opened = {} /\ proc' = "closed"
      /\ catalog' = Catalog("lines", Lines) /\ saved' = Wanted /\ db' = NoDb
      /\ file' = file /\ todo' = todo /\ opened' = opened /\ kept' = kept
  BY DEF ShutdownEnds
<1>2. TypeOK /\ (kept => Savable /\ IndexesAgree(db) /\ \A p \in AllFiles : file[p] = Content(p))
  BY <1>1 DEF IInv, Saving, KeptSound
<1>3. kept => Found' = Wanted
  BY <1>1, <1>2, FoundIsWanted
<1>4. IsDb(Wanted) /\ (kept => AllComplete(Wanted) /\ IndexesAgree(Wanted) /\ Searchable(Wanted))
  BY <1>2, WantedTyped, WantedSound
<1>5. TypeOK'
  BY <1>1, <1>2, <1>4, NoDbTyped DEF TypeOK, Catalog
<1>6. CatalogSound'
  <2>1. \A t \in Present : t \in Tables /\ IsLine(Lines[t])
    BY <1>2, TableFacts, ColFacts DEF IsLine, Lines
  <2>2. DOMAIN Lines = Present
    BY DEF Lines
  <2>3. catalog'.table = Lines
    BY <1>1 DEF Catalog
  <2> QED
    BY <2>1, <2>2, <2>3 DEF CatalogSound
<1>7. KeptSound'
  BY <1>1, <1>2, <1>4, NoDbTyped DEF KeptSound
<1> QED
  BY <1>1, <1>3, <1>4, <1>5, <1>6, <1>7 DEF IInv, FoundIsSaved, Pending, Saving
-------------------------------------------------------------------------------
(* Theorems *)

\* IInv holds at first and is kept by every step.
THEOREM Invariance == Spec => []IInv
<1>1. Init => IInv
  <2> SUFFICES ASSUME Init PROVE IInv
    OBVIOUS
  <2>1. TypeOK
    BY NoDbTyped, EmptyData DEF Init, TypeOK, Catalog, File
  <2>2. Found = NoDb /\ CatalogSound
    BY DEF Init, Found, Catalog, CatalogSound
  <2> QED
    BY <2>1, <2>2, NoDbTyped DEF Init, IInv, FoundIsSaved, Pending, Saving, KeptSound
<1>2. IInv /\ [Next]_vars => IInv'
  <2> SUFFICES ASSUME IInv, [Next]_vars PROVE IInv'
    OBVIOUS
  <2>1. CASE Start
    BY <2>1, StartKeeps
  <2>2. CASE Stop
    BY <2>2, StopKeeps
  <2>3. CASE Command
    BY <2>3, CommandKeeps
  <2>4. CASE Shutdown
    BY <2>4, ShutdownKeeps
  <2>5. CASE ShutdownFails
    BY <2>5, ShutdownFailsKeeps
  <2>6. CASE ShutdownEnds
    BY <2>6, ShutdownEndsKeeps
  <2>7. CASE \E p \in Paths : OpenFile(p) \/ SkipFile(p) \/ WriteFile(p)
    BY <2>7, WritingKeeps
  <2>8. CASE UNCHANGED vars
    <3>1. /\ UNCHANGED <<proc, db, todo, opened, saved, kept>> /\ UNCHANGED disk
      BY <2>8 DEF vars
    <3>2. catalog' = catalog /\ file' = file /\ Found' = Found
      BY <3>1, DiskKept
    <3>3. /\ TypeOK' /\ CatalogSound' /\ KeptSound' /\ FoundIsSaved' /\ Pending'
      BY <3>1, <3>2 DEF IInv, TypeOK, CatalogSound, KeptSound, FoundIsSaved, Pending
    <3>4. AllFiles' = AllFiles /\ Savable' = Savable /\ \A p \in AllFiles : Content(p)' = Content(p)
      BY <3>1, DbKept
    <3>5. Saving'
      BY <3>1, <3>2, <3>4 DEF IInv, Saving, Truncated
    <3> QED
      BY <3>3, <3>5 DEF IInv
  <2> QED
    BY <2>1, <2>2, <2>3, <2>4, <2>5, <2>6, <2>7, <2>8 DEF Next, Save
<1> QED
  BY <1>1, <1>2, PTL DEF Spec

\* Memory, files and what was saved keep their types (all commands, startup and
\* shutdown).
THEOREM TypeCorrect == Spec => []TypeOK
<1>1. IInv => TypeOK
  BY DEF IInv
<1> QED
  BY <1>1, Invariance, PTL

\* Whenever the server is started it finds what the last complete shutdown
\* saved, with indexes that can be searched, or nothing (db_startup,
\* db_shutdown), as long as no file failed and clients created the columns they
\* declared and loaded after they created an index.
THEOREM Durable == Spec => []FoundIsSaved
<1>1. IInv => FoundIsSaved
  BY DEF IInv
<1> QED
  BY <1>1, Invariance, PTL
===============================================================================
