----------------------------- MODULE TableStoreProofs -----------------------------
(***************************************************************************)
(* What the commands do to the columns and the indexes of a table, for any *)
(* number of columns, any files and any values.                            *)
(*                                                                         *)
(* That the columns keep the same size (SizesAgree) holds with every type  *)
(* of index, because what the indexes hold does not matter to it.  Each    *)
(* operation keeps the shape of a column and changes its size by a number  *)
(* that does not depend on the column; the loops over the columns,         *)
(* recursive functions in the model, follow by induction up to the number  *)
(* of columns.  A fault may stop such a loop half way, so the sizes are    *)
(* compared only while there is none.                                      *)
(*                                                                         *)
(* The other theorems are about tables without trees (NoTree).  TypeInv    *)
(* has the types, whatever the commands.  KeptInv has what the conditions  *)
(* of the commands keep: every built index agrees with its column, every   *)
(* array has room, and the columns hold the rows that they should.         *)
(***************************************************************************)
EXTENDS TableStore, SortingProofs

-------------------------------------------------------------------------------
(* One column *)
\* What a column is made of (Column in cs165_api.h; NewColumn).
IsColumn(col) ==
    /\ DOMAIN col = {"data", "size", "capacity", "room", "index", "fault"}
    /\ IsIndex(col.index)
\* The size of a column is an integer, and a natural number as long as nothing
\* went wrong in that column: a delete of more rows than there are is a fault.
Sized(col) == col.size \in Int /\ (col.fault = "none" => col.size \in Nat)
\* Column col turns into new with d more rows: it keeps the type of its index,
\* and a fault once noted stays.
Becomes(col, new, d) ==
    /\ IsColumn(new) /\ Sized(new)
    /\ new.index.type = col.index.type
    /\ new.size = col.size + d
    /\ new.fault = "none" => col.fault = "none"

\* Noting a fault changes nothing else.
LEMMA WithFaultShape ==
    ASSUME NEW col, IsColumn(col), NEW bad \in BOOLEAN
    PROVE  /\ IsColumn(WithFault(col, bad))
           /\ WithFault(col, bad).index = col.index
           /\ WithFault(col, bad).size = col.size
           /\ WithFault(col, bad).fault = "none" => col.fault = "none" /\ ~ bad
BY DEF WithFault, IsColumn

\* A load adds exactly the values of the file to a column.
LEMMA ExtendedShape ==
    ASSUME NEW col, IsColumn(col), Sized(col), NEW values, Len(values) \in Nat
    PROVE  Becomes(col, Extended(col, values), Len(values))
<1> DEFINE n == Len(values)
           capacity == Grown(col.capacity, col.size, n)
           filled == IF col.size + n < col.capacity THEN col.size + n ELSE col.capacity
           new == [col EXCEPT
            !.data = [i \in Cells(col.size + n) |-> IF i < col.size THEN @[i] ELSE values[i - col.size + 1]],
            !.size = @ + n,
            !.capacity = capacity,
            !.room = IF capacity = col.capacity THEN @ ELSE capacity]
           bad == filled > col.room
<1>1. Extended(col, values) = WithFault(new, bad)
    BY DEF Extended
<1>2. IsColumn(new) /\ new.index = col.index /\ new.size = col.size + n /\ new.fault = col.fault
    BY DEF IsColumn
<1>3. bad \in BOOLEAN /\ n \in Nat
    OBVIOUS
<1> HIDE DEF new, bad, n
<1>4. /\ IsColumn(WithFault(new, bad))
      /\ WithFault(new, bad).index = new.index
      /\ WithFault(new, bad).size = new.size
      /\ WithFault(new, bad).fault = "none" => new.fault = "none"
    BY <1>2, <1>3, WithFaultShape
<1>5. Becomes(col, Extended(col, values), n)
    BY <1>1, <1>2, <1>3, <1>4 DEF Becomes, Sized
<1> QED
    BY <1>5 DEF n

\* Reordering a column after a clustered one keeps its size.
LEMMA ReorderedShape ==
    ASSUME NEW col, IsColumn(col), Sized(col), NEW order, NEW behind
    PROVE  Becomes(col, Reordered(col, order, behind), 0)
BY DEF Reordered, Becomes, IsColumn, Sized

\* db_increase_capacity keeps the size.
LEMMA IncreasedShape ==
    ASSUME NEW col, IsColumn(col), Sized(col)
    PROVE  Becomes(col, Increased(col), 0)
BY DEF Increased, Becomes, IsColumn, IsIndex, Sized

\* Opening a gap adds one row.
LEMMA OpenedAtShape ==
    ASSUME NEW col, IsColumn(col), Sized(col), NEW i, NEW n, NEW value, NEW behind
    PROVE  Becomes(col, OpenedAt(col, i, n, value, behind), 1)
<1> DEFINE new == [col EXCEPT
              !.data = Filled(Opened(Filled(@, n + 1, behind), i, n, value), col.size + 1, behind),
              !.size = @ + 1]
           bad == n >= col.room \/ i >= col.room \/ i = Unset
<1>1. OpenedAt(col, i, n, value, behind) = WithFault(new, bad)
    BY DEF OpenedAt
<1>2. IsColumn(new) /\ new.index = col.index /\ new.size = col.size + 1 /\ new.fault = col.fault
    BY DEF IsColumn
<1>3. bad \in BOOLEAN
    OBVIOUS
<1> HIDE DEF new, bad
<1> QED
    BY <1>1, <1>2, <1>3, WithFaultShape DEF Becomes, Sized

\* With another index of the same type.
LEMMA IndexedShape ==
    ASSUME NEW col, NEW new, NEW d \in Int, Becomes(col, new, d), NEW idx, SameIndex(new.index, idx)
    PROVE  Becomes(col, [new EXCEPT !.index = idx], d)
BY DEF Becomes, IsColumn, Sized, SameIndex

\* A delete takes as many rows from a column as the handle has positions.
LEMMA ShortenedShape ==
    ASSUME NEW col, IsColumn(col), Sized(col), NEW m, NEW count, NEW behind,
           Len(handle.positions) \in Nat
    PROVE  Becomes(col, Shortened(col, m, count, behind).col, - Len(handle.positions))
<1> DEFINE r == Removed(col.data, col.size, handle.positions, m, count, behind)
           idx == IF col.index.type \in UnclusteredTypes
                  THEN DeleteUnclustered(col.index, col.data, col.size, handle.positions, behind)
                  ELSE col.index
           new == [col EXCEPT !.index = idx, !.data = r.data, !.size = @ - Len(handle.positions)]
           bad == Len(handle.positions) > col.size
<1>1. Shortened(col, m, count, behind).col = WithFault(new, bad)
    BY DEF Shortened
<1>2. SameIndex(col.index, idx)
    BY DeleteUnclusteredShape DEF SameIndex, IsColumn
<1>3. IsColumn(new) /\ new.index = idx /\ new.size = col.size - Len(handle.positions)
      /\ new.fault = col.fault
    <2> HIDE DEF idx, r
    <2> QED
        BY <1>2 DEF IsColumn, SameIndex
<1>4. bad \in BOOLEAN
    OBVIOUS
<1>5. /\ IsColumn(WithFault(new, bad))
      /\ WithFault(new, bad).index = new.index
      /\ WithFault(new, bad).size = new.size
      /\ WithFault(new, bad).fault = "none" => new.fault = "none" /\ ~ bad
    <2> HIDE DEF new, bad
    <2> QED
        BY <1>3, <1>4, WithFaultShape
<1> HIDE DEF new, idx
<1> QED
    BY <1>1, <1>2, <1>3, <1>5 DEF Becomes, Sized, SameIndex

\* An update without moving rows keeps the size.
LEMMA UpdateInPlaceShape ==
    ASSUME NEW col, IsColumn(col), Sized(col), NEW value, NEW behind
    PROVE  Becomes(col, UpdateInPlace(col, value, behind), 0)
<1> DEFINE p == handle.positions
           idx == IF col.index.type = "NONE" THEN col.index
                  ELSE IF ~ col.index.built THEN [col.index EXCEPT !.fault = "crash"]
                  ELSE IF col.index.type = "UNCLUSTER_SORT"
                  THEN SortUpdate(col.index, col.data, col.size, p, value, behind)
                  ELSE TreeUpdate(col.index, col.data, col.size, p, value, behind)
           data == [i \in DOMAIN col.data |-> IF i \in HandleRows THEN value ELSE col.data[i]]
           new == [col EXCEPT !.index = idx, !.data = data]
           bad == \E i \in HandleRows : i >= col.room
<1>1. UpdateInPlace(col, value, behind) = WithFault(new, bad)
    BY DEF UpdateInPlace
<1>2. SameIndex(col.index, idx)
    BY SortUpdateShape, TreeUpdateShape DEF SameIndex, IsColumn, IsIndex
<1>3. IsColumn(new) /\ new.index = idx /\ new.size = col.size /\ new.fault = col.fault
    <2> HIDE DEF idx, data
    <2> QED
        BY <1>2 DEF IsColumn, SameIndex
<1>4. bad \in BOOLEAN
    OBVIOUS
<1> HIDE DEF new, bad, idx
<1> QED
    BY <1>1, <1>2, <1>3, <1>4, WithFaultShape DEF Becomes, Sized, SameIndex

-------------------------------------------------------------------------------
(* The columns of the table *)

\* The columns of a table, whatever happened to them.
IsTable(cols) ==
    DOMAIN cols = Columns /\ \A c \in Columns : IsColumn(cols[c]) /\ Sized(cols[c])
\* Something went wrong in a column.
Bad(cols) == \E c \in Columns : cols[c].fault # "none"
\* No column changed the type of its index.
SameTypes(cols, new) == \A c \in Columns : new[c].index.type = cols[c].index.type
\* Every column has d more rows.
Changed(cols, new, d) == DOMAIN new = Columns /\ \A c \in Columns : Becomes(cols[c], new[c], d)
\* The same unless something went wrong on the way.
After(cols, new, d) ==
    IsTable(new) /\ SameTypes(cols, new) /\ (~ Bad(new) => Changed(cols, new, d))

\* A table every column of which changed by d is one after a change by d.
LEMMA ChangedShape ==
    ASSUME NEW cols, NEW new, NEW d, Changed(cols, new, d)
    PROVE  After(cols, new, d)
BY DEF Changed, After, Becomes, IsTable, SameTypes

\* A table that is left alone changed by nothing.
LEMMA ChangedNot ==
    ASSUME NEW cols, IsTable(cols)
    PROVE  Changed(cols, cols, 0)
BY DEF Changed, IsTable, Becomes, Sized

\* A change that keeps the sizes may follow any other.
LEMMA ChangedThen ==
    ASSUME NEW cols, IsTable(cols), NEW mid, NEW new, NEW d \in Int, Changed(cols, mid, d), Changed(mid, new, 0)
    PROVE  Changed(cols, new, d)
BY DEF Changed, IsTable, Becomes, Sized

\* A command that crashes leaves a table with a fault.
LEMMA SpoiledShape ==
    ASSUME NEW cols, IsTable(cols), NEW c \in Columns, NEW f, f # "none", NEW d
    PROVE  After(cols, [cols EXCEPT ![c].fault = f], d)
<1>1. \A col : IsColumn(col) /\ Sized(col) =>
          LET new == [col EXCEPT !.fault = f]
          IN  IsColumn(new) /\ Sized(new) /\ new.fault # "none" /\ new.index.type = col.index.type
    BY DEF IsColumn, Sized
<1> QED
    BY <1>1 DEF After, IsTable, SameTypes, Bad

-------------------------------------------------------------------------------
(* Building *)

\* Building the index of one column keeps every size, also where it reorders
\* the other columns.
LEMMA BuiltShape ==
    ASSUME NEW cols, IsTable(cols), NEW c \in Columns, NEW behind
    PROVE  Changed(cols, Built(cols, c, behind), 0)
<1> DEFINE col == cols[c]
           units == SortUnits(col.data, col.size)
           data == SortedValues(units)
<1>1. IsColumn(col) /\ Sized(col) /\ IsIndex(col.index)
    BY DEF IsTable, IsColumn
<1>2. CASE col.index.type \in UnclusteredTypes
    <2> DEFINE idx == BuildUnclustered(col.index, col.data, col.size)
    <2>1. SameIndex(col.index, idx)
        BY <1>1, BuildUnclusteredShape
    <2>2. Built(cols, c, behind) = [cols EXCEPT ![c].index = idx]
        BY <1>2 DEF Built
    <2> HIDE DEF idx, col
    <2>3. Becomes(col, [col EXCEPT !.index = idx], 0)
        BY <1>1, <2>1 DEF Becomes, IsColumn, SameIndex, Sized
    <2> USE DEF col
    <2> QED
        BY <2>2, <2>3, ChangedNot DEF Changed, IsTable
<1>3. CASE ~ (col.index.type \in UnclusteredTypes)
    <2> DEFINE idx == BuildClustered(col.index, data, col.size, behind)
    <2>1. SameIndex(col.index, idx)
        BY <1>1, BuildClusteredShape
    <2>2. Built(cols, c, behind) =
              [d \in Columns |-> IF d = c THEN [col EXCEPT !.data = data, !.index = idx]
                                 ELSE Reordered(cols[d], SortedPositions(units), behind)]
        BY <1>3 DEF Built
    <2> HIDE DEF idx, col, data
    <2>3. Becomes(col, [col EXCEPT !.data = data, !.index = idx], 0)
        BY <1>1, <2>1 DEF Becomes, IsColumn, SameIndex, Sized
    <2> USE DEF col
    <2> HIDE DEF units
    <2>4. \A d \in Columns : Becomes(cols[d], Reordered(cols[d], SortedPositions(units), behind), 0)
        BY ReorderedShape DEF IsTable
    <2> QED
        BY <2>2, <2>3, <2>4 DEF Changed
<1> QED
    BY <1>2, <1>3

\* One step of the loop over the columns in db_load.
BuiltOne(b, c, behind) == IF b[c].index.type = "NONE" THEN b ELSE Built(b, c, behind)
\* b holds the columns after each step of that loop up to column n.
BuiltTo(cols, behind, n, b) ==
    b = [c \in 0..n |-> IF c = 0 THEN cols ELSE BuiltOne(b[c - 1], c, behind)]

\* There is such a function, so the recursive one of AllBuilt is it.
LEMMA BuiltToSome ==
    ASSUME NEW cols, NEW behind, NEW n \in Nat
    PROVE  \E b : BuiltTo(cols, behind, n, b)
<1> DEFINE S == {m \in 0..n : \E b : BuiltTo(cols, behind, m, b)}
<1>1. BuiltTo(cols, behind, 0, [c \in 0..0 |-> cols])
    BY DEF BuiltTo
<1>2. ASSUME NEW m \in 1..n, NEW b, BuiltTo(cols, behind, m - 1, b)
      PROVE  BuiltTo(cols, behind, m, [c \in 0..m |-> IF c < m THEN b[c] ELSE BuiltOne(b[c - 1], c, behind)])
    BY <1>2 DEF BuiltTo
<1>3. ASSUME NEW m \in 1..n, m - 1 \in S PROVE m \in S
    <2>1. PICK b : BuiltTo(cols, behind, m - 1, b)
        BY <1>3
    <2>2. \E f : BuiltTo(cols, behind, m, f)
        BY <2>1, <1>2
    <2>3. m \in 0..n
        OBVIOUS
    <2> QED
        BY <2>2, <2>3
<1>4. 0 \in S
    BY <1>1
<1>5. 0..n \subseteq S
    <2> HIDE DEF S
    <2> QED BY <1>3, <1>4, Upward
<1> QED
    BY <1>5

\* Building all indexes keeps every size: by induction over the columns.
LEMMA AllBuiltShape ==
    ASSUME NEW cols, IsTable(cols), NEW behind
    PROVE  Changed(cols, AllBuilt(cols, behind), 0)
<1>1. \E b : BuiltTo(cols, behind, ColCount, b)
    BY BuiltToSome, TableAssumption
<1>2. AllBuilt(cols, behind) = (CHOOSE b : BuiltTo(cols, behind, ColCount, b))[ColCount]
    BY DEF AllBuilt, BuiltTo, BuiltOne
<1>3. PICK b : BuiltTo(cols, behind, ColCount, b) /\ AllBuilt(cols, behind) = b[ColCount]
    BY <1>1, <1>2
<1> DEFINE S == {m \in 0..ColCount : Changed(cols, b[m], 0)}
<1>4. 0 \in S
    BY <1>3, ChangedNot, TableAssumption DEF BuiltTo
<1>5. ASSUME NEW m \in 1..ColCount, m - 1 \in S PROVE m \in S
    <2>1. b[m] = BuiltOne(b[m - 1], m, behind)
        BY <1>3, TableAssumption DEF BuiltTo
    <2>2. Changed(cols, b[m - 1], 0)
        BY <1>5
    <2>3. IsTable(b[m - 1])
        BY <2>2, ChangedShape DEF After
    <2>4. Changed(b[m - 1], b[m], 0)
        BY <2>1, <2>3, BuiltShape, ChangedNot DEF BuiltOne, Columns
    <2> QED
        BY <2>2, <2>3, <2>4, ChangedThen
<1>6. 0..ColCount \subseteq S
    <2> HIDE DEF S
    <2> QED BY <1>4, <1>5, Upward, TableAssumption
<1> QED
    BY <1>3, <1>6, TableAssumption

-------------------------------------------------------------------------------
(* Inserting *)

\* At most one column is clustered: the condition of SizesAgree.
OneCluster == \A c, d \in Clusters : c = d

\* The whole table was changed by d, or is on the way to it, at column m.
OnTheWay(cols, new, m, d) ==
    /\ IsTable(new) /\ SameTypes(cols, new)
    /\ OneCluster => IF \E c \in Clusters : c <= m THEN After(cols, new, d) ELSE new = cols

\* Before the first column nothing has changed.
LEMMA OnTheWayStarts ==
    ASSUME NEW cols, IsTable(cols), NEW d
    PROVE  OnTheWay(cols, cols, 0, d)
BY DEF OnTheWay, SameTypes, Clusters, Columns

\* A column that is not clustered is passed over.
LEMMA OnTheWayStays ==
    ASSUME NEW cols, NEW new, NEW d, NEW m \in 1..ColCount, m \notin Clusters,
           OnTheWay(cols, new, m - 1, d)
    PROVE  OnTheWay(cols, new, m, d)
<1>1. (\E c \in Clusters : c <= m) <=> (\E c \in Clusters : c <= m - 1)
    BY TableAssumption DEF Clusters, Columns
<1> QED
    BY <1>1 DEF OnTheWay

\* The first clustered column changes the whole table.
LEMMA OnTheWayTurns ==
    ASSUME NEW cols, NEW mid, NEW new, NEW d, NEW m \in Clusters,
           OnTheWay(cols, mid, m - 1, d), IsTable(new), SameTypes(mid, new),
           mid = cols => After(cols, new, d)
    PROVE  OnTheWay(cols, new, m, d)
<1>1. m \in Nat
    BY TableAssumption DEF Clusters, Columns
<1>2. OneCluster => ~ \E c \in Clusters : c <= m - 1
    BY <1>1 DEF OneCluster
<1>3. m <= m
    BY <1>1
<1>4. SameTypes(cols, new)
    BY DEF OnTheWay, SameTypes
<1> QED
    BY <1>2, <1>3, <1>4 DEF OnTheWay

\* After the last column the whole table was changed, once if one is clustered.
LEMMA OnTheWayEnds ==
    ASSUME NEW cols, NEW new, NEW d, OnTheWay(cols, new, ColCount, d), Clusters # {}
    PROVE  IsTable(new) /\ SameTypes(cols, new) /\ (OneCluster => After(cols, new, d))
<1>1. \E c \in Clusters : c <= ColCount
    BY TableAssumption DEF Clusters, Columns
<1> QED
    BY <1>1 DEF OnTheWay

\* An unclustered index of another column that takes the new value keeps its type.
LEMMA NotedShape ==
    ASSUME NEW idx, IsIndex(idx), NEW n, NEW value, NEW i, NEW behind
    PROVE  SameIndex(idx, Noted(idx, n, value, i, behind))
<1>1. SameIndex(idx, [idx EXCEPT !.fault = "crash"]) /\ SameIndex(idx, idx)
    BY DEF SameIndex, IsIndex
<1> QED
    BY <1>1, SortInsertShape, TreeInsertShape DEF Noted

\* The rows of the table with a new one, of which index c becomes idx; n[d]
\* is the number of cells that column d moves within.
OpenedTable(cols, c, i, n, idx, values, behind) ==
    [d \in Columns |->
        [OpenedAt(cols[d], i, n[d], values[d], behind) EXCEPT
            !.index = IF d = c THEN idx ELSE Noted(@, cols[d].size, values[d], i, behind)]]

\* Such a table has one row more in every column.
LEMMA OpenedTableShape ==
    ASSUME NEW cols, IsTable(cols), NEW c \in Columns, NEW values, NEW behind, NEW i, NEW n,
           NEW idx, SameIndex(cols[c].index, idx)
    PROVE  Changed(cols, OpenedTable(cols, c, i, n, idx, values, behind), 1)
<1> SUFFICES ASSUME NEW d \in Columns
             PROVE  Becomes(cols[d], [OpenedAt(cols[d], i, n[d], values[d], behind) EXCEPT
                        !.index = IF d = c THEN idx
                                  ELSE Noted(@, cols[d].size, values[d], i, behind)], 1)
    BY DEF Changed, OpenedTable
<1> DEFINE col == OpenedAt(cols[d], i, n[d], values[d], behind)
           new == IF d = c THEN idx ELSE Noted(col.index, cols[d].size, values[d], i, behind)
<1>1. Becomes(cols[d], col, 1)
    BY OpenedAtShape DEF IsTable
<1>2. IsIndex(col.index) /\ col.index.type = cols[d].index.type
    BY <1>1 DEF Becomes, IsColumn
<1> HIDE DEF col
<1>3. SameIndex(col.index, new)
    BY <1>2, NotedShape DEF SameIndex
<1> HIDE DEF new
<1>4. Becomes(cols[d], [col EXCEPT !.index = new], 1)
    BY <1>1, <1>3, IndexedShape
<1> QED
    BY <1>4 DEF col, new

\* An insert through a clustered column adds one row to every column, or faults.
LEMMA InsertClusteredShape ==
    ASSUME NEW cols, IsTable(cols), NEW c \in Columns, NEW values, NEW behind
    PROVE  After(cols, InsertClustered(cols, c, values, behind), 1)
<1> DEFINE col == cols[c]
           open(i, n, idx) == OpenedTable(cols, c, i, n, idx, values, behind)
           sizes == [d \in Columns |-> cols[d].size]
           same == [d \in Columns |-> col.size]
           t == Insert(col.index.tree, values[c], Unset)
           place == Find(col.data, col.size, values[c], "GREATER_EQUAL", behind)
           idx1 == IF col.size >= col.index.room THEN [col.index EXCEPT !.fault = "overflow"]
                   ELSE col.index
           idx2 == WithTree(col.index, t)
           spoiled(f) == [cols EXCEPT ![c].fault = f]
<1>1. \/ InsertClustered(cols, c, values, behind) = spoiled("crash")
      \/ InsertClustered(cols, c, values, behind) = spoiled("overflow")
      \/ InsertClustered(cols, c, values, behind) = open(place, same, idx1)
      \/ InsertClustered(cols, c, values, behind) = open(t.at, sizes, idx2)
    BY ZenonT(60) DEF InsertClustered, OpenedTable
<1>2. After(cols, spoiled("crash"), 1) /\ After(cols, spoiled("overflow"), 1)
    BY SpoiledShape
<1>3. IsIndex(col.index)
    BY DEF IsTable, IsColumn
<1>4. SameIndex(col.index, idx1) /\ SameIndex(col.index, idx2)
    BY <1>3, WithTreeShape DEF SameIndex, IsIndex
<1>5. After(cols, open(place, same, idx1), 1)
    <2> HIDE DEF place, same, idx1
    <2> QED
        BY <1>4, OpenedTableShape, ChangedShape
<1>6. After(cols, open(t.at, sizes, idx2), 1)
    <2> HIDE DEF t, sizes, idx2
    <2> QED
        BY <1>4, OpenedTableShape, ChangedShape
<1> QED
    BY <1>1, <1>2, <1>5, <1>6, ZenonT(60)

\* Without a clustered column the row goes behind the last one.
LEMMA InsertLastShape ==
    ASSUME NEW col, IsColumn(col), Sized(col), NEW n, NEW value, NEW behind
    PROVE  Becomes(col, InsertLast(col, n, value, behind), 1)
<1> DEFINE mid == OpenedAt(col, n, n, value, behind)
           idx == IF mid.index.type = "NONE" THEN mid.index
                  ELSE IF mid.index.type = "UNCLUSTER_SORT" \/ ~ mid.index.built
                  THEN [mid.index EXCEPT !.fault = "crash"]
                  ELSE TreeInsert(mid.index, value, n)
<1>1. Becomes(col, mid, 1)
    BY OpenedAtShape
<1>2. IsIndex(mid.index)
    BY <1>1 DEF Becomes, IsColumn
<1>3. InsertLast(col, n, value, behind) = [mid EXCEPT !.index = idx]
    BY DEF InsertLast
<1> HIDE DEF mid
<1>4. SameIndex(mid.index, idx)
    BY <1>2, TreeInsertShape DEF SameIndex, IsIndex
<1> HIDE DEF idx
<1> QED
    BY <1>1, <1>3, <1>4, IndexedShape

\* One step of the loop over the columns in db_insert.
InsertOne(t, c, values, behind) ==
    IF c \in Clusters THEN InsertClustered(t, c, values, behind) ELSE t
\* f holds the columns after each step of that loop up to column n.
InsertTo(cols, values, behind, n, f) ==
    f = [c \in 0..n |-> IF c = 0 THEN cols ELSE InsertOne(f[c - 1], c, values, behind)]

\* There is such a function, so the recursive one of Inserted is it.
LEMMA InsertToSome ==
    ASSUME NEW cols, NEW values, NEW behind, NEW n \in Nat
    PROVE  \E f : InsertTo(cols, values, behind, n, f)
<1> DEFINE S == {m \in 0..n : \E f : InsertTo(cols, values, behind, m, f)}
<1>1. InsertTo(cols, values, behind, 0, [c \in 0..0 |-> cols])
    BY DEF InsertTo
<1>2. ASSUME NEW m \in 1..n, NEW f, InsertTo(cols, values, behind, m - 1, f)
      PROVE  InsertTo(cols, values, behind, m,
                      [c \in 0..m |-> IF c < m THEN f[c] ELSE InsertOne(f[c - 1], c, values, behind)])
    BY <1>2 DEF InsertTo
<1>3. ASSUME NEW m \in 1..n, m - 1 \in S PROVE m \in S
    <2>1. PICK f : InsertTo(cols, values, behind, m - 1, f)
        BY <1>3
    <2>2. \E g : InsertTo(cols, values, behind, m, g)
        BY <2>1, <1>2
    <2>3. m \in 0..n
        OBVIOUS
    <2> QED
        BY <2>2, <2>3
<1>4. 0 \in S
    BY <1>1
<1>5. 0..n \subseteq S
    <2> HIDE DEF S
    <2> QED BY <1>3, <1>4, Upward
<1> QED
    BY <1>5

\* An insert adds one row to every column if at most one is clustered.
LEMMA InsertedShape ==
    ASSUME NEW cols, IsTable(cols), NEW values, NEW behind
    PROVE  LET new == Inserted(cols, values, behind)
           IN  IsTable(new) /\ SameTypes(cols, new) /\ (OneCluster => After(cols, new, 1))
<1>1. CASE Clusters = {}
    <2>1. Inserted(cols, values, behind)
              = [c \in Columns |-> InsertLast(cols[c], table_length, values[c], behind)]
        BY <1>1 DEF Inserted
    <2>2. Changed(cols, Inserted(cols, values, behind), 1)
        BY <2>1, InsertLastShape DEF Changed, IsTable
    <2> QED
        BY <2>2, ChangedShape DEF After
<1>2. CASE Clusters # {}
    <2>1. \E f : InsertTo(cols, values, behind, ColCount, f)
        BY InsertToSome, TableAssumption
    <2>2. Inserted(cols, values, behind)
              = (CHOOSE f : InsertTo(cols, values, behind, ColCount, f))[ColCount]
        BY <1>2 DEF Inserted, InsertTo, InsertOne
    <2>3. PICK f : /\ InsertTo(cols, values, behind, ColCount, f)
                   /\ Inserted(cols, values, behind) = f[ColCount]
        BY <2>1, <2>2
    <2> DEFINE S == {m \in 0..ColCount : OnTheWay(cols, f[m], m, 1)}
    <2>4. 0 \in S
        BY <2>3, OnTheWayStarts, TableAssumption DEF InsertTo
    <2>5. ASSUME NEW m \in 1..ColCount, m - 1 \in S PROVE m \in S
        <3>1. f[m] = InsertOne(f[m - 1], m, values, behind)
            BY <2>3, TableAssumption DEF InsertTo
        <3>2. OnTheWay(cols, f[m - 1], m - 1, 1)
            BY <2>5
        <3>3. CASE m \notin Clusters
            BY <3>1, <3>2, <3>3, OnTheWayStays DEF InsertOne
        <3>4. CASE m \in Clusters
            <4>1. IsTable(f[m - 1]) /\ m \in Columns
                BY <3>2 DEF OnTheWay, Columns
            <4>2. After(f[m - 1], f[m], 1)
                BY <3>1, <3>4, <4>1, InsertClusteredShape DEF InsertOne
            <4>3. OnTheWay(cols, f[m], m, 1)
                BY <3>2, <3>4, <4>2, OnTheWayTurns DEF After
            <4> QED
                BY <4>3
        <3> QED
            BY <3>3, <3>4
    <2>6. 0..ColCount \subseteq S
        <3> HIDE DEF S
        <3> QED BY <2>4, <2>5, Upward, TableAssumption
    <2>7. OnTheWay(cols, f[ColCount], ColCount, 1)
        BY <2>6, TableAssumption
    <2> QED
        BY <1>2, <2>3, <2>7, OnTheWayEnds
<1> QED
    BY <1>1, <1>2

-------------------------------------------------------------------------------
(* Deleting *)

\* A delete through a clustered column takes the same rows from every column,
\* or faults.
LEMMA DeleteClusteredShape ==
    ASSUME NEW cols, IsTable(cols), NEW c \in Columns, NEW behind, Len(handle.positions) \in Nat
    PROVE  After(cols, DeleteClustered(cols, c, behind), - Len(handle.positions))
<1> DEFINE L == - Len(handle.positions)
           sorted == cols[c].index.type = "CLUSTER_SORT"
           m(d) == IF sorted /\ d # c THEN cols[d].size ELSE Visited(cols[d].size)
           rest(d) == Shortened(cols[d], m(d), 0, behind).col
           idx == TreeDelete(rest(c).index, cols[c].data, cols[c].size, handle.positions, behind)
           new == [rest(c) EXCEPT !.index = idx]
<1>1. \/ handle.positions = << >> /\ DeleteClustered(cols, c, behind) = cols
      \/ DeleteClustered(cols, c, behind) = [cols EXCEPT ![c].fault = "crash"]
      \/ DeleteClustered(cols, c, behind) = [d \in Columns |-> rest(d)]
      \/ DeleteClustered(cols, c, behind) = [d \in Columns |-> IF d # c THEN rest(d) ELSE new]
    BY DEF DeleteClustered
<1>2. CASE handle.positions = << >> /\ DeleteClustered(cols, c, behind) = cols
    <2>1. Len(<< >>) = 0
        BY EmptySeq
    <2>2. Len(handle.positions) = 0
        BY <2>1, <1>2, Zenon
    <2>3. L = 0
        <3>1. L = 0 - Len(handle.positions)
            OBVIOUS
        <3> HIDE DEF L
        <3> QED
            BY <2>2, <3>1
    <2> QED
        BY <2>3, <1>2, ChangedNot, ChangedShape
<1>3. CASE DeleteClustered(cols, c, behind) = [cols EXCEPT ![c].fault = "crash"]
    <2>1. "crash" # "none"
        OBVIOUS
    <2> HIDE DEF L
    <2>2. After(cols, [cols EXCEPT ![c].fault = "crash"], L)
        BY <2>1, SpoiledShape
    <2> QED
        BY <2>2, <1>3 DEF L
<1>4. \A d \in Columns : Becomes(cols[d], rest(d), L)
    BY ShortenedShape DEF IsTable
<1>5. Becomes(cols[c], new, L)
    <2>1. Becomes(cols[c], rest(c), L)
        BY <1>4
    <2>2. SameIndex(rest(c).index, idx)
        BY <2>1, TreeDeleteShape DEF Becomes, IsColumn
    <2>3. L \in Int
        OBVIOUS
    <2> HIDE DEF rest, idx, L
    <2> QED
        BY <2>1, <2>2, <2>3, IndexedShape
<1>6. CASE DeleteClustered(cols, c, behind) = [d \in Columns |-> rest(d)]
    <2> HIDE DEF rest, L
    <2>1. Changed(cols, DeleteClustered(cols, c, behind), L)
        BY <1>4, <1>6 DEF Changed
    <2> QED
        BY <2>1, ChangedShape DEF L
<1>7. CASE DeleteClustered(cols, c, behind) = [d \in Columns |-> IF d # c THEN rest(d) ELSE new]
    <2> HIDE DEF rest, L, new
    <2>1. Changed(cols, DeleteClustered(cols, c, behind), L)
        BY <1>4, <1>5, <1>7 DEF Changed
    <2> QED
        BY <2>1, ChangedShape DEF L
<1> QED
    BY <1>1, <1>2, <1>3, <1>6, <1>7, SMTT(60)

\* One step of the loop over the columns in db_delete.
DeleteOne(t, c, behind) == IF c \in Clusters THEN DeleteClustered(t, c, behind) ELSE t
\* f holds the columns after each step of that loop up to column n.
DeleteTo(behind, n, f) ==
    f = [c \in 0..n |-> IF c = 0 THEN columns ELSE DeleteOne(f[c - 1], c, behind)]

\* There is such a function, so the recursive one of Deleted is it.
LEMMA DeleteToSome ==
    ASSUME NEW behind, NEW n \in Nat
    PROVE  \E f : DeleteTo(behind, n, f)
<1> DEFINE S == {m \in 0..n : \E f : DeleteTo(behind, m, f)}
<1>1. DeleteTo(behind, 0, [c \in 0..0 |-> columns])
    BY DEF DeleteTo
<1>2. ASSUME NEW m \in 1..n, NEW f, DeleteTo(behind, m - 1, f)
      PROVE  DeleteTo(behind, m,
                      [c \in 0..m |-> IF c < m THEN f[c] ELSE DeleteOne(f[c - 1], c, behind)])
    BY <1>2 DEF DeleteTo
<1>3. ASSUME NEW m \in 1..n, m - 1 \in S PROVE m \in S
    <2>1. PICK f : DeleteTo(behind, m - 1, f)
        BY <1>3
    <2>2. \E g : DeleteTo(behind, m, g)
        BY <2>1, <1>2
    <2>3. m \in 0..n
        OBVIOUS
    <2> QED
        BY <2>2, <2>3
<1>4. 0 \in S
    BY <1>1
<1>5. 0..n \subseteq S
    <2> HIDE DEF S
    <2> QED BY <1>3, <1>4, Upward
<1> QED
    BY <1>5

\* Without a clustered index: one column after the other, with the counter.
ShiftOne(s, c, behind) ==
    LET r == Shortened(columns[c], columns[c].size, s.count, behind)
    IN  [cols |-> [s.cols EXCEPT ![c] = r.col], count |-> r.count]
\* f holds the columns and the counter after each step up to column n.
ShiftTo(behind, n, f) ==
    f = [c \in 0..n |-> IF c = 0 THEN [cols |-> columns, count |-> 0]
                        ELSE ShiftOne(f[c - 1], c, behind)]

\* There is such a function, so the recursive one of Deleted is it.
LEMMA ShiftToSome ==
    ASSUME NEW behind, NEW n \in Nat
    PROVE  \E f : ShiftTo(behind, n, f)
<1> DEFINE S == {m \in 0..n : \E f : ShiftTo(behind, m, f)}
<1>1. ShiftTo(behind, 0, [c \in 0..0 |-> [cols |-> columns, count |-> 0]])
    BY DEF ShiftTo
<1>2. ASSUME NEW m \in 1..n, NEW f, ShiftTo(behind, m - 1, f)
      PROVE  ShiftTo(behind, m,
                     [c \in 0..m |-> IF c < m THEN f[c] ELSE ShiftOne(f[c - 1], c, behind)])
    BY <1>2 DEF ShiftTo
<1>3. ASSUME NEW m \in 1..n, m - 1 \in S PROVE m \in S
    <2>1. PICK f : ShiftTo(behind, m - 1, f)
        BY <1>3
    <2>2. \E g : ShiftTo(behind, m, g)
        BY <2>1, <1>2
    <2>3. m \in 0..n
        OBVIOUS
    <2> QED
        BY <2>2, <2>3
<1>4. 0 \in S
    BY <1>1
<1>5. 0..n \subseteq S
    <2> HIDE DEF S
    <2> QED BY <1>3, <1>4, Upward
<1> QED
    BY <1>5

\* Without a clustered column every column loses the same number of rows,
\* wherever the shared counter stands: by induction over the columns.
LEMMA ShiftedShape ==
    ASSUME NEW behind, IsTable(columns), Len(handle.positions) \in Nat,
           NEW f, ShiftTo(behind, ColCount, f)
    PROVE  Changed(columns, f[ColCount].cols, - Len(handle.positions))
<1> DEFINE L == - Len(handle.positions)
           Partly(new, m) ==
               /\ DOMAIN new = Columns
               /\ \A c \in Columns : IF c <= m THEN Becomes(columns[c], new[c], L)
                                     ELSE new[c] = columns[c]
           S == {m \in 0..ColCount : Partly(f[m].cols, m)}
<1>1. 0 \in S
    BY TableAssumption DEF ShiftTo, IsTable, Columns
<1>2. ASSUME NEW m \in 1..ColCount, m - 1 \in S PROVE m \in S
    <2> DEFINE r == Shortened(columns[m], columns[m].size, f[m - 1].count, behind)
    <2>1. f[m] = ShiftOne(f[m - 1], m, behind)
        BY TableAssumption DEF ShiftTo
    <2>2. f[m].cols = [f[m - 1].cols EXCEPT ![m] = r.col]
        BY <2>1 DEF ShiftOne
    <2>3. m \in Columns
        BY DEF Columns
    <2>4. Becomes(columns[m], r.col, L)
        BY <2>3, ShortenedShape DEF IsTable
    <2> HIDE DEF r, L
    <2>5. Partly(f[m - 1].cols, m - 1)
        BY <1>2
    <2>6. \A c \in Columns : c # m => (c <= m <=> c <= m - 1)
        BY TableAssumption DEF Columns
    <2>7. Partly(f[m].cols, m)
        BY <2>2, <2>3, <2>4, <2>5, <2>6
    <2> QED
        BY <2>7
<1>3. 0..ColCount \subseteq S
    <2> HIDE DEF S
    <2> QED BY <1>1, <1>2, Upward, TableAssumption
<1>4. Partly(f[ColCount].cols, ColCount)
    BY <1>3, TableAssumption
<1>5. \A c \in Columns : c <= ColCount
    BY TableAssumption DEF Columns
<1> QED
    BY <1>4, <1>5 DEF Changed

\* A delete takes as many rows from every column as the handle has positions.
LEMMA DeletedShape ==
    ASSUME NEW behind, IsTable(columns), Len(handle.positions) \in Nat
    PROVE  LET new == Deleted(behind)
           IN  IsTable(new) /\ SameTypes(columns, new)
               /\ (OneCluster => After(columns, new, - Len(handle.positions)))
<1> DEFINE L == - Len(handle.positions)
<1>1. CASE Clusters = {}
    <2>1. \E f : ShiftTo(behind, ColCount, f)
        BY ShiftToSome, TableAssumption
    <2>2. Deleted(behind) = (CHOOSE f : ShiftTo(behind, ColCount, f))[ColCount].cols
        BY <1>1 DEF Deleted, ShiftTo, ShiftOne
    <2>3. Changed(columns, Deleted(behind), L)
        BY <2>1, <2>2, ShiftedShape
    <2> QED
        BY <2>3, ChangedShape DEF After
<1>2. CASE Clusters # {}
    <2>1. \E f : DeleteTo(behind, ColCount, f)
        BY DeleteToSome, TableAssumption
    <2>2. Deleted(behind) = (CHOOSE f : DeleteTo(behind, ColCount, f))[ColCount]
        BY <1>2 DEF Deleted, DeleteTo, DeleteOne
    <2>3. PICK f : DeleteTo(behind, ColCount, f) /\ Deleted(behind) = f[ColCount]
        BY <2>1, <2>2
    <2> DEFINE S == {m \in 0..ColCount : OnTheWay(columns, f[m], m, L)}
    <2>4. 0 \in S
        BY <2>3, OnTheWayStarts, TableAssumption DEF DeleteTo
    <2>5. ASSUME NEW m \in 1..ColCount, m - 1 \in S PROVE m \in S
        <3>1. f[m] = DeleteOne(f[m - 1], m, behind)
            BY <2>3, TableAssumption DEF DeleteTo
        <3>2. OnTheWay(columns, f[m - 1], m - 1, L)
            BY <2>5
        <3>3. CASE m \notin Clusters
            BY <3>1, <3>2, <3>3, OnTheWayStays DEF DeleteOne
        <3>4. CASE m \in Clusters
            <4>1. IsTable(f[m - 1]) /\ m \in Columns
                BY <3>2 DEF OnTheWay, Columns
            <4>2. After(f[m - 1], f[m], L)
                BY <3>1, <3>4, <4>1, DeleteClusteredShape DEF DeleteOne
            <4>3. OnTheWay(columns, f[m], m, L)
                BY <3>2, <3>4, <4>2, OnTheWayTurns DEF After
            <4> QED
                BY <4>3
        <3> QED
            BY <3>3, <3>4
    <2>6. 0..ColCount \subseteq S
        <3> HIDE DEF S
        <3> QED BY <2>4, <2>5, Upward, TableAssumption
    <2>7. OnTheWay(columns, f[ColCount], ColCount, L)
        BY <2>6, TableAssumption
    <2> QED
        BY <1>2, <2>3, <2>7, OnTheWayEnds
<1> QED
    BY <1>1, <1>2

-------------------------------------------------------------------------------
(* Updating *)

\* An update through a clustered column moves rows and keeps every size.
LEMMA UpdateClusteredShape ==
    ASSUME NEW cols, IsTable(cols), NEW c \in Columns, NEW value, NEW behind
    PROVE  After(cols, UpdateClustered(cols, c, value, behind), 0)
<1> DEFINE col == cols[c]
           data(d, places) == MovedAll(cols[d].data, places, behind)
           other(d, places) ==
                [cols[d] EXCEPT
                    !.data = data(d, places),
                    !.index = IF @.type \in UnclusteredTypes
                              THEN Refreshed(@, data(d, places), cols[d].size, behind) ELSE @]
           placed(u, idx) == [d \in Columns |-> IF d = c THEN [col EXCEPT !.data = u.data, !.index = idx]
                                                ELSE other(d, u.places)]
           u1 == SortPlaces(col, value, behind)
           u2 == TreePlaces(col, value, behind)
           idx2 == WithTree(col.index, u2.tree)
           spoiled(f) == [cols EXCEPT ![c].fault = f]
<1>1. \/ UpdateClustered(cols, c, value, behind) = spoiled("crash")
      \/ UpdateClustered(cols, c, value, behind) = spoiled("overflow")
      \/ UpdateClustered(cols, c, value, behind) = placed(u1, col.index)
      \/ UpdateClustered(cols, c, value, behind) = placed(u2, idx2)
    BY DEF UpdateClustered
<1>2. After(cols, spoiled("crash"), 0) /\ After(cols, spoiled("overflow"), 0)
    BY SpoiledShape
<1>3. \A d \in Columns : IsIndex(cols[d].index) /\ IsColumn(cols[d]) /\ Sized(cols[d])
    BY DEF IsTable, IsColumn
<1>4. ASSUME NEW d \in Columns, NEW places PROVE Becomes(cols[d], other(d, places), 0)
    <2> DEFINE idx == IF cols[d].index.type \in UnclusteredTypes
                      THEN Refreshed(cols[d].index, data(d, places), cols[d].size, behind)
                      ELSE cols[d].index
               moved == data(d, places)
    <2>1. SameIndex(cols[d].index, idx)
        BY <1>3, RefreshedShape DEF SameIndex
    <2>2. other(d, places) = [cols[d] EXCEPT !.data = moved, !.index = idx]
        OBVIOUS
    <2> HIDE DEF idx, other, moved
    <2> QED
        BY <1>3, <2>1, <2>2 DEF Becomes, IsColumn, SameIndex, Sized
<1>5. ASSUME NEW u, NEW idx, SameIndex(col.index, idx) PROVE After(cols, placed(u, idx), 0)
    <2>1. Becomes(col, [col EXCEPT !.data = u.data, !.index = idx], 0)
        BY <1>3, <1>5 DEF Becomes, IsColumn, SameIndex, Sized
    <2> HIDE DEF other
    <2>2. Changed(cols, placed(u, idx), 0)
        BY <2>1, <1>4 DEF Changed
    <2> QED
        BY <2>2, ChangedShape
<1>6. SameIndex(col.index, col.index) /\ SameIndex(col.index, idx2)
    BY <1>3, WithTreeShape DEF SameIndex
<1> HIDE DEF placed, u1, u2, idx2
<1> QED
    BY <1>1, <1>2, <1>5, <1>6

-------------------------------------------------------------------------------
(* Selecting *)

\* f holds the positions found in the first k cells of a column, for every k.
ScanTo(col, lo, hi, n, f) ==
    f = [k \in 0..n |->
            IF k = 0 THEN << >>
            ELSE IF InRange(col.data[k - 1], lo, hi) THEN Append(f[k - 1], k - 1) ELSE f[k - 1]]

\* There is such a function, so the recursive one of Scan is it.
LEMMA ScanToSome ==
    ASSUME NEW col, NEW lo, NEW hi, NEW n \in Nat
    PROVE  \E f : ScanTo(col, lo, hi, n, f)
<1> DEFINE S == {m \in 0..n : \E f : ScanTo(col, lo, hi, m, f)}
           Next1(s, k) == IF InRange(col.data[k - 1], lo, hi) THEN Append(s, k - 1) ELSE s
           With(f, m) == [k \in 0..m |-> IF k < m THEN f[k] ELSE Next1(f[k - 1], k)]
<1>1. \A m, f : ScanTo(col, lo, hi, m, f) <=> f = [k \in 0..m |-> IF k = 0 THEN << >> ELSE Next1(f[k - 1], k)]
    BY DEF ScanTo
<1> HIDE DEF Next1
<1>2. 0 \in S
    <2>1. [k \in 0..0 |-> << >>]
              = [k \in 0..0 |-> IF k = 0 THEN << >> ELSE Next1([j \in 0..0 |-> << >>][k - 1], k)]
        OBVIOUS
    <2>2. ScanTo(col, lo, hi, 0, [k \in 0..0 |-> << >>])
        BY <1>1, <2>1, Zenon
    <2> QED
        BY <2>2
<1>3. ASSUME NEW m \in 1..n, m - 1 \in S PROVE m \in S
    <2>1. PICK f : ScanTo(col, lo, hi, m - 1, f)
        BY <1>3
    <2> DEFINE g == With(f, m)
    <2>2. ScanTo(col, lo, hi, m, g)
        <3>1. f = [k \in 0..(m - 1) |-> IF k = 0 THEN << >> ELSE Next1(f[k - 1], k)]
            BY <1>1, <2>1
        <3>2. \A k \in 0..m : g[k] = IF k = 0 THEN << >> ELSE Next1(g[k - 1], k)
            <4>1. g[0] = << >>
                BY <3>1
            <4>2. \A k \in 1..m : g[k] = Next1(f[k - 1], k)
                BY <3>1
            <4>3. \A k \in 1..m : g[k - 1] = f[k - 1]
                OBVIOUS
            <4>4. \A k \in 0..m : k = 0 \/ (k \in 1..m /\ k # 0)
                OBVIOUS
            <4> HIDE DEF With
            <4> QED
                BY <4>1, <4>2, <4>3, <4>4, Zenon
        <3>3. g = [k \in 0..m |-> g[k]]
            OBVIOUS
        <3> HIDE DEF With
        <3>4. g = [k \in 0..m |-> IF k = 0 THEN << >> ELSE Next1(g[k - 1], k)]
            BY <3>2, <3>3
        <3> QED
            BY <1>1, <3>4, Zenon
    <2>3. m \in 0..n
        OBVIOUS
    <2> QED
        BY <2>2, <2>3
<1>4. 0..n \subseteq S
    <2> HIDE DEF S
    <2> QED BY <1>2, <1>3, Upward
<1> QED
    BY <1>4

\* A scan returns a sequence of positions.
LEMMA ScanType ==
    ASSUME NEW col, col.size \in Nat, NEW lo, NEW hi
    PROVE  Scan(col, lo, hi) \in Seq(Int)
<1>1. \E f : ScanTo(col, lo, hi, col.size, f)
    BY ScanToSome
<1>2. Scan(col, lo, hi) = (CHOOSE f : ScanTo(col, lo, hi, col.size, f))[col.size]
    BY DEF Scan, ScanTo
<1>3. PICK f : ScanTo(col, lo, hi, col.size, f) /\ Scan(col, lo, hi) = f[col.size]
    BY <1>1, <1>2
<1> DEFINE S == {m \in 0..col.size : f[m] \in Seq(Int)}
<1>4. 0 \in S
    BY <1>3, EmptySeq DEF ScanTo
<1>5. ASSUME NEW m \in 1..col.size, m - 1 \in S PROVE m \in S
    <2>1. f[m] = IF InRange(col.data[m - 1], lo, hi) THEN Append(f[m - 1], m - 1) ELSE f[m - 1]
        <3>1. m \in 0..col.size /\ m # 0
            OBVIOUS
        <3> QED
            BY <1>3, <3>1, Zenon DEF ScanTo
    <2>2. f[m - 1] \in Seq(Int) /\ m - 1 \in Int
        BY <1>5
    <2>3. Append(f[m - 1], m - 1) \in Seq(Int)
        BY <2>2
    <2>4. f[m] \in Seq(Int)
        BY <2>1, <2>2, <2>3
    <2>5. m \in 0..col.size
        OBVIOUS
    <2> QED
        BY <2>4, <2>5
<1>6. 0..col.size \subseteq S
    <2> HIDE DEF S
    <2> QED BY <1>4, <1>5, Upward
<1> QED
    BY <1>3, <1>6

\* A handle has a number of positions, whichever way the select was answered.
LEMMA SelectAnswerType ==
    ASSUME NEW col, col.size \in Nat, NEW lo, NEW hi, NEW batched, NEW behind
    PROVE  Len(SelectAnswer(col, lo, hi, batched, behind).positions) \in Nat
<1>1. Len(Scan(col, lo, hi)) \in Nat
    BY ScanType, LenProperties
<1>2. Len(Crash.positions) = 0
    BY EmptySeq DEF Crash
<1>3. Len(Answer(col.index, col.data, col.size, lo, hi, behind).positions) \in Nat
    <2> DEFINE idx == col.index
               n == col.size
               a == CASE idx.type \in {"CLUSTER_SORT", "UNCLUSTER_SORT"} ->
                              SortedAnswer(idx, col.data, n, lo, hi, behind)
                       [] idx.type = "CLUSTER_BTREE" -> ClusteredTreeAnswer(idx.tree, n, lo, hi)
                       [] idx.type = "UNCLUSTER_BTREE" -> UnclusteredTreeAnswer(idx.tree, lo, hi)
    <2>1. Answer(idx, col.data, n, lo, hi, behind)
              = IF ~ idx.built THEN Crash ELSE IF Len(a.positions) \in 0..n THEN a ELSE Crash
        BY DEF Answer
    <2> HIDE DEF a
    <2> QED
        BY <1>2, <2>1
<1> QED
    BY <1>1, <1>3 DEF SelectAnswer, Answered

-------------------------------------------------------------------------------
(* The commands *)

\* The inductive invariant: the columns have their shape, and while nothing went
\* wrong and at most one column is clustered every size is table_length.
SizeInv ==
    /\ IsTable(columns)
    /\ table_length \in Int
    /\ DOMAIN handle = {"positions", "null", "fresh"} /\ Len(handle.positions) \in Nat
    /\ ~ Faulty /\ OneCluster => \A c \in Columns : columns[c].size = table_length

\* The condition of SizesAgree, said without counting.
LEMMA OneClusterIs ==
    ASSUME Cardinality(Clusters) <= 1
    PROVE  OneCluster
<1> SUFFICES ASSUME NEW c \in Clusters, NEW d \in Clusters, c # d PROVE FALSE
    BY DEF OneCluster
<1>1. IsFiniteSet(Clusters)
    <2>1. IsFiniteSet(1..ColCount)
        BY FS_Interval, TableAssumption
    <2>2. Clusters \subseteq 1..ColCount
        BY DEF Clusters, Columns
    <2> QED
        BY <2>1, <2>2, FS_Subset
<1>2. IsFiniteSet({c, d}) /\ Cardinality({c, d}) = 2
    <2>1. IsFiniteSet({d}) /\ Cardinality({d}) = 1
        BY FS_Singleton
    <2>2. {d} \cup {c} = {c, d} /\ c \notin {d}
        OBVIOUS
    <2> QED
        BY <2>1, <2>2, FS_AddElement
<1>3. Cardinality({c, d}) <= Cardinality(Clusters)
    BY <1>1, FS_Subset
<1>4. Cardinality(Clusters) \in Nat
    BY <1>1, FS_CardinalityType
<1> QED
    BY <1>2, <1>3, <1>4

\* Without a fault the sizes are natural numbers.
LEMMA Healthy ==
    ASSUME SizeInv, ~ Faulty
    PROVE  \A c \in Columns : IsColumn(columns[c]) /\ Sized(columns[c]) /\ columns[c].size \in Nat
BY DEF SizeInv, IsTable, Sized, Faulty

\* A command that adds d rows to every column and d to table_length keeps the
\* sizes equal.
LEMMA CommandSizes ==
    ASSUME SizeInv, ~ Faulty, NEW d \in Int,
           IsTable(columns'), SameTypes(columns, columns'),
           OneCluster => After(columns, columns', d),
           table_length' = table_length + d
    PROVE  /\ table_length' \in Int
           /\ ~ Faulty' /\ OneCluster' => \A c \in Columns : columns'[c].size = table_length'
<1>1. Clusters' = Clusters
    BY DEF Clusters, Has, SameTypes
<1>2. OneCluster' <=> OneCluster
    BY <1>1 DEF OneCluster
<1>3. ~ Faulty' => ~ Bad(columns')
    BY DEF Faulty, Bad
<1>4. table_length \in Int
    BY DEF SizeInv
<1>5. ~ Faulty' /\ OneCluster => \A c \in Columns : columns'[c].size = columns[c].size + d
    BY <1>3 DEF After, Changed, Becomes
<1> QED
    BY <1>2, <1>4, <1>5 DEF SizeInv

\* A command that is no select leaves the handle its positions.
LEMMA HandleStays ==
    ASSUME SizeInv, NEW moves, Done(moves)
    PROVE  DOMAIN handle' = {"positions", "null", "fresh"} /\ Len(handle'.positions) \in Nat
BY DEF SizeInv, Done

\* create(idx): no size changes, and columns only become clustered.
LEMMA CreateIndexSizes ==
    ASSUME SizeInv, NEW c \in Columns, NEW type, CreateIndex(c, type)
    PROVE  SizeInv'
<1>1. /\ ~ Faulty /\ Has(c, {"NONE"})
      /\ columns' = [columns EXCEPT ![c].index = NewIndex(type)]
      /\ UNCHANGED <<table_length, handle>>
    BY DEF CreateIndex, Ready
<1>2. /\ IsColumn([columns[c] EXCEPT !.index = NewIndex(type)])
      /\ [columns[c] EXCEPT !.index = NewIndex(type)].size = columns[c].size
      /\ [columns[c] EXCEPT !.index = NewIndex(type)].fault = columns[c].fault
      /\ [columns[c] EXCEPT !.index = NewIndex(type)].index = NewIndex(type)
    BY NewIndexShape DEF SizeInv, IsTable, IsColumn
<1>3. DOMAIN columns = Columns
    BY DEF SizeInv, IsTable
<1>4. columns'[c] = [columns[c] EXCEPT !.index = NewIndex(type)]
      /\ (\A d \in Columns : d # c => columns'[d] = columns[d])
      /\ DOMAIN columns' = Columns
    BY <1>1, <1>3
<1>5. IsTable(columns')
    BY <1>2, <1>4, ZenonT(60) DEF IsTable, SizeInv, Sized
<1>6. Clusters \subseteq Clusters'
    BY <1>1, <1>4 DEF Clusters, Has, ClusteredTypes
<1>7. \A d \in Columns : columns'[d].size = columns[d].size
    BY <1>2, <1>4
<1>8. OneCluster' => OneCluster
    BY <1>6 DEF OneCluster
<1> QED
    BY <1>1, <1>5, <1>7, <1>8 DEF SizeInv

\* select: no size changes.
LEMMA SelectSizes ==
    ASSUME SizeInv, NEW c \in Columns, NEW lo, NEW hi, NEW batched, Select(c, lo, hi, batched)
    PROVE  SizeInv'
<1>1. ~ Faulty /\ table_length' = table_length
    BY DEF Select, Ready
<1>2. PICK behind \in Junk :
           LET a == SelectAnswer(columns[c], lo, hi, batched, behind)
           IN  /\ columns' = IF a.ok THEN columns ELSE [columns EXCEPT ![c].index.fault = "crash"]
               /\ handle' = [positions |-> a.positions, fresh |-> TRUE,
                             null |-> a.positions = << >> /\ columns[c].size > 0]
    BY DEF Select
<1>3. DOMAIN handle' = {"positions", "null", "fresh"} /\ Len(handle'.positions) \in Nat
    BY <1>1, <1>2, Healthy, SelectAnswerType
<1>4. columns' = columns \/ columns' = [columns EXCEPT ![c].index.fault = "crash"]
    BY <1>2
<1>5. Changed(columns, columns', 0)
    <2>1. CASE columns' = columns
        BY <2>1, ChangedNot DEF SizeInv
    <2>2. CASE columns' = [columns EXCEPT ![c].index.fault = "crash"]
        <3>1. Becomes(columns[c], [columns[c] EXCEPT !.index.fault = "crash"], 0)
            BY Healthy, <1>1 DEF Becomes, IsColumn, IsIndex, Sized
        <3>2. \A d \in Columns : Becomes(columns[d], columns[d], 0)
            BY ChangedNot DEF SizeInv, Changed
        <3> QED
            BY <2>2, <3>1, <3>2 DEF Changed, SizeInv, IsTable
    <2> QED
        BY <1>4, <2>1, <2>2
<1>6. After(columns, columns', 0)
    BY <1>5, ChangedShape
<1>7. table_length' = table_length + 0
    BY <1>1 DEF SizeInv
<1> QED
    BY <1>1, <1>3, <1>6, <1>7, CommandSizes DEF SizeInv, After

\* load: every column and table_length grow by the rows of the file, or by one
\* row that was never read if the file has none.
LEMMA LoadSizes ==
    ASSUME SizeInv, NEW file \in Files, NEW last \in BOOLEAN, Load(file, last)
    PROVE  SizeInv'
<1>1. ~ Faulty /\ Done(Clusters # {})
    BY DEF Load, Ready
<1> DEFINE Read(behind) == IF file # << >> THEN file
                           ELSE <<[c \in Columns |-> IF c = 1 THEN 0 ELSE behind]>>
           Loaded(behind) == [c \in Columns |->
               Extended(columns[c], [k \in DOMAIN Read(behind) |-> Read(behind)[k][c]])]
<1>2. PICK behind \in Junk :
          /\ columns' = IF last THEN AllBuilt(Loaded(behind), behind) ELSE Loaded(behind)
          /\ table_length' = table_length + Len(Read(behind))
    BY DEF Load
<1> DEFINE read == Read(behind)
           L == Len(read)
<1>3. L \in Nat /\ DOMAIN read = 1..L
    <2>1. CASE file # << >>
        BY <2>1, TableAssumption, LenProperties
    <2>2. CASE file = << >>
        <3>1. read = <<[c \in Columns |-> IF c = 1 THEN 0 ELSE behind]>>
            BY <2>2
        <3>2. \A x : Len(<<x>>) = 1 /\ DOMAIN <<x>> = 1..1
            OBVIOUS
        <3> HIDE DEF read
        <3> QED
            BY <3>1, <3>2
    <2> QED
        BY <2>1, <2>2
<1>4. \A c \in Columns : Len([k \in DOMAIN read |-> read[k][c]]) = L
    <2> HIDE DEF read
    <2> QED
        BY <1>3
<1> HIDE DEF Read
<1>5. Changed(columns, Loaded(behind), L)
    BY <1>1, <1>3, <1>4, Healthy, ExtendedShape DEF Changed
<1> HIDE DEF Loaded, L
<1>6. Changed(columns, columns', L)
    <2>1. IsTable(Loaded(behind))
        BY <1>5, ChangedShape DEF After
    <2>2. Changed(Loaded(behind), AllBuilt(Loaded(behind), behind), 0)
        BY <2>1, AllBuiltShape
    <2>3. Changed(columns, AllBuilt(Loaded(behind), behind), L)
        BY <1>3, <1>5, <2>2, ChangedThen DEF SizeInv
    <2> QED
        BY <1>2, <1>5, <2>3
<1>7. After(columns, columns', L)
    BY <1>6, ChangedShape
<1>8. table_length' = table_length + L /\ L \in Int
    BY <1>2, <1>3 DEF L
<1>9. DOMAIN handle' = {"positions", "null", "fresh"} /\ Len(handle'.positions) \in Nat
    BY <1>1, HandleStays
<1> QED
    BY <1>1, <1>7, <1>8, <1>9, CommandSizes DEF SizeInv, After

\* relational_insert: one row more, before or after the capacity grew.
LEMMA InsertSizes ==
    ASSUME SizeInv, NEW values, InsertRow(values)
    PROVE  SizeInv'
<1>1. ~ Faulty /\ Done(Clusters # {}) /\ table_length' = table_length + 1
    BY DEF InsertRow, Ready
<1> DEFINE cols == IF table_length = columns[1].capacity
                   THEN [c \in Columns |-> Increased(columns[c])] ELSE columns
<1>2. PICK behind \in Junk : columns' = Inserted(cols, values, behind)
    BY DEF InsertRow
<1>3. Changed(columns, cols, 0)
    <2>1. Changed(columns, [c \in Columns |-> Increased(columns[c])], 0)
        BY <1>1, Healthy, IncreasedShape DEF Changed
    <2> QED
        BY <2>1, ChangedNot DEF SizeInv
<1>4. IsTable(cols) /\ SameTypes(columns, cols)
    BY <1>3, ChangedShape DEF After
<1> HIDE DEF cols
<1>5. IsTable(columns') /\ SameTypes(cols, columns') /\ (OneCluster => After(cols, columns', 1))
    BY <1>2, <1>4, InsertedShape
<1>6. SameTypes(columns, columns')
    BY <1>4, <1>5 DEF SameTypes
<1>7. OneCluster => After(columns, columns', 1)
    BY <1>3, <1>5, <1>6 DEF After, Changed, Becomes, SizeInv, IsTable, Sized
<1>8. DOMAIN handle' = {"positions", "null", "fresh"} /\ Len(handle'.positions) \in Nat
    BY <1>1, HandleStays
<1> QED
    BY <1>1, <1>5, <1>6, <1>7, <1>8, CommandSizes DEF SizeInv

\* relational_delete: the positions of the handle, or a crash.
LEMMA DeleteSizes ==
    ASSUME SizeInv, DeleteRows
    PROVE  SizeInv'
<1>1. ~ Faulty /\ Done(TRUE)
    BY DEF DeleteRows, Ready
<1>2. DOMAIN handle' = {"positions", "null", "fresh"} /\ Len(handle'.positions) \in Nat
    BY <1>1, HandleStays
<1>3. CASE FollowsNull
    <2>1. columns' = [columns EXCEPT ![1].fault = "crash"] /\ table_length' = table_length
        BY <1>3 DEF DeleteRows
    <2>2. 1 \in Columns /\ "crash" # "none"
        BY TableAssumption DEF Columns
    <2>3. After(columns, columns', 0)
        BY <2>1, <2>2, SpoiledShape DEF SizeInv
    <2>4. table_length' = table_length + 0
        BY <2>1 DEF SizeInv
    <2> QED
        BY <1>1, <1>2, <2>3, <2>4, CommandSizes DEF SizeInv, After
<1>4. CASE ~ FollowsNull
    <2> DEFINE L == - Len(handle.positions)
    <2>1. PICK behind \in Junk : columns' = Deleted(behind)
        BY <1>4 DEF DeleteRows
    <2>2. IsTable(columns') /\ SameTypes(columns, columns') /\ (OneCluster => After(columns, columns', L))
        BY <2>1, DeletedShape DEF SizeInv
    <2>3. table_length' = table_length + L /\ L \in Int
        BY <1>4 DEF DeleteRows, SizeInv
    <2> HIDE DEF L
    <2> QED
        BY <1>1, <1>2, <2>2, <2>3, CommandSizes DEF SizeInv
<1> QED
    BY <1>3, <1>4

\* relational_update: no size changes.
LEMMA UpdateSizes ==
    ASSUME SizeInv, NEW c \in Columns, NEW value, Update(c, value)
    PROVE  SizeInv'
<1>1. ~ Faulty /\ Done(Has(c, ClusteredTypes)) /\ table_length' = table_length
    BY DEF Update, Ready
<1>2. PICK behind \in Junk :
           columns' = IF Has(c, ClusteredTypes) THEN UpdateClustered(columns, c, value, behind)
                      ELSE [columns EXCEPT ![c] = UpdateInPlace(@, value, behind)]
    BY DEF Update
<1>3. After(columns, columns', 0)
    <2>1. After(columns, UpdateClustered(columns, c, value, behind), 0)
        BY UpdateClusteredShape DEF SizeInv
    <2>2. Changed(columns, [columns EXCEPT ![c] = UpdateInPlace(@, value, behind)], 0)
        <3>1. Becomes(columns[c], UpdateInPlace(columns[c], value, behind), 0)
            BY <1>1, Healthy, UpdateInPlaceShape
        <3>2. \A d \in Columns : Becomes(columns[d], columns[d], 0)
            BY ChangedNot DEF SizeInv, Changed
        <3> QED
            BY <3>1, <3>2 DEF Changed, SizeInv, IsTable
    <2> QED
        BY <1>2, <2>1, <2>2, ChangedShape
<1>4. table_length' = table_length + 0
    BY <1>1 DEF SizeInv
<1>5. DOMAIN handle' = {"positions", "null", "fresh"} /\ Len(handle'.positions) \in Nat
    BY <1>1, HandleStays
<1> QED
    BY <1>1, <1>3, <1>4, <1>5, CommandSizes DEF SizeInv, After

\* A new table is empty.
LEMMA InitSizes ==
    ASSUME Init
    PROVE  SizeInv
<1>1. IsColumn(NewColumn) /\ Sized(NewColumn) /\ NewColumn.size = 0
    BY NewIndexShape DEF NewColumn, IsColumn, Sized
<1>2. Len(<< >>) = 0
    BY EmptySeq
<1> QED
    BY <1>1, <1>2 DEF Init, SizeInv, IsTable

\* Every step keeps the invariant.
LEMMA StepSizes ==
    ASSUME SizeInv, [Next]_vars
    PROVE  SizeInv'
<1>1. CASE UNCHANGED vars
    BY <1>1 DEF vars, SizeInv, Faulty, OneCluster, Clusters, Has
<1>2. CASE Next
    BY <1>2, CreateIndexSizes, SelectSizes, LoadSizes, InsertSizes, DeleteSizes, UpdateSizes DEF Next
<1> QED
    BY <1>1, <1>2

\* db_load, db_create_index, db_insert, db_delete and db_update keep the columns
\* of a table in shape and in step with table_length, for any number of columns,
\* any files and any values (execute.c:334-640).
THEOREM SizesInvariance == Spec => []SizeInv
<1>1. Init => SizeInv
    BY InitSizes
<1>2. SizeInv /\ [Next]_vars => SizeInv'
    BY StepSizes
<1> QED
    BY <1>1, <1>2, PTL DEF Spec

\* As long as nothing went wrong and at most one column is clustered, every
\* column has table_length rows, also if the conditions the other properties
\* need are not kept (execute.c:334-640).
THEOREM ColumnsAgree == Spec => []SizesAgree
<1>1. SizeInv => SizesAgree
    BY OneClusterIs DEF SizeInv, SizesAgree
<1> QED
    BY <1>1, SizesInvariance, PTL

-------------------------------------------------------------------------------
(* Types of columns *)

\* Only sorted indexes are asked for.
NoTree == \A c \in Columns : Types[c] \subseteq SortKinds
\* A column without a tree, whatever happened to it.
Typed(col) ==
    /\ IsColumn(col) /\ col.size \in Int /\ col.data \in [Cells(col.size) -> Int]
    /\ col.capacity \in Nat \ {0} /\ col.room \in Nat
    /\ Plain(col.index)

\* A new column.
LEMMA NewColumnTyped == Typed(NewColumn) /\ NewColumn.size = 0
BY NothingType, NewIndexPlain, TableAssumption DEF NewColumn, Typed, IsColumn, Plain, SortKinds

\* A fault changes nothing else.
LEMMA FaultTyped ==
    ASSUME NEW col, Typed(col), NEW f
    PROVE  /\ Typed([col EXCEPT !.fault = f])
           /\ [col EXCEPT !.fault = f].size = col.size
           /\ [col EXCEPT !.fault = f].index = col.index
BY DEF Typed, IsColumn

\* Noting a fault changes nothing else.
LEMMA WithFaultTyped ==
    ASSUME NEW col, Typed(col), NEW bad \in BOOLEAN
    PROVE  /\ Typed(WithFault(col, bad))
           /\ WithFault(col, bad).size = col.size
           /\ WithFault(col, bad).index = col.index
BY FaultTyped DEF WithFault

\* Another index of a column.
LEMMA IndexedTyped ==
    ASSUME NEW col, Typed(col), NEW idx, Plain(idx)
    PROVE  /\ Typed([col EXCEPT !.index = idx])
           /\ [col EXCEPT !.index = idx].size = col.size
           /\ [col EXCEPT !.index = idx].index = idx
BY DEF Typed, IsColumn, Plain

\* One more cell of a load.
GrownStep(size, g, k) == IF size + k - 1 = g THEN 2 * g ELSE g
\* f is the recursive function of Grown.
GrownTo(capacity, size, n, f) ==
    f = [k \in 0..n |-> IF k = 0 THEN capacity ELSE GrownStep(size, f[k - 1], k)]

\* The capacity of a column that is loaded never falls, and there is room for
\* every row.
LEMMA GrownRight ==
    ASSUME NEW capacity \in Nat \ {0}, NEW size \in Nat, NEW n \in Nat
    PROVE  LET g == Grown(capacity, size, n)
           IN  /\ g \in Nat \ {0} /\ capacity <= g
               /\ size <= capacity => size + n <= g
               /\ size = capacity /\ n > 0 => capacity < g
<1> DEFINE X == Nat \ {0}
           step(g, k) == GrownStep(size, g, k)
           N == [p \in (1..n) \X X |-> step(p[2], p[1])]
<1>2. ASSUME NEW g \in X, NEW k \in 1..n PROVE step(g, k) \in X /\ g <= step(g, k)
    BY DEF GrownStep
<1>3. Grown(capacity, size, n) = (CHOOSE f : GrownTo(capacity, size, n, f))[n]
    BY DEF Grown, GrownTo, GrownStep
<1> HIDE DEF step
<1>4. Steps(N, n, X)
    BY <1>2 DEF Steps
<1>5. \A k \in 1..n, g \in X : N[<<k, g>>] = step(g, k)
    OBVIOUS
<1> HIDE DEF N
<1>7. PICK h \in [0..n -> X] : h = [k \in 0..n |-> IF k = 0 THEN capacity ELSE N[<<k, h[k - 1]>>]]
    <2>1. capacity \in X
        OBVIOUS
    <2> HIDE DEF X
    <2> QED
        BY <1>4, <2>1, IterationSome
<1>8. h = [k \in 0..n |-> IF k = 0 THEN capacity ELSE step(h[k - 1], k)]
    <2>1. \A k \in 0..n : k # 0 => k \in 1..n /\ k - 1 \in 0..n
        OBVIOUS
    <2>2. \A k \in 0..n : k # 0 => N[<<k, h[k - 1]>>] = step(h[k - 1], k)
        <3> HIDE DEF X
        <3> QED BY <2>1, <1>5, <1>7
    <2> QED
        BY <1>7, <2>2, Zenon
<1>9. \E f : GrownTo(capacity, size, n, f)
    BY <1>8 DEF GrownTo, step
<1>10. PICK f : GrownTo(capacity, size, n, f) /\ Grown(capacity, size, n) = f[n]
    BY <1>3, <1>9
<1>11. f = [k \in 0..n |-> IF k = 0 THEN capacity ELSE step(f[k - 1], k)]
    BY <1>10, Zenon DEF GrownTo, step
<1>12. f[0] = capacity /\ \A k \in 1..n : f[k] = step(f[k - 1], k)
    <2>1. 0 \in 0..n /\ \A k \in 1..n : k \in 0..n /\ k # 0
        OBVIOUS
    <2> QED
        BY <1>11, <2>1, Zenon
<1> DEFINE Y == {k \in 0..n : /\ f[k] \in X /\ capacity <= f[k]
                              /\ size <= capacity => size + k <= f[k]
                              /\ size = capacity /\ k > 0 => capacity < f[k]}
<1>13. 0 \in Y
    BY <1>12
<1>14. ASSUME NEW m \in 1..n, m - 1 \in Y PROVE m \in Y
    <2>1. /\ f[m - 1] \in X /\ capacity <= f[m - 1]
          /\ size <= capacity => size + (m - 1) <= f[m - 1]
          /\ size = capacity /\ m - 1 > 0 => capacity < f[m - 1]
        BY <1>14
    <2>2. f[m] = IF size + m - 1 = f[m - 1] THEN 2 * f[m - 1] ELSE f[m - 1]
        BY <1>12 DEF step, GrownStep
    <2>3. m \in 0..n
        OBVIOUS
    <2>4. /\ f[m] \in X /\ capacity <= f[m]
          /\ size <= capacity => size + m <= f[m]
        BY <2>1, <2>2, SMTT(60)
    <2>5. size = capacity => capacity < f[m]
        <3>1. CASE m = 1
            BY <3>1, <2>2, <1>12
        <3>2. CASE m # 1
            BY <3>2, <2>1, <2>2
        <3> QED BY <3>1, <3>2
    <2> QED
        BY <2>3, <2>4, <2>5
<1>15. 0..n \subseteq Y
    <2> HIDE DEF Y
    <2> QED BY <1>13, <1>14, Upward
<1>16. n \in Y
    BY <1>15
<1> QED
    BY <1>10, <1>16

\* A load adds the values of the file.
LEMMA ExtendedTyped ==
    ASSUME NEW col, Typed(col), col.size \in Nat, NEW values \in Seq(Int)
    PROVE  LET new == Extended(col, values)
           IN  /\ Typed(new) /\ new.index = col.index /\ new.size = col.size + Len(values)
<1> DEFINE n == Len(values)
           capacity == Grown(col.capacity, col.size, n)
           filled == IF col.size + n < col.capacity THEN col.size + n ELSE col.capacity
           data == [i \in Cells(col.size + n) |-> IF i < col.size THEN col.data[i] ELSE values[i - col.size + 1]]
           room == IF capacity = col.capacity THEN col.room ELSE capacity
           new == [col EXCEPT !.data = data, !.size = col.size + n, !.capacity = capacity, !.room = room]
           bad == filled > col.room
<1>0. n \in Nat /\ \A i \in 1..n : values[i] \in Int
    OBVIOUS
<1>1. Extended(col, values) = WithFault(new, bad)
    BY DEF Extended
<1>2. capacity \in Nat \ {0}
    <2> HIDE DEF n
    <2> QED BY <1>0, GrownRight DEF Typed
<1>3. data \in [Cells(col.size + n) -> Int]
    <2>1. ASSUME NEW i \in Cells(col.size + n), i < col.size PROVE col.data[i] \in Int
        BY <2>1 DEF Typed, Cells
    <2>2. ASSUME NEW i \in Cells(col.size + n), ~ (i < col.size) PROVE values[i - col.size + 1] \in Int
        <3>1. i - col.size + 1 \in 1..n
            BY <2>2, <1>0 DEF Cells
        <3> QED
            BY <3>1, <1>0
    <2> QED
        BY <2>1, <2>2
<1>4. bad \in BOOLEAN
    OBVIOUS
<1>5. room \in Nat
    BY <1>2 DEF Typed
<1> HIDE DEF data, capacity, room, bad, n
<1>6. Typed(new) /\ new.index = col.index /\ new.size = col.size + n
    BY <1>0, <1>2, <1>3, <1>5 DEF Typed, IsColumn
<1> HIDE DEF new
<1> QED
    BY <1>1, <1>4, <1>6, WithFaultTyped DEF n

\* A column in the order of another one.
LEMMA ReorderedTyped ==
    ASSUME NEW col, Typed(col), col.size \in Nat, NEW order, NEW behind \in Int
    PROVE  LET new == Reordered(col, order, behind)
           IN  Typed(new) /\ new.index = col.index /\ new.size = col.size
<1> DEFINE data == [i \in Cells(col.size) |-> Cell(col.data, Cell(order, i, behind), behind)]
<1>1. data \in [Cells(col.size) -> Int]
    BY FunctionArray, CellType DEF Typed
<1>2. Reordered(col, order, behind) = [col EXCEPT !.data = data, !.room = col.size]
    BY DEF Reordered
<1> HIDE DEF data
<1> QED
    BY <1>1, <1>2 DEF Typed, IsColumn

\* db_increase_capacity.
LEMMA IncreasedTyped ==
    ASSUME NEW col, Typed(col)
    PROVE  LET new == Increased(col)
           IN  Typed(new) /\ new.index.type = col.index.type /\ new.size = col.size
<1> DEFINE capacity == 2 * col.capacity
           idx == IF col.index.type \notin {"CLUSTER_SORT", "UNCLUSTER_SORT"} THEN col.index
                  ELSE IF ~ col.index.built THEN [col.index EXCEPT !.fault = "crash"]
                  ELSE [col.index EXCEPT !.room = capacity]
<1>1. Increased(col) = [col EXCEPT !.capacity = capacity, !.room = capacity, !.index = idx]
    BY DEF Increased
<1>2. capacity \in Nat \ {0}
    BY DEF Typed
<1> HIDE DEF capacity
<1>3. Plain(idx) /\ idx.type = col.index.type
    BY <1>2, FaultPlain DEF Typed, Plain, IsIndex
<1> HIDE DEF idx
<1> QED
    BY <1>1, <1>2, <1>3 DEF Typed, IsColumn, Plain

\* A row takes a place in a column.
LEMMA OpenedAtTyped ==
    ASSUME NEW col, Typed(col), col.size \in Nat, NEW i \in Nat, NEW n \in Nat, NEW value \in Int,
           NEW behind \in Int
    PROVE  LET new == OpenedAt(col, i, n, value, behind)
           IN  Typed(new) /\ new.index = col.index /\ new.size = col.size + 1
<1> DEFINE gap == Opened(Filled(col.data, n + 1, behind), i, n, value)
           data == Filled(gap, col.size + 1, behind)
           new == [col EXCEPT !.data = data, !.size = col.size + 1]
           bad == n >= col.room \/ i >= col.room \/ i = Unset
<1>1. OpenedAt(col, i, n, value, behind) = WithFault(new, bad)
    BY DEF OpenedAt
<1>2. bad \in BOOLEAN
    OBVIOUS
<1>3. data \in [Cells(col.size + 1) -> Int]
    <2>1. Filled(col.data, n + 1, behind) \in [Cells(n + 1) -> Int]
        BY FilledType, FunctionArray DEF Typed
    <2>2. gap \in [Cells(n + 1) -> Int]
        BY <2>1, OpenedType
    <2> HIDE DEF gap
    <2> QED
        BY <2>2, FilledType, FunctionArray
<1> HIDE DEF data, bad
<1>4. Typed(new) /\ new.index = col.index /\ new.size = col.size + 1
    BY <1>3 DEF Typed, IsColumn
<1> HIDE DEF new
<1> QED
    BY <1>1, <1>2, <1>4, WithFaultTyped

\* The index of another column takes the row.
LEMMA NotedPlain ==
    ASSUME NEW idx, Plain(idx), NEW n \in Nat, NEW value \in Int, NEW i \in Int, NEW behind \in Int
    PROVE  Plain(Noted(idx, n, value, i, behind))
<1>1. Noted(idx, n, value, i, behind)
          = IF idx.type # "UNCLUSTER_SORT" THEN idx
            ELSE IF ~ idx.built THEN [idx EXCEPT !.fault = "crash"]
            ELSE SortInsert(idx, n, value, i, behind)
    BY DEF Noted, Plain, SortKinds, UnclusteredTypes
<1> QED
    BY <1>1, FaultPlain, SortInsertPlain, ZenonT(60)

\* A row at the end.
LEMMA InsertLastTyped ==
    ASSUME NEW col, Typed(col), col.size \in Nat, col.index.type # "CLUSTER_SORT",
           NEW n \in Nat, NEW value \in Int, NEW behind \in Int
    PROVE  LET new == InsertLast(col, n, value, behind)
           IN  Typed(new) /\ new.size = col.size + 1 /\ new.index.type = col.index.type
<1> DEFINE mid == OpenedAt(col, n, n, value, behind)
           idx == IF mid.index.type = "NONE" THEN mid.index ELSE [mid.index EXCEPT !.fault = "crash"]
<1>1. Typed(mid) /\ mid.index = col.index /\ mid.size = col.size + 1
    BY OpenedAtTyped
<1> HIDE DEF mid
<1>2. InsertLast(col, n, value, behind) =
          [mid EXCEPT !.index = IF mid.index.type = "NONE" THEN mid.index
                  ELSE IF mid.index.type = "UNCLUSTER_SORT" \/ ~ mid.index.built
                       THEN [mid.index EXCEPT !.fault = "crash"]
                  ELSE TreeInsert(mid.index, value, n)]
    BY DEF InsertLast, mid
<1>3. mid.index.type \in {"NONE", "UNCLUSTER_SORT"} /\ Plain(mid.index)
    BY <1>1 DEF Typed, Plain, SortKinds
<1>4. InsertLast(col, n, value, behind) = [mid EXCEPT !.index = idx]
    BY <1>2, <1>3
<1>5. Plain(idx) /\ idx.type = col.index.type
    BY <1>1, <1>3, FaultPlain
<1> HIDE DEF idx
<1> QED
    BY <1>1, <1>4, <1>5, IndexedTyped

\* A column without the rows of the handle.
LEMMA ShortenedTyped ==
    ASSUME NEW col, Typed(col), NEW m, NEW count, NEW behind \in Int, Len(handle.positions) \in Nat
    PROVE  LET new == Shortened(col, m, count, behind).col
           IN  /\ Typed(new) /\ new.size = col.size - Len(handle.positions)
               /\ new.index.type = col.index.type
<1> DEFINE k == Len(handle.positions)
           data == Removed(col.data, col.size, handle.positions, m, count, behind).data
           idx == IF col.index.type \in UnclusteredTypes
                  THEN DeleteUnclustered(col.index, col.data, col.size, handle.positions, behind)
                  ELSE col.index
           new == [col EXCEPT !.index = idx, !.data = data, !.size = @ - k]
           bad == k > col.size
<1>1. Shortened(col, m, count, behind).col = WithFault(new, bad)
    BY DEF Shortened
<1>2. data \in [Cells(col.size - k) -> Int]
    <2>1. PICK c : data = [p \in Cells(col.size - k) |->
                       IF p < m THEN Cell(col.data, p + c[p], behind) ELSE col.data[p]]
        BY DEF Removed
    <2>2. \A p \in Cells(col.size - k) : col.data[p] \in Int
        BY DEF Cells, Typed
    <2>3. \A i : Cell(col.data, i, behind) \in Int
        BY FunctionArray, CellType DEF Typed
    <2> HIDE DEF data, k
    <2> QED
        BY <2>1, <2>2, <2>3
<1>3. Plain(idx) /\ idx.type = col.index.type
    <2>1. Plain(col.index) /\ IsIndex(col.index) /\ col.size \in Int
        BY DEF Typed, Plain
    <2>2. CASE ~ (col.index.type \in UnclusteredTypes)
        BY <2>1, <2>2
    <2>3. CASE col.index.type \in UnclusteredTypes
        <3>1. col.index.type = "UNCLUSTER_SORT"
            BY <2>1, <2>3 DEF Plain, SortKinds, UnclusteredTypes
        <3>2. idx = IF ~ col.index.built THEN [col.index EXCEPT !.fault = "crash"]
                    ELSE SortDelete(col.index, col.data, col.size, handle.positions, behind)
            BY <2>3, <3>1 DEF DeleteUnclustered
        <3>3. idx.type = col.index.type
            BY <2>1, <2>3, DeleteUnclusteredShape DEF SameIndex
        <3>4. Plain(SortDelete(col.index, col.data, col.size, handle.positions, behind))
            BY <2>1, SortDeletePlain
        <3> HIDE DEF idx
        <3> QED
            BY <2>1, <3>2, <3>3, <3>4, FaultPlain
    <2> QED
        BY <2>2, <2>3
<1>4. bad \in BOOLEAN
    OBVIOUS
<1> HIDE DEF idx, data, bad, k
<1>5. k \in Nat
    BY DEF k
<1>6. Typed(new) /\ new.index = idx /\ new.size = col.size - k
    BY <1>2, <1>3, <1>5 DEF Typed, IsColumn, Plain
<1> HIDE DEF new
<1> QED
    BY <1>1, <1>3, <1>4, <1>6, WithFaultTyped DEF k

-------------------------------------------------------------------------------
(* db_update *)

\* A cell moves to another place.
LEMMA MovedType ==
    ASSUME NEW n \in Int, NEW a \in [Cells(n) -> Int], NEW p, NEW q, NEW behind \in Int
    PROVE  Moved(a, p, q, behind) \in [Cells(n) -> Int]
<1>1. \A i : Cell(a, i, behind) \in Int
    BY FunctionArray, CellType
<1> QED
    BY <1>1 DEF Moved

\* f is the recursive function of MovedAll.
MovedTo(a, places, behind, f) ==
    f = [k \in 0..Len(handle.positions) |->
            IF k = 0 THEN a ELSE Moved(f[k - 1], handle.positions[k], places[k], behind)]
\* f holds the array after each row of the handle.
MovedRun(a, n, places, behind, f) ==
    /\ f[0] = a
    /\ \A k \in 1..Len(handle.positions) : f[k] = Moved(f[k - 1], handle.positions[k], places[k], behind)
    /\ \A k \in 0..Len(handle.positions) : f[k] \in [Cells(n) -> Int]
    /\ MovedAll(a, places, behind) = f[Len(handle.positions)]

\* The loop of MovedAll, row by row.
LEMMA MovedRuns ==
    ASSUME NEW n \in Int, NEW a \in [Cells(n) -> Int], NEW places, NEW behind \in Int,
           Len(handle.positions) \in Nat
    PROVE  \E f : MovedRun(a, n, places, behind, f)
<1> DEFINE k == Len(handle.positions)
           X == [Cells(n) -> Int]
           step(s, i) == Moved(s, handle.positions[i], places[i], behind)
           N == [p \in (1..k) \X X |-> step(p[2], p[1])]
<1>2. ASSUME NEW s \in X, NEW i PROVE step(s, i) \in X
    BY MovedType
<1>3. MovedAll(a, places, behind) = (CHOOSE f : MovedTo(a, places, behind, f))[k]
    BY DEF MovedAll, MovedTo
<1>1. a \in X
    OBVIOUS
<1> HIDE DEF X, step
<1>4. Steps(N, k, X)
    BY <1>2 DEF Steps
<1>5. \A i \in 1..k, s \in X : N[<<i, s>>] = step(s, i)
    OBVIOUS
<1> HIDE DEF N, k
<1>6. k \in Nat
    BY DEF k
<1>7. PICK g \in [0..k -> X] : g = [i \in 0..k |-> IF i = 0 THEN a ELSE N[<<i, g[i - 1]>>]]
    BY <1>1, <1>4, <1>6, IterationSome, SMTT(60)
<1>8. g = [i \in 0..k |-> IF i = 0 THEN a ELSE step(g[i - 1], i)]
    <2>1. \A i \in 0..k : i # 0 => i \in 1..k /\ i - 1 \in 0..k
        BY <1>6
    <2>2. \A i \in 0..k : i # 0 => N[<<i, g[i - 1]>>] = step(g[i - 1], i)
        BY <2>1, <1>5, <1>7
    <2> QED
        BY <1>7, <2>2, Zenon
<1>9. \E f : MovedTo(a, places, behind, f)
    BY <1>8 DEF MovedTo, step, k
<1>10. PICK f : MovedTo(a, places, behind, f) /\ MovedAll(a, places, behind) = f[k]
    BY <1>3, <1>9
<1>11. f = [i \in 0..k |-> IF i = 0 THEN a ELSE step(f[i - 1], i)]
    BY <1>10, Zenon DEF MovedTo, step, k
<1>12. f[0] = a /\ \A i \in 1..k : f[i] = step(f[i - 1], i)
    <2>1. 0 \in 0..k /\ \A i \in 1..k : i \in 0..k /\ i # 0
        BY <1>6
    <2> QED
        BY <1>11, <2>1, Zenon
<1>13. \A i \in 0..k : f[i] \in X
    <2>1. \A i \in 1..k : f[i - 1] \in X => f[i] \in X
        BY <1>2, <1>12
    <2> QED
        BY <1>1, <1>6, <1>12, <2>1, IterationStays
<1> QED
    BY <1>10, <1>12, <1>13 DEF MovedRun, X, step, k

\* Moving the rows of the handle keeps the types.
LEMMA MovedAllType ==
    ASSUME NEW n \in Int, NEW a \in [Cells(n) -> Int], NEW places, NEW behind \in Int,
           Len(handle.positions) \in Nat
    PROVE  MovedAll(a, places, behind) \in [Cells(n) -> Int]
<1>1. PICK f : MovedRun(a, n, places, behind, f)
    BY MovedRuns
<1>2. Len(handle.positions) \in 0..Len(handle.positions)
    OBVIOUS
<1> QED
    BY <1>1, <1>2 DEF MovedRun

\* One row of the handle gets the value and the place where that belongs.
PlaceStep(n, value, behind, s, k) ==
    LET q == Find(s.data, n, value, "GREATER_EQUAL", behind)
        b == Moved(s.data, handle.positions[k], q, behind)
    IN  [data |-> [i \in DOMAIN b |-> IF i = q THEN value ELSE b[i]], places |-> Append(s.places, q)]
\* f is the recursive function of SortPlaces.
PlacesTo(col, value, behind, f) ==
    f = [k \in 0..Len(handle.positions) |->
            IF k = 0 THEN [data |-> col.data, places |-> << >>]
            ELSE PlaceStep(col.size, value, behind, f[k - 1], k)]
\* A column of n cells and the places found so far.
Placing(n) == [data : [Cells(n) -> Int], places : Seq(Int)]
\* f holds the column and the places after each row of the handle.
PlacesRun(col, value, behind, f) ==
    /\ f[0] = [data |-> col.data, places |-> << >>]
    /\ \A k \in 1..Len(handle.positions) : f[k] = PlaceStep(col.size, value, behind, f[k - 1], k)
    /\ \A k \in 0..Len(handle.positions) : f[k] \in Placing(col.size)
    /\ SortPlaces(col, value, behind) = f[Len(handle.positions)]

\* A row keeps the types.
LEMMA PlaceStepType ==
    ASSUME NEW n \in Nat, NEW value \in Int, NEW behind \in Int, NEW s \in Placing(n), NEW k
    PROVE  PlaceStep(n, value, behind, s, k) \in Placing(n)
<1> DEFINE q == Find(s.data, n, value, "GREATER_EQUAL", behind)
           b == Moved(s.data, handle.positions[k], q, behind)
           data == [i \in DOMAIN b |-> IF i = q THEN value ELSE b[i]]
<1>1. s.data \in [Cells(n) -> Int] /\ s.places \in Seq(Int)
    BY DEF Placing
<1>2. q \in Int
    BY <1>1, FunctionArray, FindPlace
<1>3. PlaceStep(n, value, behind, s, k) = [data |-> data, places |-> Append(s.places, q)]
    BY DEF PlaceStep
<1> HIDE DEF q
<1>4. b \in [Cells(n) -> Int]
    BY <1>1, MovedType
<1> HIDE DEF b
<1>5. data \in [Cells(n) -> Int]
    BY <1>4
<1>6. Append(s.places, q) \in Seq(Int)
    BY <1>1, <1>2, AppendProperties
<1> QED
    BY <1>3, <1>5, <1>6 DEF Placing

\* The loop of SortPlaces, row by row.
LEMMA PlacesRuns ==
    ASSUME NEW col, Typed(col), col.size \in Nat, NEW value \in Int, NEW behind \in Int,
           Len(handle.positions) \in Nat
    PROVE  \E f : PlacesRun(col, value, behind, f)
<1> DEFINE k == Len(handle.positions)
           X == Placing(col.size)
           x0 == [data |-> col.data, places |-> << >>]
           step(s, i) == PlaceStep(col.size, value, behind, s, i)
           N == [p \in (1..k) \X X |-> step(p[2], p[1])]
<1>1. x0 \in X
    BY EmptySeq DEF Placing, Typed
<1>2. ASSUME NEW s \in X, NEW i PROVE step(s, i) \in X
    BY PlaceStepType
<1>3. SortPlaces(col, value, behind) = (CHOOSE f : PlacesTo(col, value, behind, f))[k]
    BY DEF SortPlaces, PlacesTo, PlaceStep
<1> HIDE DEF X, x0, step
<1>4. Steps(N, k, X)
    BY <1>2 DEF Steps
<1>5. \A i \in 1..k, s \in X : N[<<i, s>>] = step(s, i)
    OBVIOUS
<1> HIDE DEF N, k
<1>6. k \in Nat
    BY DEF k
<1>7. PICK g \in [0..k -> X] : g = [i \in 0..k |-> IF i = 0 THEN x0 ELSE N[<<i, g[i - 1]>>]]
    BY <1>1, <1>4, <1>6, IterationSome
<1>8. g = [i \in 0..k |-> IF i = 0 THEN x0 ELSE step(g[i - 1], i)]
    <2>1. \A i \in 0..k : i # 0 => i \in 1..k /\ i - 1 \in 0..k
        BY <1>6
    <2>2. \A i \in 0..k : i # 0 => N[<<i, g[i - 1]>>] = step(g[i - 1], i)
        BY <2>1, <1>5, <1>7
    <2> QED
        BY <1>7, <2>2, Zenon
<1>9. \E f : PlacesTo(col, value, behind, f)
    BY <1>8 DEF PlacesTo, step, k, x0
<1>10. PICK f : PlacesTo(col, value, behind, f) /\ SortPlaces(col, value, behind) = f[k]
    BY <1>3, <1>9
<1>11. f = [i \in 0..k |-> IF i = 0 THEN x0 ELSE step(f[i - 1], i)]
    BY <1>10, Zenon DEF PlacesTo, step, k, x0
<1>12. f[0] = x0 /\ \A i \in 1..k : f[i] = step(f[i - 1], i)
    <2>1. 0 \in 0..k /\ \A i \in 1..k : i \in 0..k /\ i # 0
        BY <1>6
    <2> QED
        BY <1>11, <2>1, Zenon
<1>13. \A i \in 0..k : f[i] \in X
    <2>1. \A i \in 1..k : f[i - 1] \in X => f[i] \in X
        BY <1>2, <1>12
    <2> QED
        BY <1>1, <1>6, <1>12, <2>1, IterationStays
<1> QED
    BY <1>10, <1>12, <1>13 DEF PlacesRun, X, step, k, x0

\* An update where the rows stay.
LEMMA UpdateInPlaceTyped ==
    ASSUME NEW col, Typed(col), col.size \in Nat, col.index.type # "CLUSTER_SORT", NEW value \in Int,
           NEW behind \in Int, Len(handle.positions) \in Nat
    PROVE  LET new == UpdateInPlace(col, value, behind)
           IN  Typed(new) /\ new.size = col.size /\ new.index.type = col.index.type
<1> DEFINE p == handle.positions
           fit == SortUpdate(col.index, col.data, col.size, p, value, behind)
           idx == IF col.index.type = "NONE" THEN col.index
                  ELSE IF ~ col.index.built THEN [col.index EXCEPT !.fault = "crash"]
                  ELSE fit
           data == [i \in DOMAIN col.data |-> IF i \in HandleRows THEN value ELSE col.data[i]]
           new == [col EXCEPT !.index = idx, !.data = data]
           bad == \E i \in HandleRows : i >= col.room
<1>0. Plain(col.index) /\ IsIndex(col.index) /\ IntArray(col.data)
    BY FunctionArray DEF Typed, Plain
<1>1. UpdateInPlace(col, value, behind) = WithFault(new, bad)
    <2>1. col.index.type \in {"NONE", "UNCLUSTER_SORT"}
        BY <1>0 DEF Plain, SortKinds
    <2> QED
        BY <2>1 DEF UpdateInPlace
<1>2. Plain(idx) /\ idx.type = col.index.type
    <2>1. Plain(fit) /\ fit.type = col.index.type
        BY <1>0, SortUpdatePlain, SortUpdateShape DEF SameIndex
    <2> HIDE DEF fit
    <2> QED
        BY <1>0, <2>1, FaultPlain
<1>3. data \in [Cells(col.size) -> Int]
    BY DEF Typed
<1>4. bad \in BOOLEAN
    OBVIOUS
<1> HIDE DEF idx, data, bad
<1>5. Typed(new) /\ new.index = idx /\ new.size = col.size
    BY <1>2, <1>3 DEF Typed, IsColumn, Plain
<1> HIDE DEF new
<1> QED
    BY <1>1, <1>2, <1>4, <1>5, WithFaultTyped

(* Types of the columns of a table *)

\* The columns of a table without trees, whatever happened to them.
TypedTable(cols) == DOMAIN cols = Columns /\ \A c \in Columns : Typed(cols[c])
\* No size wrapped.
Counted(cols) == \A c \in Columns : cols[c].size \in Nat

\* Such columns have the shape of columns.
LEMMA TypedIsTable ==
    ASSUME NEW cols, TypedTable(cols), Counted(cols)
    PROVE  IsTable(cols)
BY DEF TypedTable, Counted, IsTable, Typed, Sized

\* A command that crashes in a column.
LEMMA SpoiledTyped ==
    ASSUME NEW cols, TypedTable(cols), NEW c \in Columns, NEW f
    PROVE  LET new == [cols EXCEPT ![c].fault = f]
           IN  /\ TypedTable(new) /\ SameTypes(cols, new)
               /\ \A d \in Columns : new[d].size = cols[d].size
<1>1. /\ Typed([cols[c] EXCEPT !.fault = f])
      /\ [cols[c] EXCEPT !.fault = f].size = cols[c].size
      /\ [cols[c] EXCEPT !.fault = f].index = cols[c].index
    BY FaultTyped DEF TypedTable
<1> QED
    BY <1>1 DEF TypedTable, SameTypes

\* build_index.
LEMMA BuiltTyped ==
    ASSUME NEW cols, TypedTable(cols), Counted(cols), NEW c \in Columns, cols[c].size # 0,
           cols[c].index.type # "NONE", NEW behind \in Int
    PROVE  LET new == Built(cols, c, behind)
           IN  TypedTable(new) /\ \A d \in Columns : new[d].size = cols[d].size
<1> DEFINE col == cols[c]
           n == col.size
           units == SortUnits(col.data, col.size)
           data == SortedValues(units)
<1>1. Typed(col) /\ Plain(col.index) /\ n \in Nat /\ n # 0 /\ col.data \in [Cells(n) -> Int]
    BY DEF TypedTable, Counted, Typed
<1>2. col.index.type \in {"CLUSTER_SORT", "UNCLUSTER_SORT"}
    BY <1>1 DEF Plain, SortKinds
<1>3. CASE col.index.type = "UNCLUSTER_SORT"
    <2> DEFINE idx == BuildUnclustered(col.index, col.data, n)
    <2>1. Plain(idx)
        <3> HIDE DEF col, n
        <3> QED
            BY <1>1, <1>3, BuildUnclusteredPlain
    <2>2. Built(cols, c, behind) = [cols EXCEPT ![c].index = idx]
        BY <1>3 DEF Built, UnclusteredTypes
    <2> HIDE DEF idx
    <2>3. Typed([col EXCEPT !.index = idx]) /\ [col EXCEPT !.index = idx].size = n
        BY <1>1, <2>1, IndexedTyped
    <2> QED
        BY <2>2, <2>3 DEF TypedTable
<1>4. CASE col.index.type = "CLUSTER_SORT"
    <2> DEFINE idx == BuildClustered(col.index, data, n, behind)
               new == [col EXCEPT !.data = data, !.index = idx]
    <2>1. Plain(idx)
        <3> HIDE DEF data, n
        <3> QED
            BY <1>1, <1>4, BuildClusteredPlain
    <2>2. data \in [Cells(n) -> Int]
        <3> HIDE DEF n
        <3> QED
            BY <1>1, UnitsSorted DEF Mirrors, Ascends, n
    <2>3. Built(cols, c, behind) =
              [d \in Columns |-> IF d = c THEN new ELSE Reordered(cols[d], SortedPositions(units), behind)]
        BY <1>4 DEF Built, UnclusteredTypes
    <2> HIDE DEF idx, data, units
    <2>4. Typed(new) /\ new.size = n
        BY <1>1, <2>1, <2>2 DEF Typed, IsColumn, Plain
    <2>5. ASSUME NEW d \in Columns
          PROVE  LET r == Reordered(cols[d], SortedPositions(units), behind)
                 IN  Typed(r) /\ r.size = cols[d].size
        BY ReorderedTyped DEF TypedTable, Counted
    <2> HIDE DEF new
    <2> QED
        BY <2>3, <2>4, <2>5 DEF TypedTable
<1> QED
    BY <1>2, <1>3, <1>4

\* The indexes of a table that has rows.
LEMMA AllBuiltTyped ==
    ASSUME NEW cols, TypedTable(cols), \A c \in Columns : cols[c].size \in Nat \ {0}, NEW behind \in Int
    PROVE  TypedTable(AllBuilt(cols, behind))
<1>1. \E b : BuiltTo(cols, behind, ColCount, b)
    BY BuiltToSome, TableAssumption
<1>2. AllBuilt(cols, behind) = (CHOOSE b : BuiltTo(cols, behind, ColCount, b))[ColCount]
    BY DEF AllBuilt, BuiltTo, BuiltOne
<1>3. PICK b : BuiltTo(cols, behind, ColCount, b) /\ AllBuilt(cols, behind) = b[ColCount]
    BY <1>1, <1>2
<1> DEFINE S == {m \in 0..ColCount : TypedTable(b[m]) /\ \A d \in Columns : b[m][d].size = cols[d].size}
<1>4. 0 \in S
    <2>1. b[0] = cols /\ 0 \in 0..ColCount
        BY <1>3, TableAssumption DEF BuiltTo
    <2> QED
        BY <2>1
<1>5. ASSUME NEW m \in 1..ColCount, m - 1 \in S PROVE m \in S
    <2>1. b[m] = BuiltOne(b[m - 1], m, behind) /\ m \in 0..ColCount
        BY <1>3, TableAssumption DEF BuiltTo
    <2> DEFINE t == b[m - 1]
    <2>2. TypedTable(t) /\ \A d \in Columns : t[d].size = cols[d].size
        BY <1>5
    <2>3. Counted(t) /\ m \in Columns /\ t[m].size # 0
        BY <2>2 DEF Counted, Columns
    <2> HIDE DEF t
    <2>4. LET new == BuiltOne(t, m, behind)
          IN  TypedTable(new) /\ \A d \in Columns : new[d].size = t[d].size
        BY <2>2, <2>3, BuiltTyped DEF BuiltOne
    <2> QED
        BY <2>1, <2>2, <2>4 DEF t
<1>6. 0..ColCount \subseteq S
    <2> HIDE DEF S
    <2> QED
        BY <1>4, <1>5, Upward, TableAssumption
<1> QED
    BY <1>3, <1>6, TableAssumption

\* db_insert_sort_cluster: what it does to the table.
LEMMA InsertClusteredIs ==
    ASSUME NEW cols, TypedTable(cols), Counted(cols), NEW c \in Columns,
           cols[c].index.type = "CLUSTER_SORT", NEW values, values[c] \in Int, NEW behind \in Int
    PROVE  LET col == cols[c]
               place == Find(col.data, col.size, values[c], "GREATER_EQUAL", behind)
               idx == IF col.size >= col.index.room THEN [col.index EXCEPT !.fault = "overflow"]
                      ELSE col.index
           IN  /\ place \in Nat
               /\ InsertClustered(cols, c, values, behind) =
                      IF ~ col.index.built THEN [cols EXCEPT ![c].fault = "crash"]
                      ELSE OpenedTable(cols, c, place, [d \in Columns |-> col.size], idx, values, behind)
<1> DEFINE col == cols[c]
           place == Find(col.data, col.size, values[c], "GREATER_EQUAL", behind)
<1>1. place \in Nat
    BY FunctionArray, FindPlace DEF TypedTable, Typed, Counted
<1>2. place # Unset
    <2> HIDE DEF place
    <2> QED BY <1>1 DEF Unset
<1> QED
    BY <1>1, <1>2 DEF InsertClustered, OpenedTable

\* db_insert_sort_cluster keeps the types.
LEMMA InsertClusteredTyped ==
    ASSUME NEW cols, TypedTable(cols), Counted(cols), NEW c \in Columns,
           cols[c].index.type = "CLUSTER_SORT", NEW values, \A d \in Columns : values[d] \in Int,
           NEW behind \in Int
    PROVE  LET new == InsertClustered(cols, c, values, behind)
           IN  TypedTable(new) /\ Counted(new) /\ SameTypes(cols, new)
<1> DEFINE col == cols[c]
           place == Find(col.data, col.size, values[c], "GREATER_EQUAL", behind)
           idx == IF col.size >= col.index.room THEN [col.index EXCEPT !.fault = "overflow"]
                  ELSE col.index
           same == [d \in Columns |-> col.size]
           opened == OpenedTable(cols, c, place, same, idx, values, behind)
<1>1. /\ place \in Nat
      /\ InsertClustered(cols, c, values, behind) =
             IF ~ col.index.built THEN [cols EXCEPT ![c].fault = "crash"] ELSE opened
    BY InsertClusteredIs
<1>2. Plain(idx) /\ SameIndex(col.index, idx)
    BY FaultPlain DEF TypedTable, Typed, Plain, SameIndex
<1>3. col.size \in Nat
    BY DEF Counted
<1>4. Changed(cols, opened, 1)
    <2> HIDE DEF place, idx, same
    <2> QED
        BY <1>2, TypedIsTable, OpenedTableShape
<1>5. SameTypes(cols, opened) /\ Counted(opened) /\ DOMAIN opened = Columns
    <2> HIDE DEF opened
    <2> QED
        BY <1>4 DEF Changed, Becomes, SameTypes, Counted
<1>6. ASSUME NEW d \in Columns PROVE Typed(opened[d])
    <2> DEFINE mid == OpenedAt(cols[d], place, col.size, values[d], behind)
               new == IF d = c THEN idx ELSE Noted(mid.index, cols[d].size, values[d], place, behind)
    <2>1. Typed(mid) /\ mid.index = cols[d].index
        <3> HIDE DEF place
        <3> QED
            BY <1>1, <1>3, OpenedAtTyped DEF TypedTable, Counted
    <2>2. opened[d] = [mid EXCEPT !.index = new]
        BY DEF OpenedTable
    <2> HIDE DEF mid, place, idx
    <2>3. Plain(new)
        <3>1. cols[d].size \in Nat /\ values[d] \in Int /\ place \in Int
            BY <1>1 DEF Counted
        <3>2. Plain(mid.index)
            BY <2>1 DEF Typed
        <3>3. Plain(Noted(mid.index, cols[d].size, values[d], place, behind))
            BY <3>1, <3>2, NotedPlain
        <3> QED
            BY <1>2, <3>3
    <2> HIDE DEF new
    <2> QED
        BY <2>1, <2>2, <2>3, IndexedTyped
<1>7. TypedTable(opened)
    <2> HIDE DEF opened
    <2> QED
        BY <1>5, <1>6 DEF TypedTable
<1> HIDE DEF opened
<1>8. LET new == [cols EXCEPT ![c].fault = "crash"]
      IN  TypedTable(new) /\ Counted(new) /\ SameTypes(cols, new)
    BY SpoiledTyped DEF Counted
<1> QED
    BY <1>1, <1>5, <1>7, <1>8

\* The columns that are clustered, without trees.
LEMMA ClustersSorted ==
    ASSUME TypedTable(columns)
    PROVE  \A c \in Columns : c \in Clusters <=> columns[c].index.type = "CLUSTER_SORT"
BY DEF TypedTable, Typed, Plain, SortKinds, Clusters, Has, ClusteredTypes

\* db_insert keeps the types.
LEMMA InsertedTyped ==
    ASSUME TypedTable(columns), NEW cols, TypedTable(cols), Counted(cols), SameTypes(columns, cols),
           table_length \in Nat, NEW values, \A d \in Columns : values[d] \in Int, NEW behind \in Int
    PROVE  TypedTable(Inserted(cols, values, behind))
<1>1. CASE Clusters = {}
    <2>1. Inserted(cols, values, behind)
              = [c \in Columns |-> InsertLast(cols[c], table_length, values[c], behind)]
        BY <1>1 DEF Inserted
    <2>2. \A c \in Columns : cols[c].index.type # "CLUSTER_SORT"
        BY <1>1, ClustersSorted DEF SameTypes
    <2>3. \A c \in Columns : Typed(InsertLast(cols[c], table_length, values[c], behind))
        BY <2>2, InsertLastTyped DEF TypedTable, Counted
    <2> QED
        BY <2>1, <2>3 DEF TypedTable
<1>2. CASE Clusters # {}
    <2>1. \E f : InsertTo(cols, values, behind, ColCount, f)
        BY InsertToSome, TableAssumption
    <2>2. Inserted(cols, values, behind)
              = (CHOOSE f : InsertTo(cols, values, behind, ColCount, f))[ColCount]
        BY <1>2 DEF Inserted, InsertTo, InsertOne
    <2>3. PICK f : /\ InsertTo(cols, values, behind, ColCount, f)
                   /\ Inserted(cols, values, behind) = f[ColCount]
        BY <2>1, <2>2
    <2> DEFINE S == {m \in 0..ColCount : TypedTable(f[m]) /\ Counted(f[m]) /\ SameTypes(columns, f[m])}
    <2>4. 0 \in S
        <3>1. f[0] = cols /\ 0 \in 0..ColCount
            BY <2>3, TableAssumption DEF InsertTo
        <3> QED
            BY <3>1
    <2>5. ASSUME NEW m \in 1..ColCount, m - 1 \in S PROVE m \in S
        <3>1. f[m] = InsertOne(f[m - 1], m, values, behind) /\ m \in 0..ColCount
            BY <2>3, TableAssumption DEF InsertTo
        <3> DEFINE t == f[m - 1]
        <3>2. TypedTable(t) /\ Counted(t) /\ SameTypes(columns, t) /\ m \in Columns
            BY <2>5 DEF Columns
        <3>3. m \in Clusters => t[m].index.type = "CLUSTER_SORT"
            BY <3>2, ClustersSorted DEF SameTypes
        <3> HIDE DEF t
        <3>4. m \in Clusters => LET new == InsertClustered(t, m, values, behind)
                                IN  TypedTable(new) /\ Counted(new) /\ SameTypes(t, new)
            BY <3>2, <3>3, InsertClusteredTyped
        <3>5. LET new == InsertOne(t, m, values, behind)
              IN  TypedTable(new) /\ Counted(new) /\ SameTypes(columns, new)
            BY <3>2, <3>4 DEF InsertOne, SameTypes
        <3> QED
            BY <3>1, <3>5 DEF t
    <2>6. 0..ColCount \subseteq S
        <3> HIDE DEF S
        <3> QED
            BY <2>4, <2>5, Upward, TableAssumption
    <2> QED
        BY <2>3, <2>6, TableAssumption
<1> QED
    BY <1>1, <1>2

\* db_delete_sort_cluster: what it does to the table.
LEMMA DeleteClusteredIs ==
    ASSUME NEW cols, NEW c \in Columns, cols[c].index.type = "CLUSTER_SORT", NEW behind
    PROVE  DeleteClustered(cols, c, behind) =
               IF handle.positions = << >> THEN cols
               ELSE IF ~ cols[c].index.built THEN [cols EXCEPT ![c].fault = "crash"]
               ELSE [d \in Columns |->
                        Shortened(cols[d], IF d # c THEN cols[d].size ELSE Visited(cols[d].size), 0, behind).col]
BY DEF DeleteClustered

\* db_delete_sort_cluster keeps the types.
LEMMA DeleteClusteredTyped ==
    ASSUME NEW cols, TypedTable(cols), NEW c \in Columns, cols[c].index.type = "CLUSTER_SORT",
           NEW behind \in Int, Len(handle.positions) \in Nat
    PROVE  LET new == DeleteClustered(cols, c, behind)
           IN  TypedTable(new) /\ SameTypes(cols, new)
<1> DEFINE m(d) == IF d # c THEN cols[d].size ELSE Visited(cols[d].size)
           rest == [d \in Columns |-> Shortened(cols[d], m(d), 0, behind).col]
<1>1. DeleteClustered(cols, c, behind) =
          IF handle.positions = << >> THEN cols
          ELSE IF ~ cols[c].index.built THEN [cols EXCEPT ![c].fault = "crash"] ELSE rest
    BY DeleteClusteredIs
<1> HIDE DEF m
<1>2. \A d \in Columns : LET new == Shortened(cols[d], m(d), 0, behind).col
                         IN  Typed(new) /\ new.index.type = cols[d].index.type
    BY ShortenedTyped DEF TypedTable
<1>3. TypedTable(rest) /\ SameTypes(cols, rest)
    BY <1>2 DEF TypedTable, SameTypes
<1> HIDE DEF rest
<1>4. LET new == [cols EXCEPT ![c].fault = "crash"] IN TypedTable(new) /\ SameTypes(cols, new)
    BY SpoiledTyped
<1>5. SameTypes(cols, cols)
    BY DEF SameTypes
<1> QED
    BY <1>1, <1>3, <1>4, <1>5

\* db_delete keeps the types.
LEMMA DeletedTyped ==
    ASSUME TypedTable(columns), NEW behind \in Int, Len(handle.positions) \in Nat
    PROVE  TypedTable(Deleted(behind))
<1>1. CASE Clusters # {}
    <2>1. \E f : DeleteTo(behind, ColCount, f)
        BY DeleteToSome, TableAssumption
    <2>2. Deleted(behind) = (CHOOSE f : DeleteTo(behind, ColCount, f))[ColCount]
        BY <1>1 DEF Deleted, DeleteTo, DeleteOne
    <2>3. PICK f : DeleteTo(behind, ColCount, f) /\ Deleted(behind) = f[ColCount]
        BY <2>1, <2>2
    <2> DEFINE S == {m \in 0..ColCount : TypedTable(f[m]) /\ SameTypes(columns, f[m])}
    <2>4. 0 \in S
        <3>1. f[0] = columns /\ 0 \in 0..ColCount
            BY <2>3, TableAssumption DEF DeleteTo
        <3> QED
            BY <3>1 DEF SameTypes
    <2>5. ASSUME NEW m \in 1..ColCount, m - 1 \in S PROVE m \in S
        <3>1. f[m] = DeleteOne(f[m - 1], m, behind) /\ m \in 0..ColCount
            BY <2>3, TableAssumption DEF DeleteTo
        <3> DEFINE t == f[m - 1]
        <3>2. TypedTable(t) /\ SameTypes(columns, t) /\ m \in Columns
            BY <2>5 DEF Columns
        <3>3. m \in Clusters => t[m].index.type = "CLUSTER_SORT"
            BY <3>2, ClustersSorted DEF SameTypes
        <3> HIDE DEF t
        <3>4. m \in Clusters => LET new == DeleteClustered(t, m, behind)
                                IN  TypedTable(new) /\ SameTypes(t, new)
            BY <3>2, <3>3, DeleteClusteredTyped
        <3>5. LET new == DeleteOne(t, m, behind) IN TypedTable(new) /\ SameTypes(columns, new)
            BY <3>2, <3>4 DEF DeleteOne, SameTypes
        <3> QED
            BY <3>1, <3>5 DEF t
    <2>6. 0..ColCount \subseteq S
        <3> HIDE DEF S
        <3> QED
            BY <2>4, <2>5, Upward, TableAssumption
    <2> QED
        BY <2>3, <2>6, TableAssumption
<1>2. CASE Clusters = {}
    <2>1. \E f : ShiftTo(behind, ColCount, f)
        BY ShiftToSome, TableAssumption
    <2>2. Deleted(behind) = (CHOOSE f : ShiftTo(behind, ColCount, f))[ColCount].cols
        BY <1>2 DEF Deleted, ShiftTo, ShiftOne
    <2>3. PICK f : ShiftTo(behind, ColCount, f) /\ Deleted(behind) = f[ColCount].cols
        BY <2>1, <2>2
    <2> DEFINE S == {m \in 0..ColCount : TypedTable(f[m].cols)}
    <2>4. 0 \in S
        <3>1. f[0] = [cols |-> columns, count |-> 0] /\ 0 \in 0..ColCount
            BY <2>3, TableAssumption DEF ShiftTo
        <3> QED
            BY <3>1
    <2>5. ASSUME NEW m \in 1..ColCount, m - 1 \in S PROVE m \in S
        <3> DEFINE s == f[m - 1]
                   col == Shortened(columns[m], columns[m].size, s.count, behind).col
        <3>1. f[m] = ShiftOne(s, m, behind) /\ m \in 0..ColCount
            BY <2>3, TableAssumption DEF ShiftTo
        <3>2. TypedTable(s.cols) /\ m \in Columns
            BY <2>5 DEF Columns
        <3>3. f[m].cols = [s.cols EXCEPT ![m] = col]
            BY <3>1 DEF ShiftOne
        <3> HIDE DEF s
        <3>4. Typed(col)
            BY <3>2, ShortenedTyped DEF TypedTable
        <3> HIDE DEF col
        <3>5. TypedTable([s.cols EXCEPT ![m] = col])
            BY <3>2, <3>4 DEF TypedTable
        <3> QED
            BY <3>1, <3>3, <3>5
    <2>6. 0..ColCount \subseteq S
        <3> HIDE DEF S
        <3> QED
            BY <2>4, <2>5, Upward, TableAssumption
    <2> QED
        BY <2>3, <2>6, TableAssumption
<1> QED
    BY <1>1, <1>2

\* db_update_sort_cluster: another column follows the rows to their places.
Follows(col, places, behind) ==
    LET data == MovedAll(col.data, places, behind)
    IN  [col EXCEPT !.data = data,
                    !.index = IF @.type = "UNCLUSTER_SORT" THEN Refreshed(@, data, col.size, behind) ELSE @]

\* db_update_sort_cluster: the columns when rows go to the places of u.
FollowedTable(cols, c, u, behind) ==
    [d \in Columns |-> IF d = c THEN [cols[c] EXCEPT !.data = u.data]
                       ELSE Follows(cols[d], u.places, behind)]
Followed(cols, c, u, behind) ==
    IF ~ cols[c].index.built THEN [cols EXCEPT ![c].fault = "crash"]
    ELSE IF cols[c].index.fault # "none" \/ \E k \in DOMAIN u.places : u.places[k] = Unset
    THEN [cols EXCEPT ![c].fault = "overflow"]
    ELSE FollowedTable(cols, c, u, behind)

\* db_update_sort_cluster: what it does to the table.
LEMMA UpdateClusteredIs ==
    ASSUME NEW cols, TypedTable(cols), NEW c \in Columns, cols[c].index.type = "CLUSTER_SORT",
           NEW value, NEW behind
    PROVE  UpdateClustered(cols, c, value, behind) =
               Followed(cols, c, SortPlaces(cols[c], value, behind), behind)
<1> DEFINE col == cols[c]
           u == SortPlaces(col, value, behind)
           old(d, places) ==
               LET data == MovedAll(cols[d].data, places, behind)
               IN  [cols[d] EXCEPT
                       !.data = data,
                       !.index = IF @.type \in UnclusteredTypes
                                 THEN Refreshed(@, data, cols[d].size, behind) ELSE @]
<1>1. UpdateClustered(cols, c, value, behind) =
           IF ~ col.index.built THEN [cols EXCEPT ![c].fault = "crash"]
           ELSE IF col.index.fault # "none" \/ \E k \in DOMAIN u.places : u.places[k] = Unset
           THEN [cols EXCEPT ![c].fault = "overflow"]
           ELSE [d \in Columns |->
                    IF d = c THEN [col EXCEPT !.data = u.data, !.index = col.index]
                    ELSE old(d, u.places)]
    BY DEF UpdateClustered
<1>2. ASSUME NEW d \in Columns, NEW places PROVE old(d, places) = Follows(cols[d], places, behind)
    <2>1. cols[d].index.type \in UnclusteredTypes <=> cols[d].index.type = "UNCLUSTER_SORT"
        BY DEF TypedTable, Typed, Plain, SortKinds, UnclusteredTypes
    <2> QED
        BY <2>1, Zenon DEF Follows
<1>3. [col EXCEPT !.data = u.data, !.index = col.index] = [col EXCEPT !.data = u.data]
    <2>1. \A x : IsColumn(col) => [col EXCEPT !.data = x, !.index = col.index] = [col EXCEPT !.data = x]
        BY DEF IsColumn
    <2>2. IsColumn(col)
        BY DEF TypedTable, Typed
    <2> QED
        BY <2>1, <2>2
<1> HIDE DEF old, u
<1>4. [d \in Columns |-> IF d = c THEN [col EXCEPT !.data = u.data, !.index = col.index]
                         ELSE old(d, u.places)] = FollowedTable(cols, c, u, behind)
    BY <1>2, <1>3 DEF FollowedTable
<1> QED
    BY <1>1, <1>4 DEF Followed, u

\* Following the rows keeps the types.
LEMMA FollowsTyped ==
    ASSUME NEW col, Typed(col), col.size \in Nat, NEW places, NEW behind \in Int,
           Len(handle.positions) \in Nat
    PROVE  LET new == Follows(col, places, behind)
           IN  Typed(new) /\ new.size = col.size /\ new.index.type = col.index.type
<1> DEFINE data == MovedAll(col.data, places, behind)
           idx == IF col.index.type = "UNCLUSTER_SORT" THEN Refreshed(col.index, data, col.size, behind)
                  ELSE col.index
<1>1. Follows(col, places, behind) = [col EXCEPT !.data = data, !.index = idx]
    BY DEF Follows
<1>2. data \in [Cells(col.size) -> Int]
    BY MovedAllType DEF Typed
<1> HIDE DEF data
<1>3. Plain(idx) /\ idx.type = col.index.type
    BY RefreshedPlain, RefreshedShape DEF Typed, Plain, SameIndex
<1> HIDE DEF idx
<1> QED
    BY <1>1, <1>2, <1>3 DEF Typed, IsColumn, Plain

\* db_update through a clustered column keeps the types.
LEMMA UpdateClusteredTyped ==
    ASSUME NEW cols, TypedTable(cols), Counted(cols), NEW c \in Columns,
           cols[c].index.type = "CLUSTER_SORT", NEW value \in Int, NEW behind \in Int,
           Len(handle.positions) \in Nat
    PROVE  TypedTable(UpdateClustered(cols, c, value, behind))
<1> DEFINE col == cols[c]
           u == SortPlaces(col, value, behind)
           mine == [col EXCEPT !.data = u.data]
<1>1. \/ \E f : UpdateClustered(cols, c, value, behind) = [cols EXCEPT ![c].fault = f]
      \/ UpdateClustered(cols, c, value, behind) = FollowedTable(cols, c, u, behind)
    <2> DEFINE new == UpdateClustered(cols, c, value, behind)
    <2>1. new = Followed(cols, c, u, behind)
        BY UpdateClusteredIs
    <2> HIDE DEF new, u
    <2> QED
        BY <2>1 DEF Followed, new
<1>2. u \in Placing(col.size)
    <2>1. PICK f : PlacesRun(col, value, behind, f)
        BY PlacesRuns DEF TypedTable, Counted
    <2>2. Len(handle.positions) \in 0..Len(handle.positions)
        OBVIOUS
    <2> QED
        BY <2>1, <2>2 DEF PlacesRun
<1>3. Typed(col)
    BY DEF TypedTable
<1> HIDE DEF u
<1>4. Typed(mine)
    <2> HIDE DEF col
    <2> QED
        BY <1>2, <1>3 DEF Typed, IsColumn, Placing
<1>5. \A d \in Columns : Typed(Follows(cols[d], u.places, behind))
    BY FollowsTyped DEF TypedTable, Counted
<1> HIDE DEF mine
<1>6. TypedTable(FollowedTable(cols, c, u, behind))
    BY <1>4, <1>5 DEF TypedTable, FollowedTable, mine
<1>7. \A f : TypedTable([cols EXCEPT ![c].fault = f])
    BY SpoiledTyped
<1> QED
    BY <1>1, <1>6, <1>7

-------------------------------------------------------------------------------
(* Types of answers *)

\* The entries of a sorted index that an answer is made of.
Listed(idx, n, from, to, behind) ==
    IF idx.type = "CLUSTER_SORT" THEN Numbers(from, to)
    ELSE [k \in DOMAIN Numbers(from, to) |-> Filled(idx.positions, n + 1, behind)[Numbers(from, to)[k]]]

\* A select through a sorted index answers with the entries between two places.
LEMMA SortedAnswerIs ==
    ASSUME NEW idx, Plain(idx), NEW data, IntArray(data), NEW n \in Nat, NEW lo \in Int, NEW hi \in Int,
           NEW behind \in Int
    PROVE  \E from \in Nat, to \in Int :
               /\ to <= n /\ (n > 0 => to < n)
               /\ SortedAnswer(idx, data, n, lo, hi, behind) = Answered(Listed(idx, n, from, to, behind))
<1> DEFINE keys == IF idx.type = "CLUSTER_SORT" THEN data ELSE idx.copy
           op == IF hi = INVALID_VAL /\ idx.type = "UNCLUSTER_SORT" THEN "GREATER" ELSE "GREATER_EQUAL"
           first == Find(keys, n, lo, op, behind)
           last == Find(keys, n, hi, "LESS", behind)
           places == IF hi = INVALID_VAL THEN Numbers(first, n - 1)
                     ELSE IF last = -1 THEN << >>
                     ELSE IF lo # INVALID_VAL THEN Numbers(first, last)
                     ELSE Numbers(0, IF idx.type = "CLUSTER_SORT" THEN last - 1 ELSE last)
<1>1. IntArray(keys)
    BY DEF Plain
<1>2. first \in Nat
    <2>1. op \in {"LESS", "GREATER", "GREATER_EQUAL"} /\ op # "LESS"
        OBVIOUS
    <2> HIDE DEF keys, op
    <2>2. first \in Int /\ 0 <= first
        BY <1>1, <2>1, FindNear
    <2> QED
        BY <2>2
<1>3. last \in Int /\ last <= n /\ (n > 0 => last < n)
    <2> HIDE DEF keys
    <2> QED
        BY <1>1, FindNear
<1>4. SortedAnswer(idx, data, n, lo, hi, behind) =
          Answered(IF idx.type = "CLUSTER_SORT" THEN places
                   ELSE [k \in DOMAIN places |-> Filled(idx.positions, n + 1, behind)[places[k]]])
    BY DEF SortedAnswer
<1>5. << >> = Numbers(0, -1)
    BY DEF Numbers
<1> HIDE DEF first, last
<1>6. \E from \in Nat, to \in Int : to <= n /\ (n > 0 => to < n) /\ places = Numbers(from, to)
    <2>1. CASE hi = INVALID_VAL
        <3>1. places = Numbers(first, n - 1) /\ n - 1 \in Int /\ n - 1 <= n /\ n - 1 < n
            BY <2>1
        <3> QED
            BY <1>2, <3>1
    <2>2. CASE hi # INVALID_VAL /\ last = -1
        <3>1. places = Numbers(0, -1) /\ -1 \in Int /\ -1 < n /\ -1 <= n /\ 0 \in Nat
            BY <2>2, <1>5
        <3> QED
            BY <3>1
    <2>3. CASE hi # INVALID_VAL /\ last # -1 /\ lo # INVALID_VAL
        BY <1>2, <1>3, <2>3
    <2>4. CASE hi # INVALID_VAL /\ last # -1 /\ lo = INVALID_VAL
        <3>1. /\ places = Numbers(0, last - 1) \/ places = Numbers(0, last)
              /\ last - 1 \in Int /\ last - 1 <= n /\ (n > 0 => last - 1 < n) /\ 0 \in Nat
            BY <1>3, <2>4
        <3> QED
            BY <1>3, <3>1
    <2> QED
        BY <2>1, <2>2, <2>3, <2>4
<1> HIDE DEF places
<1>7. PICK from \in Nat : \E to \in Int : to <= n /\ (n > 0 => to < n) /\ places = Numbers(from, to)
    BY <1>6
<1>8. PICK to \in Int : to <= n /\ (n > 0 => to < n) /\ places = Numbers(from, to)
    BY <1>7
<1>9. SortedAnswer(idx, data, n, lo, hi, behind) = Answered(Listed(idx, n, from, to, behind))
    BY <1>4, <1>8 DEF Listed
<1> QED
    BY <1>8, <1>9

\* The entries are positions.
LEMMA ListedType ==
    ASSUME NEW idx, Plain(idx), NEW n \in Nat, NEW from \in Nat, NEW to \in Int, to <= n, NEW behind \in Int
    PROVE  Listed(idx, n, from, to, behind) \in Seq(Int)
<1> DEFINE s == Numbers(from, to)
           a == Filled(idx.positions, n + 1, behind)
<1>1. s \in Seq(from..to) /\ Len(s) \in Nat /\ DOMAIN s = 1..Len(s)
    BY NumbersListed, LenProperties DEF Lists
<1>2. a \in [Cells(n + 1) -> Int]
    BY FilledType DEF Plain
<1> HIDE DEF s, a
<1>3. \A k \in 1..Len(s) : s[k] \in Int /\ s[k] \in Cells(n + 1)
    <2>1. \A k \in 1..Len(s) : s[k] \in from..to
        BY <1>1, ElementOfSeq
    <2> QED
        BY <2>1 DEF Cells
<1>4. s \in Seq(Int)
    BY <1>1, <1>3
<1>5. [k \in DOMAIN s |-> a[s[k]]] \in Seq(Int)
    BY <1>1, <1>2, <1>3
<1> QED
    BY <1>4, <1>5 DEF Listed, s, a

\* A select answers with positions.
LEMMA SelectAnswerTyped ==
    ASSUME NEW col, Typed(col), col.size \in Nat, NEW lo \in Int, NEW hi \in Int, NEW batched,
           NEW behind \in Int
    PROVE  SelectAnswer(col, lo, hi, batched, behind).positions \in Seq(Int)
<1> DEFINE idx == col.index
           n == col.size
           a == SortedAnswer(idx, col.data, n, lo, hi, behind)
<1>1. Scan(col, lo, hi) \in Seq(Int)
    BY ScanType
<1>2. Crash.positions \in Seq(Int)
    BY EmptySeq DEF Crash
<1>3. CASE batched \/ idx.type = "NONE"
    BY <1>1, <1>3 DEF SelectAnswer, Answered
<1>4. CASE ~ (batched \/ idx.type = "NONE")
    <2>1. Plain(idx) /\ IntArray(col.data) /\ idx.type \in {"CLUSTER_SORT", "UNCLUSTER_SORT"}
        BY <1>4, FunctionArray DEF Typed, Plain, SortKinds
    <2>2. SelectAnswer(col, lo, hi, batched, behind) = Answer(idx, col.data, n, lo, hi, behind)
        BY <1>4 DEF SelectAnswer
    <2>3. Answer(idx, col.data, n, lo, hi, behind)
              = IF ~ idx.built THEN Crash ELSE IF Len(a.positions) \in 0..n THEN a ELSE Crash
        BY <2>1, Zenon DEF Answer
    <2>4. a.positions \in Seq(Int)
        <3> HIDE DEF idx, n
        <3>1. n \in Nat
            BY DEF n
        <3>2. PICK from \in Nat, to \in Int :
                  to <= n /\ a = Answered(Listed(idx, n, from, to, behind))
            BY <2>1, <3>1, SortedAnswerIs
        <3>3. Listed(idx, n, from, to, behind) \in Seq(Int)
            BY <2>1, <3>1, <3>2, ListedType
        <3> HIDE DEF a
        <3> QED
            BY <3>2, <3>3 DEF Answered
    <2> HIDE DEF a
    <2> QED
        BY <1>2, <2>2, <2>3, <2>4
<1> QED
    BY <1>3, <1>4

(* How often a command changes the columns *)

\* The clustered columns up to the m-th: db_insert and db_delete go through the
\* whole table once for each of them.
Times(m) == Cardinality({c \in Clusters : c <= m})

\* None before the first column, one more for each clustered one.
LEMMA TimesMore ==
    /\ \A m \in 0..ColCount : Times(m) \in Nat
    /\ Times(0) = 0
    /\ \A m \in 1..ColCount : Times(m) = Times(m - 1) + (IF m \in Clusters THEN 1 ELSE 0)
    /\ Times(ColCount) = Cardinality(Clusters)
    /\ Clusters # {} => Cardinality(Clusters) >= 1
<1> DEFINE To(m) == {c \in Clusters : c <= m}
<1>1. IsFiniteSet(Clusters) /\ Clusters \subseteq 1..ColCount
    BY FS_Interval, FS_Subset, TableAssumption DEF Clusters, Columns
<1>2. \A m \in 0..ColCount : IsFiniteSet(To(m))
    BY <1>1, FS_Subset
<1>0. ColCount \in Nat /\ \A c \in Clusters : c \in Int /\ 1 <= c /\ c <= ColCount
    BY <1>1, TableAssumption
<1>3. To(0) = {} /\ To(ColCount) = Clusters
    <2>1. \A c \in Clusters : ~ (c <= 0)
        BY <1>0
    <2>2. \A c \in Clusters : c <= ColCount
        BY <1>0
    <2> QED
        BY <2>1, <2>2, Zenon
<1>4. \A m \in 1..ColCount : To(m) = To(m - 1) \cup (IF m \in Clusters THEN {m} ELSE {}) /\ m \notin To(m - 1)
    <2> SUFFICES ASSUME NEW m \in 1..ColCount
                 PROVE  To(m) = To(m - 1) \cup (IF m \in Clusters THEN {m} ELSE {}) /\ m \notin To(m - 1)
        OBVIOUS
    <2>1. \A c \in Clusters : c <= m <=> c <= m - 1 \/ c = m
        BY <1>0
    <2>2. ~ (m <= m - 1)
        OBVIOUS
    <2> QED
        BY <2>1, <2>2, Zenon
<1>5. ASSUME NEW m \in 1..ColCount PROVE Times(m) = Times(m - 1) + (IF m \in Clusters THEN 1 ELSE 0)
    <2>1. m - 1 \in 0..ColCount /\ IsFiniteSet(To(m - 1))
        BY <1>2, TableAssumption
    <2>2. Cardinality(To(m - 1)) \in Nat
        BY <2>1, FS_CardinalityType
    <2>3. CASE m \in Clusters
        <3>1. To(m) = To(m - 1) \cup {m} /\ m \notin To(m - 1)
            BY <1>4, <2>3
        <3> HIDE DEF To
        <3>2. Cardinality(To(m - 1) \cup {m}) = Cardinality(To(m - 1)) + 1
            BY <2>1, <3>1, FS_AddElement
        <3>3. Times(m) = Cardinality(To(m)) /\ Times(m - 1) = Cardinality(To(m - 1))
            BY DEF Times, To
        <3> QED
            BY <2>3, <3>1, <3>2, <3>3
    <2>4. CASE m \notin Clusters
        <3>1. To(m) = To(m - 1)
            BY <1>4, <2>4
        <3> QED
            BY <2>2, <2>4, <3>1 DEF Times
    <2> QED
        BY <2>3, <2>4
<1>6. \A m \in 0..ColCount : Times(m) \in Nat
    BY <1>2, FS_CardinalityType DEF Times
<1>7. Times(0) = 0
    BY <1>3, FS_EmptySet DEF Times
<1>8. Clusters # {} => Cardinality(Clusters) >= 1
    <2>1. Cardinality(Clusters) \in Nat
        BY <1>1, FS_CardinalityType
    <2>2. Clusters # {} => Cardinality(Clusters) # 0
        BY <1>1, FS_EmptySet
    <2> QED
        BY <2>1, <2>2
<1> QED
    BY <1>3, <1>5, <1>6, <1>7, <1>8 DEF Times

\* One change of all columns after another.
LEMMA AfterThen ==
    ASSUME NEW cols, NEW mid, NEW new, NEW d \in Int, NEW e \in Int, IsTable(cols),
           After(cols, mid, d), After(mid, new, e)
    PROVE  After(cols, new, d + e)
<1>1. ~ Bad(new) => Changed(mid, new, e) /\ ~ Bad(mid)
    BY DEF After, Changed, Becomes, Bad
<1>2. ~ Bad(new) => Changed(cols, mid, d)
    BY <1>1 DEF After
<1>3. ~ Bad(new) => Changed(cols, new, d + e)
    BY <1>1, <1>2 DEF Changed, Becomes, IsTable, Sized
<1> QED
    BY <1>3 DEF After, SameTypes

\* db_insert adds a row for every clustered column.
LEMMA InsertedTimes ==
    ASSUME Clusters # {}, NEW cols, IsTable(cols), NEW values, NEW behind
    PROVE  After(cols, Inserted(cols, values, behind), Cardinality(Clusters))
<1>1. \E f : InsertTo(cols, values, behind, ColCount, f)
    BY InsertToSome, TableAssumption
<1>2. Inserted(cols, values, behind)
          = (CHOOSE f : InsertTo(cols, values, behind, ColCount, f))[ColCount]
    BY DEF Inserted, InsertTo, InsertOne
<1>3. PICK f : /\ InsertTo(cols, values, behind, ColCount, f)
               /\ Inserted(cols, values, behind) = f[ColCount]
    BY <1>1, <1>2
<1> DEFINE S == {m \in 0..ColCount : After(cols, f[m], Times(m))}
<1>4. 0 \in S
    <2>1. f[0] = cols /\ 0 \in 0..ColCount
        BY <1>3, TableAssumption DEF InsertTo
    <2> QED
        BY <2>1, ChangedNot, ChangedShape, TimesMore
<1>5. ASSUME NEW m \in 1..ColCount, m - 1 \in S PROVE m \in S
    <2>1. f[m] = InsertOne(f[m - 1], m, values, behind) /\ m \in 0..ColCount /\ m - 1 \in 0..ColCount
        BY <1>3, TableAssumption DEF InsertTo
    <2>2. After(cols, f[m - 1], Times(m - 1)) /\ Times(m - 1) \in Int
        BY <1>5, <2>1, TimesMore
    <2>3. CASE m \notin Clusters
        BY <2>1, <2>2, <2>3, TimesMore DEF InsertOne
    <2>4. CASE m \in Clusters
        <3>1. IsTable(f[m - 1]) /\ m \in Columns
            BY <2>2 DEF After, Columns
        <3>2. After(f[m - 1], f[m], 1)
            BY <2>1, <2>4, <3>1, InsertClusteredShape DEF InsertOne
        <3>3. After(cols, f[m], Times(m - 1) + 1)
            BY <2>2, <3>2, AfterThen
        <3> QED
            BY <2>1, <2>4, <3>3, TimesMore
    <2> QED
        BY <2>3, <2>4
<1>6. 0..ColCount \subseteq S
    <2> HIDE DEF S
    <2> QED BY <1>4, <1>5, Upward, TableAssumption
<1> QED
    BY <1>3, <1>6, TimesMore, TableAssumption

\* db_delete takes the rows once for every clustered column.
LEMMA DeletedTimes ==
    ASSUME Clusters # {}, NEW behind, IsTable(columns), Len(handle.positions) \in Nat
    PROVE  After(columns, Deleted(behind), - (Cardinality(Clusters) * Len(handle.positions)))
<1> DEFINE L == Len(handle.positions)
<1>1. \E f : DeleteTo(behind, ColCount, f)
    BY DeleteToSome, TableAssumption
<1>2. Deleted(behind) = (CHOOSE f : DeleteTo(behind, ColCount, f))[ColCount]
    BY DEF Deleted, DeleteTo, DeleteOne
<1>3. PICK f : DeleteTo(behind, ColCount, f) /\ Deleted(behind) = f[ColCount]
    BY <1>1, <1>2
<1> DEFINE S == {m \in 0..ColCount : After(columns, f[m], - (Times(m) * L))}
<1>4. 0 \in S
    <2>1. f[0] = columns /\ 0 \in 0..ColCount
        BY <1>3, TableAssumption DEF DeleteTo
    <2>2. - (Times(0) * L) = 0
        BY TimesMore
    <2>3. After(columns, columns, 0)
        BY ChangedNot, ChangedShape
    <2> HIDE DEF L
    <2> QED
        BY <2>1, <2>2, <2>3
<1>5. ASSUME NEW m \in 1..ColCount, m - 1 \in S PROVE m \in S
    <2>1. f[m] = DeleteOne(f[m - 1], m, behind) /\ m \in 0..ColCount /\ m - 1 \in 0..ColCount
        BY <1>3, TableAssumption DEF DeleteTo
    <2> DEFINE d == - (Times(m - 1) * L)
    <2>2. After(columns, f[m - 1], d)
        BY <1>5
    <2>3. Times(m - 1) \in Nat /\ Times(m) \in Nat
        BY <2>1, TimesMore
    <2>4. CASE m \notin Clusters
        <3>1. Times(m) = Times(m - 1)
            BY <2>3, <2>4, TimesMore
        <3>2. f[m] = f[m - 1]
            BY <2>1, <2>4 DEF DeleteOne
        <3> HIDE DEF L
        <3> QED
            BY <2>1, <2>2, <3>1, <3>2
    <2>5. CASE m \in Clusters
        <3>1. IsTable(f[m - 1]) /\ m \in Columns
            BY <2>2 DEF After, Columns
        <3>2. After(f[m - 1], f[m], - L)
            BY <2>1, <2>5, <3>1, DeleteClusteredShape DEF DeleteOne
        <3>3. Times(m) = Times(m - 1) + 1
            BY <2>5, TimesMore
        <3>4. d \in Int /\ - L \in Int
            BY <2>3
        <3>5. - (Times(m) * L) = d + (- L)
            <4>1. \A t, l \in Nat : - ((t + 1) * l) = - (t * l) + (- l)
                OBVIOUS
            <4> HIDE DEF L
            <4> QED
                BY <2>3, <3>3, <4>1 DEF L
        <3> HIDE DEF d, L
        <3>6. After(columns, f[m], d + (- L))
            BY <2>2, <3>2, <3>4, AfterThen
        <3> QED
            BY <2>1, <3>5, <3>6
    <2> QED
        BY <2>4, <2>5
<1>6. 0..ColCount \subseteq S
    <2> HIDE DEF S
    <2> QED BY <1>4, <1>5, Upward, TableAssumption
<1>7. After(columns, f[ColCount], - (Times(ColCount) * L))
    BY <1>6, TableAssumption
<1> QED
    BY <1>3, <1>7, TimesMore

(* Bags *)

\* How often f takes each value over S.
Multi(f, S) == [r \in {f[i] : i \in S} |-> Cardinality({i \in S : f[i] = r})]

\* The number of places in S at which f has value r, also if that is 0.
Often(f, S, r) == Cardinality({i \in S : f[i] = r})

\* Such a number counts a part of a finite set.
LEMMA OftenType ==
    ASSUME NEW f, NEW S, IsFiniteSet(S), NEW r
    PROVE  /\ Often(f, S, r) \in Nat
           /\ Often(f, S, r) > 0 <=> r \in {f[i] : i \in S}
<1> DEFINE P == {i \in S : f[i] = r}
<1>1. IsFiniteSet(P)
    BY FS_Subset
<1>2. Cardinality(P) \in Nat /\ (Cardinality(P) = 0 <=> P = {})
    BY <1>1, FS_CardinalityType, FS_EmptySet
<1>3. P = {} <=> r \notin {f[i] : i \in S}
    OBVIOUS
<1> HIDE DEF P
<1>4. Often(f, S, r) = Cardinality(P)
    BY DEF Often, P
<1> QED
    BY <1>2, <1>3, <1>4

\* The values over a finite set are a bag.
LEMMA MultiBag ==
    ASSUME NEW f, NEW S, IsFiniteSet(S)
    PROVE  IsABag(Multi(f, S))
<1>1. Multi(f, S) = [r \in {f[i] : i \in S} |-> Often(f, S, r)]
    BY DEF Multi, Often
<1>2. \A r \in {f[i] : i \in S} : Often(f, S, r) \in {n \in Nat : n > 0}
    BY OftenType
<1> HIDE DEF Multi
<1> QED
    BY <1>1, <1>2 DEF IsABag

\* Two bags are the same if each value is in both as often.
LEMMA MultiEqual ==
    ASSUME NEW f, NEW S, IsFiniteSet(S), NEW g, NEW T, IsFiniteSet(T),
           \A r : Often(f, S, r) = Often(g, T, r)
    PROVE  Multi(f, S) = Multi(g, T)
<1>1. {f[i] : i \in S} = {g[i] : i \in T}
    <2>1. \A r : r \in {f[i] : i \in S} <=> r \in {g[i] : i \in T}
        BY OftenType, SMTT(60)
    <2> QED
        BY <2>1, Zenon
<1>2. Multi(f, S) = [r \in {f[i] : i \in S} |-> Often(f, S, r)]
      /\ Multi(g, T) = [r \in {g[i] : i \in T} |-> Often(g, T, r)]
    BY DEF Multi, Often
<1> QED
    BY <1>1, <1>2

\* Values that only change their places are the same bag.
LEMMA MultiMoved ==
    ASSUME NEW f, NEW S, IsFiniteSet(S), NEW g, NEW T, IsFiniteSet(T),
           NEW h \in Bijection(S, T), \A i \in S : f[i] = g[h[i]]
    PROVE  Multi(f, S) = Multi(g, T)
<1>1. ASSUME NEW r PROVE Often(f, S, r) = Often(g, T, r)
    <2> DEFINE P == {i \in S : f[i] = r}
               Q == {j \in T : g[j] = r}
               k == [i \in P |-> h[i]]
    <2>1. k \in Bijection(P, Q)
        <3>1. h \in [S -> T] /\ (\A a, b \in S : h[a] = h[b] => a = b) /\ (\A t \in T : \E s \in S : h[s] = t)
            BY DEF Bijection, Injection, Surjection, IsInjective
        <3>2. k \in [P -> Q]
            BY <3>1
        <3>3. \A a, b \in P : k[a] = k[b] => a = b
            BY <3>1
        <3>4. \A t \in Q : \E s \in P : k[s] = t
            BY <3>1
        <3> HIDE DEF P, Q, k
        <3> QED
            BY <3>2, <3>3, <3>4 DEF Bijection, Injection, Surjection, IsInjective
    <2>2. IsFiniteSet(P)
        BY FS_Subset
    <2> HIDE DEF P, Q, k
    <2>3. Cardinality(Q) = Cardinality(P)
        BY <2>1, <2>2, FS_Bijection DEF ExistsBijection
    <2> QED
        BY <2>3 DEF Often, P, Q
<1> QED
    BY <1>1, MultiEqual

\* Values that are the same at the same places.
LEMMA MultiSame ==
    ASSUME NEW f, NEW S, IsFiniteSet(S), NEW g, \A i \in S : f[i] = g[i]
    PROVE  Multi(f, S) = Multi(g, S)
<1>1. ASSUME NEW r PROVE Often(f, S, r) = Often(g, S, r)
    <2>1. {i \in S : f[i] = r} = {i \in S : g[i] = r}
        OBVIOUS
    <2> QED
        BY <2>1 DEF Often
<1> QED
    BY <1>1, MultiEqual

\* The values over two sets of places that do not meet.
LEMMA MultiUnion ==
    ASSUME NEW f, NEW S, IsFiniteSet(S), NEW T, IsFiniteSet(T), S \cap T = {}
    PROVE  Multi(f, S \cup T) = Multi(f, S) (+) Multi(f, T)
<1> DEFINE A == {f[i] : i \in S}
           B == {f[i] : i \in T}
           U == S \cup T
<1>1. \A r : Often(f, U, r) = Often(f, S, r) + Often(f, T, r)
    <2> SUFFICES ASSUME NEW r PROVE Often(f, U, r) = Often(f, S, r) + Often(f, T, r)
        OBVIOUS
    <2> DEFINE P == {i \in S : f[i] = r}
               Q == {i \in T : f[i] = r}
    <2>1. IsFiniteSet(P) /\ IsFiniteSet(Q) /\ P \cap Q = {}
        BY FS_Subset
    <2>2. {i \in U : f[i] = r} = P \cup Q
        OBVIOUS
    <2>3. Often(f, U, r) = Cardinality(P \cup Q) /\ Often(f, S, r) = Cardinality(P)
          /\ Often(f, T, r) = Cardinality(Q)
        BY <2>2 DEF Often
    <2> HIDE DEF P, Q
    <2>4. Cardinality(P \cup Q) = Cardinality(P) + Cardinality(Q) - Cardinality({})
        BY <2>1, FS_Union
    <2>5. Cardinality({}) = 0 /\ Cardinality(P) \in Nat /\ Cardinality(Q) \in Nat
        BY <2>1, FS_EmptySet, FS_CardinalityType
    <2> QED
        BY <2>3, <2>4, <2>5
<1>2. {f[i] : i \in U} = A \cup B
    OBVIOUS
<1>3. /\ Multi(f, S) = [r \in A |-> Often(f, S, r)] /\ Multi(f, T) = [r \in B |-> Often(f, T, r)]
      /\ Multi(f, U) = [r \in A \cup B |-> Often(f, U, r)]
    BY <1>2 DEF Multi, Often
<1>4. \A r : Often(f, S, r) \in Nat /\ Often(f, T, r) \in Nat
             /\ (r \notin A => Often(f, S, r) = 0) /\ (r \notin B => Often(f, T, r) = 0)
    <2>1. \A r : Often(f, S, r) \in Nat /\ (Often(f, S, r) > 0 <=> r \in A)
        BY OftenType
    <2>2. \A r : Often(f, T, r) \in Nat /\ (Often(f, T, r) > 0 <=> r \in B)
        BY OftenType
    <2> HIDE DEF A, B
    <2> QED
        BY <2>1, <2>2
<1> DEFINE sum == [r \in A \cup B |-> (IF r \in A THEN Often(f, S, r) ELSE 0)
                                     + (IF r \in B THEN Often(f, T, r) ELSE 0)]
<1>5. Multi(f, S) (+) Multi(f, T) = sum
    <2>1. DOMAIN Multi(f, S) = A /\ DOMAIN Multi(f, T) = B
        BY <1>3
    <2>2. \A r \in A : Multi(f, S)[r] = Often(f, S, r)
        BY <1>3
    <2>3. \A r \in B : Multi(f, T)[r] = Often(f, T, r)
        BY <1>3
    <2> HIDE DEF Multi, A, B
    <2> QED
        BY <2>1, <2>2, <2>3 DEF (+)
<1> HIDE DEF A, B, U
<1>6. sum = [r \in A \cup B |-> Often(f, U, r)]
    BY <1>1, <1>4
<1> QED
    BY <1>3, <1>5, <1>6 DEF U

\* Without the values at some of the places.
LEMMA MultiMinus ==
    ASSUME NEW f, NEW S, IsFiniteSet(S), NEW T \in SUBSET S
    PROVE  Multi(f, S) (-) Multi(f, T) = Multi(f, S \ T)
<1> DEFINE A == {f[i] : i \in S}
           B == {f[i] : i \in T}
           R == S \ T
<1>0. IsFiniteSet(T) /\ IsFiniteSet(R)
    BY FS_Subset
<1>1. \A r : Often(f, R, r) = Often(f, S, r) - Often(f, T, r)
    <2> SUFFICES ASSUME NEW r PROVE Often(f, R, r) = Often(f, S, r) - Often(f, T, r)
        OBVIOUS
    <2> DEFINE P == {i \in S : f[i] = r}
               Q == {i \in T : f[i] = r}
    <2>1. IsFiniteSet(P) /\ P \cap Q = Q
        BY FS_Subset
    <2>2. {i \in R : f[i] = r} = P \ Q
        OBVIOUS
    <2>3. Often(f, R, r) = Cardinality(P \ Q) /\ Often(f, S, r) = Cardinality(P)
          /\ Often(f, T, r) = Cardinality(Q)
        BY <2>2 DEF Often
    <2> HIDE DEF P, Q
    <2>4. Cardinality(P \ Q) = Cardinality(P) - Cardinality(P \cap Q)
        BY <2>1, FS_Difference
    <2> QED
        BY <2>1, <2>3, <2>4
<1>3. /\ Multi(f, S) = [r \in A |-> Often(f, S, r)] /\ Multi(f, T) = [r \in B |-> Often(f, T, r)]
      /\ Multi(f, R) = [r \in {f[i] : i \in R} |-> Often(f, R, r)]
    BY DEF Multi, Often
<1>4. \A r : Often(f, S, r) \in Nat /\ Often(f, T, r) \in Nat /\ Often(f, R, r) \in Nat
             /\ (r \notin A => Often(f, S, r) = 0) /\ (r \notin B => Often(f, T, r) = 0)
             /\ (Often(f, R, r) > 0 <=> r \in {f[i] : i \in R})
    BY <1>0, OftenType
<1> DEFINE b == [r \in A |-> IF r \in B THEN Often(f, S, r) - Often(f, T, r) ELSE Often(f, S, r)]
<1>5. Multi(f, S) (-) Multi(f, T) = [r \in {x \in DOMAIN b : b[x] > 0} |-> b[r]]
    <2>1. DOMAIN Multi(f, S) = A /\ DOMAIN Multi(f, T) = B
        BY <1>3
    <2>2. \A r \in A : Multi(f, S)[r] = Often(f, S, r)
        BY <1>3
    <2>3. \A r \in B : Multi(f, T)[r] = Often(f, T, r)
        BY <1>3
    <2> DEFINE b2 == [r \in DOMAIN Multi(f, S) |-> IF r \in DOMAIN Multi(f, T)
                        THEN Multi(f, S)[r] - Multi(f, T)[r] ELSE Multi(f, S)[r]]
    <2>4. b2 = b
        <3> HIDE DEF Multi, A, B
        <3> QED
            BY <2>1, <2>2, <2>3
    <2>5. Multi(f, S) (-) Multi(f, T) = [r \in {x \in DOMAIN b2 : b2[x] > 0} |-> b2[r]]
        BY DEF (-)
    <2> HIDE DEF b, b2
    <2> QED
        BY <2>4, <2>5
<1>6. DOMAIN b = A /\ \A r \in A : b[r] = Often(f, R, r)
    <2> HIDE DEF A, B, R
    <2> QED
        BY <1>1, <1>4
<1>7. {f[i] : i \in R} = {x \in A : Often(f, R, x) > 0}
    <2>1. {f[i] : i \in R} \subseteq A
        OBVIOUS
    <2> QED
        BY <1>4, <2>1
<1>8. {x \in DOMAIN b : b[x] > 0} = {f[i] : i \in R}
    <2> HIDE DEF b, A, B, R
    <2> QED
        BY <1>6, <1>7
<1>9. \A r \in {f[i] : i \in R} : b[r] = Often(f, R, r)
    <2> HIDE DEF b
    <2> QED
        BY <1>6, <1>7
<1> DEFINE V == {f[i] : i \in R}
<1> HIDE DEF b, A, B, V
<1>10. [r \in {x \in DOMAIN b : b[x] > 0} |-> b[r]] = [r \in V |-> Often(f, R, r)]
    BY <1>8, <1>9 DEF V
<1> QED
    BY <1>3, <1>5, <1>10 DEF V

\* One value.
LEMMA MultiOne ==
    ASSUME NEW f, NEW i
    PROVE  Multi(f, {i}) = SetToBag({f[i]})
<1>1. {f[j] : j \in {i}} = {f[i]}
    OBVIOUS
<1>2. {j \in {i} : f[j] = f[i]} = {i}
    OBVIOUS
<1>3. Cardinality({i}) = 1
    BY FS_Singleton
<1>4. Multi(f, {i}) = [r \in {f[i]} |-> Cardinality({j \in {i} : f[j] = r})]
    BY <1>1 DEF Multi
<1>5. \A r \in {f[i]} : Cardinality({j \in {i} : f[j] = r}) = 1
    BY <1>2, <1>3
<1>6. [r \in {f[i]} |-> Cardinality({j \in {i} : f[j] = r})] = [r \in {f[i]} |-> 1]
    BY <1>5, Zenon
<1> QED
    BY <1>4, <1>6 DEF SetToBag

\* Sums and differences of bags are bags.
LEMMA BagSum ==
    ASSUME NEW a, IsABag(a), NEW b, IsABag(b)
    PROVE  IsABag(a (+) b) /\ IsABag(a (-) b)
<1>1. /\ \A r \in DOMAIN a : a[r] \in Nat /\ a[r] > 0
      /\ \A r \in DOMAIN b : b[r] \in Nat /\ b[r] > 0
    BY DEF IsABag
<1>2. IsABag(a (+) b)
    <2> DEFINE D == DOMAIN a \cup DOMAIN b
               s(r) == (IF r \in DOMAIN a THEN a[r] ELSE 0) + (IF r \in DOMAIN b THEN b[r] ELSE 0)
    <2>1. \A r \in D : s(r) \in Nat /\ s(r) > 0
        BY <1>1
    <2>2. a (+) b = [r \in D |-> s(r)]
        BY DEF (+)
    <2> HIDE DEF D, s
    <2> QED
        BY <2>1, <2>2 DEF IsABag
<1>3. IsABag(a (-) b)
    <2> DEFINE d == [r \in DOMAIN a |-> IF r \in DOMAIN b THEN a[r] - b[r] ELSE a[r]]
               D == {r \in DOMAIN d : d[r] > 0}
    <2>1. \A r \in DOMAIN d : d[r] \in Int
        BY <1>1
    <2>2. a (-) b = [r \in D |-> d[r]]
        BY DEF (-)
    <2>3. \A r \in D : d[r] \in Nat /\ d[r] > 0
        <3> HIDE DEF d
        <3> QED
            BY <2>1
    <2> HIDE DEF D, d
    <2> QED
        BY <2>2, <2>3 DEF IsABag
<1> QED
    BY <1>2, <1>3

\* A row is a bag, and so is an empty table.
LEMMA BagSmall == IsABag(EmptyBag) /\ \A r : IsABag(SetToBag({r}))
BY DEF IsABag, EmptyBag, SetToBag

\* The rows at some places.
LEMMA RowsBag ==
    ASSUME NEW cols, NEW places
    PROVE  BagOfRows(cols, places) = Multi([i \in places |-> RowAt(cols, i)], places)
<1> DEFINE f == [i \in places |-> RowAt(cols, i)]
<1>1. {RowAt(cols, i) : i \in places} = {f[i] : i \in places}
    OBVIOUS
<1>2. \A r : {i \in places : RowAt(cols, i) = r} = {i \in places : f[i] = r}
    OBVIOUS
<1> HIDE DEF f
<1>3. Multi(f, places) = [r \in {RowAt(cols, i) : i \in places} |-> Cardinality({i \in places : RowAt(cols, i) = r})]
    BY <1>1, <1>2 DEF Multi
<1> QED
    BY <1>3 DEF BagOfRows, f

\* The rows of a file.
LEMMA FileBag ==
    ASSUME NEW f
    PROVE  BagOfFile(f) = Multi(f, DOMAIN f)
BY DEF BagOfFile, Multi

(* The types of the state *)

\* While nothing went wrong in a table with clustered columns, its columns have
\* at most as many rows for each of those as the table has.
Steady == ~ Faulty /\ Clusters # {} =>
              \A c \in Columns : columns[c].size <= Cardinality(Clusters) * table_length

\* So the length of a table is a natural number.
LEMMA LengthCounts ==
    ASSUME SizeInv, Steady, ~ Faulty
    PROVE  table_length \in Nat
<1>1. 1 \in Columns /\ columns[1].size \in Nat /\ table_length \in Int
    BY Healthy, TableAssumption DEF Columns, SizeInv
<1>2. CASE Clusters = {}
    BY <1>1, <1>2 DEF SizeInv, OneCluster
<1>3. CASE Clusters # {}
    <2>1. columns[1].size <= Cardinality(Clusters) * table_length
        BY <1>1, <1>3 DEF Steady
    <2>2. Cardinality(Clusters) \in Nat /\ Cardinality(Clusters) >= 1
        <3>1. ColCount \in 0..ColCount
            BY TableAssumption
        <3> QED
            BY <1>3, <3>1, TimesMore
    <2>3. \A k \in Nat, t \in Int : k >= 1 /\ k * t >= 0 => t >= 0
        OBVIOUS
    <2> QED
        BY <1>1, <2>1, <2>2, <2>3
<1> QED
    BY <1>2, <1>3

\* A command that adds e rows to the table, and to no column more than as often
\* as there are clustered columns.
LEMMA SteadyStep ==
    ASSUME SizeInv, Steady, ~ Faulty, NEW d \in Int, NEW e \in Int,
           SameTypes(columns, columns'), Clusters # {} => After(columns, columns', d),
           d <= Cardinality(Clusters) * e,
           table_length' = table_length + e
    PROVE  Steady'
<1>1. Clusters' = Clusters
    BY DEF Clusters, Has, SameTypes
<1>2. ~ Faulty' => ~ Bad(columns')
    BY DEF Faulty, Bad
<1>3. ~ Faulty' /\ Clusters # {} => \A c \in Columns : columns'[c].size = columns[c].size + d
    BY <1>2 DEF After, Changed, Becomes
<1>4. \A c \in Columns : columns[c].size \in Nat
    BY Healthy
<1>5. Cardinality(Clusters) \in Nat /\ table_length \in Int
    <2>1. ColCount \in 0..ColCount
        BY TableAssumption
    <2> QED
        BY <2>1, TimesMore DEF SizeInv
<1>6. \A k \in Nat, t \in Int, s \in Nat : s <= k * t /\ d <= k * e => s + d <= k * (t + e)
    <2>1. \A k \in Nat, t \in Int : k * (t + e) = k * t + k * e
        OBVIOUS
    <2> QED
        BY <2>1
<1>7. ~ Faulty' /\ Clusters # {} =>
          \A c \in Columns : columns'[c].size <= Cardinality(Clusters) * table_length'
    BY <1>3, <1>4, <1>5, <1>6 DEF Steady
<1> QED
    BY <1>1, <1>7 DEF Steady

\* The inductive invariant of TypeOK for tables without trees.
TypeInv ==
    /\ SizeInv /\ Steady /\ TypedTable(columns)
    /\ handle.positions \in Seq(Int)
    /\ handle.null \in BOOLEAN /\ handle.fresh \in BOOLEAN
    /\ kept \in BOOLEAN
    /\ IsABag(rows)
    /\ commands \in 0..MaxCommands

\* What holds before a command.
LEMMA Before ==
    ASSUME TypeInv, ~ Faulty
    PROVE  /\ IsTable(columns) /\ TypedTable(columns) /\ Counted(columns) /\ table_length \in Nat
           /\ Len(handle.positions) \in Nat
           /\ handle.positions \in [1..Len(handle.positions) -> Int]
BY Healthy, LengthCounts, LenProperties DEF TypeInv, SizeInv, Counted

\* A command that is no select leaves the types of the handle.
LEMMA HandleTyped ==
    ASSUME TypeInv, Ready, NEW moves \in BOOLEAN, Done(moves)
    PROVE  /\ handle'.positions \in Seq(Int)
           /\ handle'.null \in BOOLEAN /\ handle'.fresh \in BOOLEAN
           /\ commands' \in 0..MaxCommands
<1>1. /\ handle'.positions = handle.positions /\ handle'.null = handle.null
      /\ handle'.fresh = (handle.fresh /\ ~ moves)
    BY DEF Done, TypeInv, SizeInv
<1>2. commands' \in 0..MaxCommands
    BY TableAssumption DEF Done, Ready, TypeInv
<1> QED
    BY <1>1, <1>2 DEF TypeInv

\* The rows of the handle are finitely many.
LEMMA HandleRowsFinite ==
    ASSUME Len(handle.positions) \in Nat, handle.positions \in Seq(Int)
    PROVE  IsFiniteSet(HandleRows)
<1> DEFINE n == Len(handle.positions)
           f == [k \in 1..n |-> handle.positions[k]]
<1>1. DOMAIN handle.positions = 1..n
    BY LenProperties
<1>2. f \in Surjection(1..n, HandleRows)
    BY <1>1 DEF Surjection, HandleRows
<1>3. IsFiniteSet(1..n)
    BY FS_Interval
<1> QED
    BY <1>2, <1>3, FS_Surjection

\* create(idx).
LEMMA CreateIndexTyped ==
    ASSUME NoTree, TypeInv, NEW c \in Columns, NEW type \in Types[c], CreateIndex(c, type)
    PROVE  TypeInv'
<1>1. /\ ~ Faulty /\ Has(c, {"NONE"})
      /\ columns' = [columns EXCEPT ![c].index = NewIndex(type)]
      /\ UNCHANGED <<table_length, handle, kept, rows, commands>>
    BY DEF CreateIndex, Ready
<1>2. TypedTable(columns')
    <2>1. Typed([columns[c] EXCEPT !.index = NewIndex(type)])
        BY NewIndexPlain, IndexedTyped DEF NoTree, TypeInv, TypedTable
    <2> QED
        BY <1>1, <2>1 DEF TypeInv, TypedTable
<1>3. Steady'
    <2> DEFINE k == Cardinality(Clusters)
    <2>0. table_length \in Nat
        BY <1>1, Before
    <2>1. \A d \in Columns : columns'[d].size = columns[d].size /\ columns[d].size \in Nat
        BY <1>1, Before DEF Counted, TypedTable, Typed, IsColumn
    <2>2. \A d \in Columns : columns'[d].index.type = IF d = c THEN type ELSE columns[d].index.type
        BY <1>1, Before, NewIndexPlain DEF TypedTable, Typed, IsColumn, NoTree
    <2>3. c \notin Clusters
        BY <1>1 DEF Clusters, Has, ClusteredTypes
    <2>4. Clusters' = IF type \in ClusteredTypes THEN Clusters \cup {c} ELSE Clusters
        BY <2>2, <2>3 DEF Clusters, Has
    <2>5. IsFiniteSet(Clusters)
        BY FS_Interval, FS_Subset, TableAssumption DEF Clusters, Columns
    <2>6. k \in Nat /\ Cardinality(Clusters \cup {c}) = k + 1
        BY <2>3, <2>5, FS_AddElement, FS_CardinalityType
    <2>7. \A d \in Columns : Clusters = {} => columns[d].size = table_length
        BY <1>1 DEF TypeInv, SizeInv, OneCluster
    <2>8. Clusters = {} => k = 0
        BY FS_EmptySet
    <2>9. \A d \in Columns : columns[d].size <= k * table_length \/ (k = 0 /\ columns[d].size = table_length)
        BY <1>1, <2>7, <2>8 DEF TypeInv, Steady
    <2>10. \A d \in Columns : columns[d].size <= (k + 1) * table_length
        <3>1. (k + 1) * table_length = k * table_length + table_length /\ k * table_length \in Nat
            BY <2>0, <2>6
        <3> HIDE DEF k
        <3> QED
            BY <2>0, <2>1, <2>6, <2>9, <3>1
    <2>11. Cardinality(Clusters \cup {c}) * table_length' = (k + 1) * table_length
        BY <1>1, <2>6
    <2>12. ~ Faulty' => ~ Faulty
        BY <1>1
    <2>13. CASE type \in ClusteredTypes
        <3>1. Cardinality(Clusters') * table_length' = (k + 1) * table_length
            BY <2>4, <2>11, <2>13
        <3> HIDE DEF k
        <3>2. \A d \in Columns : columns'[d].size <= Cardinality(Clusters') * table_length'
            BY <2>1, <2>10, <3>1
        <3> QED
            BY <3>2 DEF Steady
    <2>14. CASE type \notin ClusteredTypes
        <3>1. Clusters' = Clusters
            BY <2>4, <2>14
        <3>2. table_length' = table_length
            BY <1>1
        <3> QED
            BY <1>1, <2>1, <3>1, <3>2 DEF Steady, TypeInv
    <2> QED
        BY <2>13, <2>14
<1>4. SizeInv'
    BY CreateIndexSizes DEF TypeInv
<1> QED
    BY <1>1, <1>2, <1>3, <1>4 DEF TypeInv

\* select.
LEMMA SelectTyped ==
    ASSUME TypeInv, NEW c \in Columns, NEW lo \in Int, NEW hi \in Int, NEW batched, Select(c, lo, hi, batched)
    PROVE  TypeInv'
<1>1. ~ Faulty /\ UNCHANGED <<table_length, rows, commands>> /\ kept' \in BOOLEAN
    BY DEF Select, Ready, TypeInv
<1>2. PICK behind \in Junk :
           LET a == SelectAnswer(columns[c], lo, hi, batched, behind)
           IN  /\ columns' = IF a.ok THEN columns ELSE [columns EXCEPT ![c].index.fault = "crash"]
               /\ handle' = [positions |-> a.positions, fresh |-> TRUE,
                             null |-> a.positions = << >> /\ columns[c].size > 0]
    BY DEF Select
<1>3. columns' = columns \/ columns' = [columns EXCEPT ![c].index.fault = "crash"]
    BY <1>2
<1>4. /\ IsTable(columns) /\ TypedTable(columns) /\ Counted(columns)
      /\ Typed(columns[c]) /\ columns[c].size \in Nat /\ behind \in Int
    BY <1>1, Before, TableAssumption DEF TypedTable, Counted
<1>5. handle'.positions \in Seq(Int) /\ handle'.null \in BOOLEAN /\ handle'.fresh \in BOOLEAN
    <2>1. SelectAnswer(columns[c], lo, hi, batched, behind).positions \in Seq(Int)
        BY <1>4, SelectAnswerTyped
    <2> QED
        BY <1>2, <2>1
<1>6. /\ Typed([columns[c] EXCEPT !.index.fault = "crash"])
      /\ [columns[c] EXCEPT !.index.fault = "crash"].size = columns[c].size
      /\ [columns[c] EXCEPT !.index.fault = "crash"].index.type = columns[c].index.type
    <2>1. PICK col, idx : col = columns[c] /\ idx = [col.index EXCEPT !.fault = "crash"]
        OBVIOUS
    <2>2. Typed(col) /\ Plain(idx) /\ idx.type = col.index.type
        BY <1>4, <2>1, FaultPlain DEF Typed
    <2>3. /\ Typed([col EXCEPT !.index = idx])
          /\ [col EXCEPT !.index = idx].size = col.size
          /\ [col EXCEPT !.index = idx].index = idx
        BY <2>2, IndexedTyped
    <2>4. [columns[c] EXCEPT !.index.fault = "crash"] = [col EXCEPT !.index = idx]
        BY <2>1
    <2> QED
        BY <2>1, <2>2, <2>3, <2>4
<1>7. /\ TypedTable(columns') /\ SameTypes(columns, columns')
      /\ \A d \in Columns : columns'[d].size = columns[d].size
    BY <1>3, <1>4, <1>6 DEF TypedTable, SameTypes
<1>8. Steady'
    <2>1. Clusters' = Clusters
        BY <1>7 DEF Clusters, Has, SameTypes
    <2> QED
        BY <1>1, <1>7, <2>1 DEF Steady, TypeInv
<1>9. SizeInv'
    BY SelectSizes DEF TypeInv
<1> QED
    BY <1>1, <1>5, <1>7, <1>8, <1>9 DEF TypeInv

\* The types and the sizes of the columns after a command that is no select
\* and creates no index are enough.
LEMMA CommandTyped ==
    ASSUME TypeInv, Ready, NEW moves \in BOOLEAN, Done(moves), SizeInv', Steady', TypedTable(columns'),
           kept' \in BOOLEAN, IsABag(rows')
    PROVE  TypeInv'
BY HandleTyped DEF TypeInv

\* What a load reads: the rows of the file, or one row of what was there.
Read(file, behind) ==
    IF file # << >> THEN file ELSE <<[c \in Columns |-> IF c = 1 THEN 0 ELSE behind]>>
Loaded(file, behind) ==
    [c \in Columns |-> Extended(columns[c], [k \in DOMAIN Read(file, behind) |-> Read(file, behind)[k][c]])]

\* Rows of integers, at least one.
LEMMA ReadType ==
    ASSUME NEW file \in Files, NEW behind \in Int
    PROVE  LET read == Read(file, behind)
           IN  /\ Len(read) \in Nat /\ Len(read) >= 1 /\ DOMAIN read = 1..Len(read)
               /\ \A k \in 1..Len(read), c \in Columns : read[k][c] \in Int
<1> DEFINE read == Read(file, behind)
<1>1. CASE file # << >>
    <2>1. read = file
        BY <1>1 DEF Read
    <2>2. file \in Seq([Columns -> Int])
        BY TableAssumption
    <2>3. Len(file) \in Nat /\ DOMAIN file = 1..Len(file)
        BY <2>2, LenProperties
    <2>4. Len(file) # 0
        BY <1>1, <2>2, EmptySeq
    <2>5. \A k \in 1..Len(file) : file[k] \in [Columns -> Int]
        BY <2>2, ElementOfSeq
    <2> QED
        BY <2>1, <2>3, <2>4, <2>5
<1>2. CASE file = << >>
    <2> DEFINE row == [c \in Columns |-> IF c = 1 THEN 0 ELSE behind]
    <2>1. read = <<row>>
        BY <1>2 DEF Read
    <2>2. \A c \in Columns : row[c] \in Int
        OBVIOUS
    <2>3. \A x : Len(<<x>>) = 1 /\ DOMAIN <<x>> = 1..1 /\ <<x>>[1] = x
        OBVIOUS
    <2> HIDE DEF row
    <2> QED
        BY <2>1, <2>2, <2>3
<1> QED
    BY <1>1, <1>2

\* The columns after the rows were read.
LEMMA LoadedTyped ==
    ASSUME TypedTable(columns), Counted(columns), NEW file \in Files, NEW behind \in Int
    PROVE  LET new == Loaded(file, behind)
           IN  /\ TypedTable(new) /\ SameTypes(columns, new)
               /\ \A c \in Columns : /\ new[c].index = columns[c].index
                                     /\ new[c].size = columns[c].size + Len(Read(file, behind))
<1> DEFINE read == Read(file, behind)
           values(c) == [k \in DOMAIN read |-> read[k][c]]
<1>1. Len(read) \in Nat /\ DOMAIN read = 1..Len(read) /\ \A k \in 1..Len(read), c \in Columns : read[k][c] \in Int
    BY ReadType
<1> HIDE DEF read
<1>2. \A c \in Columns : values(c) \in Seq(Int) /\ Len(values(c)) = Len(read)
    BY <1>1
<1> HIDE DEF values
<1>3. \A c \in Columns : LET new == Extended(columns[c], values(c))
                         IN  Typed(new) /\ new.index = columns[c].index /\ new.size = columns[c].size + Len(read)
    BY <1>2, ExtendedTyped DEF TypedTable, Counted
<1>4. Loaded(file, behind) = [c \in Columns |-> Extended(columns[c], values(c))]
    BY DEF Loaded, values, read
<1> QED
    BY <1>3, <1>4 DEF TypedTable, SameTypes, read

\* db_load.
LEMMA LoadTyped ==
    ASSUME TypeInv, NEW file \in Files, NEW last \in BOOLEAN, Load(file, last)
    PROVE  TypeInv'
<1>1. Ready /\ ~ Faulty /\ Done(Clusters # {}) /\ rows' = rows (+) BagOfFile(file) /\ kept' \in BOOLEAN
    BY DEF Load, Ready, TypeInv
<1>2. PICK behind \in Junk :
          /\ columns' = IF last THEN AllBuilt(Loaded(file, behind), behind) ELSE Loaded(file, behind)
          /\ table_length' = table_length + Len(Read(file, behind))
    BY DEF Load, Loaded, Read
<1> DEFINE L == Len(Read(file, behind))
           mid == Loaded(file, behind)
<1>3. behind \in Int /\ IsTable(columns) /\ TypedTable(columns) /\ Counted(columns)
    BY <1>1, Before, TableAssumption
<1>4. L \in Nat /\ L >= 1
    BY <1>3, ReadType
<1>5. TypedTable(mid) /\ \A c \in Columns : mid[c].size = columns[c].size + L /\ mid[c].index = columns[c].index
    BY <1>3, LoadedTyped
<1>6. \A c \in Columns : mid[c].size \in Nat \ {0}
    BY <1>3, <1>4, <1>5 DEF Counted
<1> HIDE DEF mid, L
<1>7. TypedTable(columns')
    BY <1>2, <1>3, <1>5, <1>6, AllBuiltTyped DEF mid
<1>8. SameTypes(columns, columns') /\ After(columns, columns', L)
    <2>1. Changed(columns, mid, L)
        <3>1. DOMAIN Read(file, behind) = 1..L /\ L \in Nat
            BY <1>3, ReadType DEF L
        <3>2. \A c \in Columns : Len([k \in DOMAIN Read(file, behind) |-> Read(file, behind)[k][c]]) = L
            BY <3>1
        <3>3. \A c \in Columns : Becomes(columns[c], mid[c], L)
            BY <1>3, <1>4, <3>2, ExtendedShape DEF IsTable, mid, Loaded
        <3>4. DOMAIN mid = Columns
            BY <1>5 DEF TypedTable
        <3> QED
            BY <3>3, <3>4 DEF Changed
    <2>2. IsTable(mid)
        BY <2>1, ChangedShape DEF After
    <2>3. Changed(mid, AllBuilt(mid, behind), 0)
        BY <2>2, AllBuiltShape
    <2>4. Changed(columns, AllBuilt(mid, behind), L)
        BY <1>3, <1>4, <2>1, <2>3, ChangedThen
    <2>5. Changed(columns, columns', L)
        BY <1>2, <2>1, <2>4 DEF mid
    <2> QED
        BY <2>5, ChangedShape DEF After
<1>9. Steady'
    <2>1. table_length' = table_length + L /\ L \in Int
        BY <1>2, <1>4 DEF L
    <2>2. CASE Clusters = {}
        <3>1. Clusters' = Clusters
            BY <1>8 DEF Clusters, Has, SameTypes
        <3> QED
            BY <2>2, <3>1 DEF Steady
    <2>3. CASE Clusters # {}
        <3>1. Cardinality(Clusters) \in Nat /\ Cardinality(Clusters) >= 1
            <4>1. ColCount \in 0..ColCount
                BY TableAssumption
            <4> QED
                BY <2>3, <4>1, TimesMore
        <3>2. \A k \in Nat : k >= 1 => L <= k * L
            BY <1>4
        <3>3. L <= Cardinality(Clusters) * L
            BY <3>1, <3>2
        <3> QED
            BY <1>1, <1>8, <2>1, <3>3, SteadyStep DEF TypeInv
    <2> QED
        BY <2>2, <2>3
<1>10. IsABag(rows')
    <2>1. DOMAIN file = 1..Len(file) /\ Len(file) \in Nat
        BY TableAssumption, LenProperties
    <2>2. IsFiniteSet(DOMAIN file)
        BY <2>1, FS_Interval
    <2>3. IsABag(BagOfFile(file))
        BY <2>2, FileBag, MultiBag
    <2> QED
        BY <1>1, <2>3, BagSum DEF TypeInv
<1>11. SizeInv'
    BY LoadSizes DEF TypeInv
<1>12. (Clusters # {}) \in BOOLEAN
    OBVIOUS
<1> QED
    BY <1>1, <1>7, <1>9, <1>10, <1>11, <1>12, CommandTyped

\* db_insert.
LEMMA InsertTyped ==
    ASSUME TypeInv, NEW values \in NewRows, InsertRow(values)
    PROVE  TypeInv'
<1>1. /\ Ready /\ ~ Faulty /\ Done(Clusters # {}) /\ rows' = rows (+) SetToBag({values})
      /\ kept' \in BOOLEAN /\ table_length' = table_length + 1
    BY DEF InsertRow, Ready, TypeInv
<1> DEFINE cols == IF table_length = columns[1].capacity
                   THEN [c \in Columns |-> Increased(columns[c])] ELSE columns
<1>2. PICK behind \in Junk : columns' = Inserted(cols, values, behind)
    BY DEF InsertRow
<1>3. /\ behind \in Int /\ IsTable(columns) /\ TypedTable(columns) /\ Counted(columns) /\ table_length \in Nat
      /\ \A c \in Columns : values[c] \in Int
    BY <1>1, Before, TableAssumption
<1>4. TypedTable(cols) /\ Counted(cols) /\ SameTypes(columns, cols)
    <2>1. \A c \in Columns : LET new == Increased(columns[c])
                             IN  Typed(new) /\ new.index.type = columns[c].index.type /\ new.size = columns[c].size
        BY <1>3, IncreasedTyped DEF TypedTable
    <2>2. CASE table_length = columns[1].capacity
        BY <1>3, <2>1, <2>2 DEF TypedTable, Counted, SameTypes
    <2>3. CASE table_length # columns[1].capacity
        BY <1>3, <2>3 DEF SameTypes
    <2> QED
        BY <2>2, <2>3
<1>5. Changed(columns, cols, 0)
    <2>1. Changed(columns, [c \in Columns |-> Increased(columns[c])], 0)
        BY <1>3, IncreasedShape DEF Changed, IsTable
    <2> QED
        BY <1>3, <2>1, ChangedNot
<1> HIDE DEF cols
<1>6. TypedTable(columns')
    BY <1>2, <1>3, <1>4, InsertedTyped
<1>7. SameTypes(columns, columns') /\ IsTable(cols)
    <2>1. IsTable(cols)
        BY <1>4, TypedIsTable
    <2>2. SameTypes(cols, columns')
        BY <1>2, <2>1, InsertedShape
    <2> QED
        BY <1>4, <2>1, <2>2 DEF SameTypes
<1>8. Steady'
    <2> DEFINE k == Cardinality(Clusters)
    <2>1. k \in Nat
        <3>1. ColCount \in 0..ColCount
            BY TableAssumption
        <3> QED
            BY <3>1, TimesMore
    <2>2. Clusters # {} => After(columns, columns', k)
        <3>1. Clusters # {} => After(cols, columns', k)
            BY <1>2, <1>7, InsertedTimes
        <3>2. After(columns, cols, 0)
            BY <1>5, ChangedShape
        <3> HIDE DEF k
        <3>3. Clusters # {} => After(columns, columns', 0 + k)
            BY <1>3, <2>1, <3>1, <3>2, AfterThen
        <3> QED
            BY <2>1, <3>3
    <2>3. k <= k * 1
        BY <2>1
    <2> QED
        BY <1>1, <1>7, <2>1, <2>2, <2>3, SteadyStep DEF TypeInv
<1>9. IsABag(rows')
    BY <1>1, BagSum, BagSmall DEF TypeInv
<1>10. SizeInv'
    BY InsertSizes DEF TypeInv
<1>11. (Clusters # {}) \in BOOLEAN
    OBVIOUS
<1> QED
    BY <1>1, <1>6, <1>8, <1>9, <1>10, <1>11, CommandTyped

\* db_delete.
LEMMA DeleteTyped ==
    ASSUME TypeInv, DeleteRows
    PROVE  TypeInv'
<1>1. /\ Ready /\ ~ Faulty /\ Done(TRUE)
      /\ rows' = IF kept' THEN rows (-) BagOfRows(columns, HandleRows) ELSE rows
    BY DEF DeleteRows, Ready
<1>2. IsTable(columns) /\ TypedTable(columns) /\ Counted(columns) /\ Len(handle.positions) \in Nat
    BY <1>1, Before
<1>3. IsABag(rows')
    <2>1. IsFiniteSet(HandleRows)
        BY <1>2, HandleRowsFinite DEF TypeInv
    <2>2. IsABag(BagOfRows(columns, HandleRows))
        BY <2>1, RowsBag, MultiBag
    <2> QED
        BY <1>1, <2>2, BagSum DEF TypeInv
<1>4. SizeInv'
    BY DeleteSizes DEF TypeInv
<1>5. CASE FollowsNull
    <2>1. /\ columns' = [columns EXCEPT ![1].fault = "crash"] /\ table_length' = table_length
          /\ kept' \in BOOLEAN
        BY <1>5 DEF DeleteRows
    <2>2. 1 \in Columns
        BY TableAssumption DEF Columns
    <2>3. TypedTable(columns')
        BY <1>2, <2>1, <2>2, SpoiledTyped
    <2>4. Faulty'
        BY <1>2, <2>1, <2>2 DEF Faulty, TypedTable
    <2>5. Steady'
        BY <2>4 DEF Steady
    <2> QED
        BY <1>1, <1>3, <1>4, <2>1, <2>3, <2>5, CommandTyped
<1>6. CASE ~ FollowsNull
    <2> DEFINE L == Len(handle.positions)
               k == Cardinality(Clusters)
    <2>1. PICK behind \in Junk : columns' = Deleted(behind) /\ kept' \in BOOLEAN
        BY <1>6 DEF DeleteRows, TypeInv
    <2>2. table_length' = table_length - L
        BY <1>6 DEF DeleteRows
    <2>3. TypedTable(columns')
        BY <1>2, <2>1, DeletedTyped, TableAssumption
    <2>4. SameTypes(columns, columns')
        BY <1>2, <2>1, DeletedShape
    <2>5. k \in Nat /\ L \in Nat /\ table_length \in Int
        <3>1. ColCount \in 0..ColCount
            BY TableAssumption
        <3> QED
            BY <1>2, <3>1, TimesMore DEF TypeInv, SizeInv
    <2>6. Clusters # {} => After(columns, columns', - (k * L))
        BY <1>2, <2>1, DeletedTimes
    <2>7. - (k * L) \in Int /\ - L \in Int /\ - (k * L) <= k * (- L)
        BY <2>5
    <2>8. table_length' = table_length + (- L)
        BY <2>2, <2>5
    <2> HIDE DEF k, L
    <2>9. Steady'
        BY <1>1, <2>4, <2>6, <2>7, <2>8, SteadyStep DEF TypeInv, k
    <2> QED
        BY <1>1, <1>3, <1>4, <2>1, <2>3, <2>9, CommandTyped
<1> QED
    BY <1>5, <1>6

\* db_update.
LEMMA UpdateTyped ==
    ASSUME TypeInv, NEW c \in Columns, NEW value \in Values, Update(c, value)
    PROVE  TypeInv'
<1>1. /\ Ready /\ ~ Faulty /\ Done(Has(c, ClusteredTypes)) /\ table_length' = table_length
      /\ kept' \in BOOLEAN
    BY DEF Update, Ready, TypeInv
<1>2. IsTable(columns) /\ TypedTable(columns) /\ Counted(columns) /\ Len(handle.positions) \in Nat
    BY <1>1, Before
<1>3. IsABag(rows')
    <2>1. IsFiniteSet(HandleRows)
        BY <1>2, HandleRowsFinite DEF TypeInv
    <2>2. \A cols : IsABag(BagOfRows(cols, HandleRows))
        BY <2>1, RowsBag, MultiBag
    <2> DEFINE changed == [columns EXCEPT ![c].data = [i \in DOMAIN @ |-> IF i \in HandleRows THEN value ELSE @[i]]]
    <2>3. rows' = rows \/ rows' = (rows (-) BagOfRows(columns, HandleRows)) (+) BagOfRows(changed, HandleRows)
        BY DEF Update
    <2> HIDE DEF changed
    <2>4. IsABag(rows (-) BagOfRows(columns, HandleRows))
        BY <2>2, BagSum DEF TypeInv
    <2> QED
        BY <2>2, <2>3, <2>4, BagSum DEF TypeInv
<1>4. PICK behind \in Junk :
           columns' = IF Has(c, ClusteredTypes) THEN UpdateClustered(columns, c, value, behind)
                      ELSE [columns EXCEPT ![c] = UpdateInPlace(@, value, behind)]
    BY DEF Update
<1>5. value \in Int /\ behind \in Int /\ Typed(columns[c]) /\ columns[c].size \in Nat
    BY <1>2, TableAssumption DEF TypedTable, Counted
<1>6. CASE Has(c, ClusteredTypes)
    <2>1. columns' = UpdateClustered(columns, c, value, behind)
        BY <1>4, <1>6
    <2>2. columns[c].index.type = "CLUSTER_SORT"
        BY <1>2, <1>6, ClustersSorted DEF Clusters
    <2>3. TypedTable(columns')
        BY <1>2, <1>5, <2>1, <2>2, UpdateClusteredTyped
    <2>4. After(columns, columns', 0)
        BY <1>2, <2>1, UpdateClusteredShape
    <2> QED
        <3>1. table_length' = table_length + 0 /\ SameTypes(columns, columns')
            BY <1>1, <2>4 DEF After, TypeInv, SizeInv
        <3>2. 0 <= Cardinality(Clusters) * 0
            <4>1. ColCount \in 0..ColCount
                BY TableAssumption
            <4>2. Cardinality(Clusters) \in Nat
                BY <4>1, TimesMore
            <4> QED
                BY <4>2
        <3>3. Steady'
            BY <1>1, <2>4, <3>1, <3>2, SteadyStep DEF TypeInv
        <3>4. SizeInv'
            BY UpdateSizes DEF TypeInv
        <3>5. Has(c, ClusteredTypes) \in BOOLEAN
            BY DEF Has
        <3> QED
            BY <1>1, <1>3, <2>3, <3>3, <3>4, <3>5, CommandTyped
<1>7. CASE ~ Has(c, ClusteredTypes)
    <2> DEFINE new == UpdateInPlace(columns[c], value, behind)
    <2>1. columns' = [columns EXCEPT ![c] = new]
        BY <1>4, <1>7
    <2>2. columns[c].index.type # "CLUSTER_SORT"
        BY <1>7 DEF Has, ClusteredTypes
    <2>3. Typed(new) /\ new.size = columns[c].size /\ new.index.type = columns[c].index.type
        BY <1>2, <1>5, <2>2, UpdateInPlaceTyped
    <2>4. Becomes(columns[c], new, 0)
        BY <1>2, UpdateInPlaceShape DEF IsTable
    <2> HIDE DEF new
    <2>5. TypedTable(columns')
        BY <1>2, <2>1, <2>3 DEF TypedTable
    <2>6. After(columns, columns', 0)
        <3>1. Changed(columns, columns, 0)
            BY <1>2, ChangedNot
        <3>2. Changed(columns, columns', 0)
            BY <1>2, <2>1, <2>4, <3>1 DEF Changed, TypedTable
        <3> QED
            BY <3>2, ChangedShape
    <2> QED
        <3>1. table_length' = table_length + 0 /\ SameTypes(columns, columns')
            BY <1>1, <2>6 DEF After, TypeInv, SizeInv
        <3>2. 0 <= Cardinality(Clusters) * 0
            <4>1. ColCount \in 0..ColCount
                BY TableAssumption
            <4>2. Cardinality(Clusters) \in Nat
                BY <4>1, TimesMore
            <4> QED
                BY <4>2
        <3>3. Steady'
            BY <1>1, <2>6, <3>1, <3>2, SteadyStep DEF TypeInv
        <3>4. SizeInv'
            BY UpdateSizes DEF TypeInv
        <3>5. Has(c, ClusteredTypes) \in BOOLEAN
            BY DEF Has
        <3> QED
            BY <1>1, <1>3, <2>5, <3>3, <3>4, <3>5, CommandTyped
<1> QED
    BY <1>6, <1>7

\* A new table has its types.
LEMMA InitTyped ==
    ASSUME Init
    PROVE  TypeInv
<1>1. SizeInv
    BY InitSizes
<1>2. TypedTable(columns)
    BY NewColumnTyped DEF Init, TypedTable
<1>3. Steady
    <2>1. Clusters = {}
        BY DEF Init, Clusters, Has, NewColumn, NewIndex, ClusteredTypes
    <2> QED
        BY <2>1 DEF Steady
<1>4. handle.positions \in Seq(Int) /\ handle.null \in BOOLEAN /\ handle.fresh \in BOOLEAN
    BY EmptySeq DEF Init
<1>5. kept \in BOOLEAN /\ IsABag(rows) /\ commands \in 0..MaxCommands
    BY BagSmall, TableAssumption DEF Init
<1> QED
    BY <1>1, <1>2, <1>3, <1>4, <1>5 DEF TypeInv

\* Every step keeps the types.
LEMMA StepTyped ==
    ASSUME NoTree, TypeInv, [Next]_vars
    PROVE  TypeInv'
<1>1. CASE UNCHANGED vars
    BY <1>1 DEF vars, TypeInv, SizeInv, Steady, Faulty, OneCluster, Clusters, Has
<1>2. ASSUME NEW c \in Columns, NEW b \in Bounds, NEW batched \in BOOLEAN, Select(c, b[1], b[2], batched)
      PROVE  TypeInv'
    <2>1. b[1] \in Int /\ b[2] \in Int
        BY TableAssumption
    <2> QED
        BY <1>2, <2>1, SelectTyped
<1>3. CASE Next
    BY <1>2, <1>3, CreateIndexTyped, LoadTyped, InsertTyped, DeleteTyped, UpdateTyped DEF Next
<1> QED
    BY <1>1, <1>3

\* In a table without trees the state has its types: each array has a cell for
\* every row, and no length falls below zero, whatever the commands and their
\* order and however many columns are clustered (execute.c:334-640).
THEOREM TableTypeInvariance ==
    ASSUME NoTree
    PROVE  Spec => []TypeInv
<1>1. Init => TypeInv
    BY InitTyped
<1>2. TypeInv /\ [Next]_vars => TypeInv'
    BY StepTyped
<1> QED
    BY <1>1, <1>2, PTL DEF Spec

\* The types of TypeOK, for tables without trees.
THEOREM TableTypes ==
    ASSUME NoTree
    PROVE  Spec => []TypeOK
<1>1. TypeInv => TypeOK
    <2> SUFFICES ASSUME TypeInv PROVE TypeOK
        OBVIOUS
    <2>1. \A c \in Columns : Typed(columns[c]) /\ columns[c].index.type \in SortKinds
        BY DEF TypeInv, TypedTable, Typed, Plain
    <2>2. \A c \in Columns :
              /\ columns[c].capacity \in Nat /\ columns[c].room \in Nat
              /\ DOMAIN columns[c].data = Cells(columns[c].size)
              /\ columns[c].index.type \in ClusteredTypes \union UnclusteredTypes \union {"NONE"}
        BY <2>1 DEF Typed, SortKinds, ClusteredTypes, UnclusteredTypes
    <2>3. ~ Faulty => table_length \in Nat /\ \A c \in Columns : columns[c].size \in Nat
        BY LengthCounts, Healthy DEF TypeInv
    <2> QED
        BY <2>2, <2>3 DEF TypeOK, TypeInv
<1> QED
    BY <1>1, TableTypeInvariance, PTL

(* The rows of a table *)

\* A row is the same if its values are.
LEMMA SameRow ==
    ASSUME NEW cols, NEW new, NEW i, NEW j, \A c \in Columns : cols[c].data[i] = new[c].data[j]
    PROVE  RowAt(cols, i) = RowAt(new, j)
BY DEF RowAt

\* Rows that only change their places are the same bag.
LEMMA RowsInto ==
    ASSUME NEW cols, NEW S, IsFiniteSet(S), NEW new, NEW T, IsFiniteSet(T), NEW h \in Bijection(S, T),
           \A i \in S, c \in Columns : cols[c].data[i] = new[c].data[h[i]]
    PROVE  BagOfRows(cols, S) = BagOfRows(new, T)
<1> DEFINE f == [i \in S |-> RowAt(cols, i)]
           g == [i \in T |-> RowAt(new, i)]
<1>1. \A i \in S : f[i] = g[h[i]]
    <2> SUFFICES ASSUME NEW i \in S PROVE f[i] = g[h[i]]
        OBVIOUS
    <2>1. h[i] \in T
        BY DEF Bijection, Injection
    <2>2. RowAt(cols, i) = RowAt(new, h[i])
        BY SameRow
    <2> QED
        BY <2>1, <2>2
<1>2. BagOfRows(cols, S) = Multi(f, S) /\ BagOfRows(new, T) = Multi(g, T)
    BY RowsBag
<1> HIDE DEF f, g
<1>3. Multi(f, S) = Multi(g, T)
    BY <1>1, MultiMoved
<1> QED
    BY <1>2, <1>3

\* Rows whose values stay are the same bag.
LEMMA RowsSame ==
    ASSUME NEW cols, NEW S, IsFiniteSet(S), NEW new,
           \A i \in S, c \in Columns : cols[c].data[i] = new[c].data[i]
    PROVE  BagOfRows(cols, S) = BagOfRows(new, S)
<1> DEFINE h == [i \in S |-> i]
<1>1. h \in Bijection(S, S)
    BY DEF Bijection, Injection, Surjection, IsInjective
<1>2. \A i \in S, c \in Columns : cols[c].data[i] = new[c].data[h[i]]
    OBVIOUS
<1> HIDE DEF h
<1> QED
    BY <1>1, <1>2, RowsInto

\* The rows at places that are in two sets which do not meet.
LEMMA RowsBoth ==
    ASSUME NEW cols, NEW S, IsFiniteSet(S), NEW T, IsFiniteSet(T), S \cap T = {}
    PROVE  BagOfRows(cols, S \cup T) = BagOfRows(cols, S) (+) BagOfRows(cols, T)
<1> DEFINE U == S \cup T
           f == [i \in U |-> RowAt(cols, i)]
           a == [i \in S |-> RowAt(cols, i)]
           b == [i \in T |-> RowAt(cols, i)]
<1>1. /\ BagOfRows(cols, U) = Multi(f, U) /\ BagOfRows(cols, S) = Multi(a, S)
      /\ BagOfRows(cols, T) = Multi(b, T)
    BY RowsBag
<1>2. (\A i \in S : a[i] = f[i]) /\ (\A i \in T : b[i] = f[i])
    OBVIOUS
<1> HIDE DEF f, a, b
<1>3. Multi(a, S) = Multi(f, S)
    BY <1>2, MultiSame
<1>4. Multi(b, T) = Multi(f, T)
    BY <1>2, MultiSame
<1>5. Multi(f, U) = Multi(f, S) (+) Multi(f, T)
    BY MultiUnion
<1> QED
    BY <1>1, <1>3, <1>4, <1>5

\* The rows without some.
LEMMA RowsLess ==
    ASSUME NEW cols, NEW S, IsFiniteSet(S), NEW T \in SUBSET S
    PROVE  BagOfRows(cols, S) (-) BagOfRows(cols, T) = BagOfRows(cols, S \ T)
<1> DEFINE R == S \ T
           f == [i \in S |-> RowAt(cols, i)]
           a == [i \in R |-> RowAt(cols, i)]
           b == [i \in T |-> RowAt(cols, i)]
<1>0. IsFiniteSet(T) /\ IsFiniteSet(R)
    BY FS_Subset
<1>1. /\ BagOfRows(cols, S) = Multi(f, S) /\ BagOfRows(cols, R) = Multi(a, R)
      /\ BagOfRows(cols, T) = Multi(b, T)
    BY RowsBag
<1>2. (\A i \in R : a[i] = f[i]) /\ (\A i \in T : b[i] = f[i])
    OBVIOUS
<1> HIDE DEF f, a, b
<1>3. Multi(a, R) = Multi(f, R)
    BY <1>0, <1>2, MultiSame
<1>4. Multi(b, T) = Multi(f, T)
    BY <1>0, <1>2, MultiSame
<1>5. Multi(f, S) (-) Multi(f, T) = Multi(f, R)
    BY MultiMinus
<1> QED
    BY <1>1, <1>3, <1>4, <1>5

\* One row.
LEMMA RowsOne ==
    ASSUME NEW cols, NEW i
    PROVE  BagOfRows(cols, {i}) = SetToBag({RowAt(cols, i)})
<1> DEFINE f == [j \in {i} |-> RowAt(cols, j)]
<1>1. BagOfRows(cols, {i}) = Multi(f, {i})
    BY RowsBag
<1>2. f[i] = RowAt(cols, i)
    OBVIOUS
<1> HIDE DEF f
<1>3. Multi(f, {i}) = SetToBag({f[i]})
    BY MultiOne
<1> QED
    BY <1>1, <1>2, <1>3

-------------------------------------------------------------------------------
(* What the conditions of the commands keep *)

\* An index agrees with the n cells of its column.
Fits(idx, data, n) ==
    /\ idx.type # "NONE"
    /\ idx.type = "CLUSTER_SORT" => Ascends(data, n)
    /\ idx.type = "UNCLUSTER_SORT" => Mirrors(idx.copy, idx.positions, data, n)
\* A column of n rows without a fault, with room for them.
Fine(col, n) ==
    /\ Typed(col)
    /\ col.fault = "none" /\ col.index.fault = "none" /\ col.size = n
    /\ n <= col.capacity /\ n <= col.room
\* Its index agrees with it.
Good(col, n) ==
    /\ Fine(col, n)
    /\ col.index.built => Fits(col.index, col.data, n)
\* The columns of a table of n rows, which grew together.
GoodTable(cols, n) ==
    /\ DOMAIN cols = Columns
    /\ \A c \in Columns : Good(cols[c], n) /\ cols[c].capacity = cols[1].capacity
\* At most one clustered index is built.
Lone(cols) ==
    \A c, d \in Columns :
        /\ cols[c].index.type = "CLUSTER_SORT" /\ cols[c].index.built
        /\ cols[d].index.type = "CLUSTER_SORT" /\ cols[d].index.built
        => c = d
\* The handle names rows of the table, each once.
GoodHandle ==
    /\ \A i \in DOMAIN handle.positions : handle.positions[i] \in Cells(table_length)
    /\ \A i, j \in DOMAIN handle.positions : handle.positions[i] = handle.positions[j] => i = j
\* The inductive invariant of the properties that need the conditions.
KeptInv ==
    kept => /\ GoodTable(columns, table_length)
            /\ Lone(columns)
            /\ handle.fresh => GoodHandle
            /\ handle.fresh /\ handle.null => handle.positions = << >>
            /\ BagOfRows(columns, Cells(table_length)) = rows

\* A table that is kept has no fault.
LEMMA KeptHealthy ==
    ASSUME KeptInv, kept
    PROVE  ~ Faulty
BY DEF KeptInv, GoodTable, Good, Fine, Faulty

\* The cells of an array are finitely many.
LEMMA CellsFinite ==
    ASSUME NEW n \in Int
    PROVE  IsFiniteSet(Cells(n))
BY FS_Interval DEF Cells

\* An index of a column without an index fault that is not built.
LEMMA GoodIndexed ==
    ASSUME NEW n \in Nat, NEW col, Good(col, n), NEW idx, Plain(idx), idx.fault = "none",
           idx.built => Fits(idx, col.data, n)
    PROVE  LET new == [col EXCEPT !.index = idx]
           IN  /\ Good(new, n) /\ new.capacity = col.capacity /\ new.data = col.data
               /\ new.index = idx /\ new.room = col.room
BY IndexedTyped DEF Good, Fine, Typed, IsColumn

\* create(idx).
LEMMA CreateIndexKept ==
    ASSUME NoTree, TypeInv, KeptInv, NEW c \in Columns, NEW type \in Types[c], CreateIndex(c, type)
    PROVE  KeptInv'
<1> SUFFICES ASSUME kept' PROVE KeptInv'
    BY DEF KeptInv
<1>1. /\ ~ Faulty /\ columns' = [columns EXCEPT ![c].index = NewIndex(type)]
      /\ UNCHANGED <<table_length, handle, kept, rows, commands>>
    BY DEF CreateIndex, Ready
<1>2. GoodTable(columns, table_length) /\ table_length \in Nat /\ kept
    BY <1>1, Before DEF KeptInv
<1>3. LET new == [columns[c] EXCEPT !.index = NewIndex(type)]
      IN  Good(new, table_length) /\ new.capacity = columns[c].capacity /\ new.data = columns[c].data
    <2>1. type \in SortKinds
        BY DEF NoTree
    <2>2. Plain(NewIndex(type)) /\ ~ NewIndex(type).built /\ NewIndex(type).fault = "none"
        BY <2>1, NewIndexPlain
    <2> QED
        BY <1>2, <2>2, GoodIndexed DEF GoodTable
<1>4. GoodTable(columns', table_length) /\ \A d \in Columns : columns'[d].data = columns[d].data
    <2> DEFINE new == [columns[c] EXCEPT !.index = NewIndex(type)]
    <2>1. columns' = [columns EXCEPT ![c] = new]
        BY <1>1
    <2>2. Good(new, table_length) /\ new.capacity = columns[c].capacity /\ new.data = columns[c].data
        BY <1>3
    <2> HIDE DEF new
    <2>3. 1 \in Columns
        BY TableAssumption DEF Columns
    <2> QED
        BY <1>2, <2>1, <2>2, <2>3 DEF GoodTable
<1>5. BagOfRows(columns', Cells(table_length)) = BagOfRows(columns, Cells(table_length))
    <2> DEFINE new == columns'
    <2>1. \A d \in Columns : columns[d].data = new[d].data
        BY <1>4
    <2>2. PICK u : u = columns'
        OBVIOUS
    <2>3. \A d \in Columns : columns[d].data = u[d].data
        BY <1>4, <2>2
    <2>4. BagOfRows(columns, Cells(table_length)) = BagOfRows(u, Cells(table_length))
        BY <1>2, <2>3, CellsFinite, RowsSame
    <2> QED
        BY <2>2, <2>4
<1>6. Lone(columns')
    <2>1. Lone(columns) /\ ~ columns'[c].index.built
        <3>1. ~ NewIndex(type).built
            BY DEF NewIndex
        <3>2. columns'[c].index = NewIndex(type)
            <4>1. "index" \in DOMAIN columns[c] /\ DOMAIN columns = Columns
                BY <1>2 DEF GoodTable, Good, Fine, Typed, IsColumn
            <4> QED
                BY <1>1, <4>1
        <3> QED
            BY <1>2, <3>1, <3>2 DEF KeptInv
    <2>2. \A d \in Columns : d # c => columns'[d] = columns[d]
        BY <1>1, <1>2 DEF GoodTable
    <2> QED
        BY <2>1, <2>2 DEF Lone
<1> QED
    BY <1>1, <1>2, <1>4, <1>5, <1>6 DEF KeptInv, GoodHandle

(* What a select answers *)

\* The answer names rows of the table, each once.
GoodAnswer(s, n) == \E X \in SUBSET Cells(n) : Lists(s, X)

\* A scan names the rows in the range, each once.
LEMMA ScanGood ==
    ASSUME NEW col, col.size \in Nat, NEW lo, NEW hi
    PROVE  GoodAnswer(Scan(col, lo, hi), col.size)
<1> DEFINE n == col.size
           Found(k) == {i \in Cells(k) : InRange(col.data[i], lo, hi)}
<1>1. \E f : ScanTo(col, lo, hi, n, f)
    BY ScanToSome
<1>2. Scan(col, lo, hi) = (CHOOSE f : ScanTo(col, lo, hi, n, f))[n]
    BY DEF Scan, ScanTo
<1>3. PICK f : ScanTo(col, lo, hi, n, f) /\ Scan(col, lo, hi) = f[n]
    BY <1>1, <1>2
<1>4. n \in Nat
    OBVIOUS
<1> HIDE DEF n
<1> DEFINE S == {m \in 0..n : Lists(f[m], Found(m))}
<1>5. 0 \in S
    <2>1. f[0] = << >>
        BY <1>3, <1>4 DEF ScanTo
    <2>2. Found(0) = {} /\ 0 \in 0..n
        BY <1>4 DEF Cells
    <2> QED
        BY <2>1, <2>2, ListsNothing
<1>6. ASSUME NEW m \in 1..n, m - 1 \in S PROVE m \in S
    <2>1. f[m] = IF InRange(col.data[m - 1], lo, hi) THEN Append(f[m - 1], m - 1) ELSE f[m - 1]
        <3>1. m \in 0..n /\ m # 0
            OBVIOUS
        <3> QED
            BY <1>3, <3>1, Zenon DEF ScanTo
    <2>2. Lists(f[m - 1], Found(m - 1)) /\ m - 1 \notin Found(m - 1) /\ m \in 0..n
        BY <1>6 DEF Cells
    <2>3. \A i : i \in Cells(m) <=> i \in Cells(m - 1) \/ i = m - 1
        BY DEF Cells
    <2>4. CASE InRange(col.data[m - 1], lo, hi)
        <3>1. Found(m) = Found(m - 1) \cup {m - 1}
            BY <2>3, <2>4
        <3>2. f[m] = Append(f[m - 1], m - 1)
            BY <2>1, <2>4
        <3> DEFINE X == Found(m - 1)
                   s == f[m - 1]
                   e == m - 1
        <3>3. Lists(s, X) /\ e \notin X
            BY <2>2
        <3> HIDE DEF X, s, e
        <3>4. Lists(Append(s, e), X \cup {e})
            BY <3>3, ListsMore
        <3> QED
            BY <2>2, <3>1, <3>2, <3>4 DEF X, s, e
    <2>5. CASE ~ InRange(col.data[m - 1], lo, hi)
        <3>1. Found(m) = Found(m - 1)
            BY <2>3, <2>5
        <3> HIDE DEF Found
        <3> QED
            BY <2>1, <2>2, <2>5, <3>1
    <2> QED
        BY <2>4, <2>5
<1>7. 0..n \subseteq S
    <2> HIDE DEF S
    <2> QED
        BY <1>4, <1>5, <1>6, Upward
<1>8. Lists(f[n], Found(n))
    <2>1. n \in 0..n
        BY <1>4
    <2>2. n \in S
        BY <1>7, <2>1
    <2> QED
        BY <2>2
<1> QED
    BY <1>3, <1>8 DEF GoodAnswer, n

\* A built index over rows names rows of the table, each once, and no more than
\* there are.
LEMMA SortedAnswerGood ==
    ASSUME NEW col, NEW n \in Nat, n > 0, Good(col, n), col.index.built, NEW lo \in Int, NEW hi \in Int,
           NEW behind \in Int
    PROVE  LET a == SortedAnswer(col.index, col.data, n, lo, hi, behind)
           IN  a.ok /\ GoodAnswer(a.positions, n) /\ Len(a.positions) \in 0..n
<1> DEFINE idx == col.index
           a == SortedAnswer(idx, col.data, n, lo, hi, behind)
<1>1. Plain(idx) /\ IntArray(col.data) /\ Fits(idx, col.data, n) /\ idx.type \in {"CLUSTER_SORT", "UNCLUSTER_SORT"}
    BY FunctionArray DEF Good, Fine, Typed, Fits, Plain, SortKinds
<1> HIDE DEF idx
<1>2. PICK from \in Nat : \E to \in Int :
          to <= n /\ (n > 0 => to < n) /\ a = Answered(Listed(idx, n, from, to, behind))
    BY <1>1, SortedAnswerIs
<1>3. PICK to \in Int : to <= n /\ (n > 0 => to < n) /\ a = Answered(Listed(idx, n, from, to, behind))
    BY <1>2
<1> HIDE DEF a
<1> DEFINE s == Numbers(from, to)
<1>4. Lists(s, from..to) /\ Len(s) = (IF to < from THEN 0 ELSE to - from + 1)
    <2>1. from \in Int /\ to \in Int
        BY <1>2, <1>3
    <2> QED
        BY <2>1, NumbersListed
<1>5. from..to \subseteq Cells(n) /\ Len(s) \in 0..n
    <2> HIDE DEF s
    <2> QED
        BY <1>3, <1>4 DEF Cells
<1>6. s \in Seq(from..to) /\ DOMAIN s = 1..Len(s)
    BY <1>4, LenProperties DEF Lists
<1> HIDE DEF s
<1>7. CASE idx.type = "CLUSTER_SORT"
    <2>1. Listed(idx, n, from, to, behind) = s
        BY <1>7 DEF Listed, s
    <2> QED
        BY <1>3, <1>4, <1>5, <2>1 DEF Answered, GoodAnswer, a, idx
<1>8. CASE idx.type = "UNCLUSTER_SORT"
    <2> DEFINE X == from..to
               f == [x \in X |-> idx.positions[x]]
               u == [k \in 1..Len(s) |-> f[s[k]]]
    <2>1. Mirrors(idx.copy, idx.positions, col.data, n)
        BY <1>1, <1>8 DEF Fits
    <2>2. \A k \in 1..Len(s) : s[k] \in X
        BY <1>6, ElementOfSeq
    <2>3. \A x \in X : Filled(idx.positions, n + 1, behind)[x] = f[x] /\ f[x] \in Cells(n)
        <3> SUFFICES ASSUME NEW x \in X PROVE Filled(idx.positions, n + 1, behind)[x] = f[x] /\ f[x] \in Cells(n)
            OBVIOUS
        <3>1. x \in Cells(n) /\ x \in Cells(n + 1)
            BY <1>5 DEF Cells
        <3>2. x \in DOMAIN idx.positions /\ idx.positions[x] \in Cells(n)
            BY <2>1, <3>1 DEF Mirrors
        <3> QED
            BY <3>1, <3>2 DEF Filled, Cell
    <2>4. Listed(idx, n, from, to, behind) = u
        <3>1. Listed(idx, n, from, to, behind)
                  = [k \in 1..Len(s) |-> Filled(idx.positions, n + 1, behind)[s[k]]]
            BY <1>6, <1>8 DEF Listed, s
        <3> HIDE DEF f, X
        <3> QED
            BY <2>2, <2>3, <3>1
    <2>5. \A x, y \in X : f[x] = f[y] => x = y
        BY <1>5, <2>1 DEF Mirrors
    <2>6. Lists(u, {f[x] : x \in X})
        <3>1. DOMAIN f = X
            OBVIOUS
        <3>2. Lists(s, X) /\ u = [k \in 1..Len(s) |-> f[s[k]]]
            BY <1>4
        <3> HIDE DEF X, f, u
        <3> QED
            BY <2>5, <3>1, <3>2, ListsImage
    <2>7. {f[x] : x \in X} \subseteq Cells(n)
        BY <2>3
    <2>8. Len(u) = Len(s)
        <3>1. Len(s) \in Nat
            BY <1>5
        <3> QED
            BY <3>1
    <2> HIDE DEF u
    <2> QED
        BY <1>3, <1>5, <2>4, <2>6, <2>7, <2>8 DEF Answered, GoodAnswer, a, idx
<1> QED
    BY <1>1, <1>7, <1>8

\* A select that keeps the conditions names rows of the table, each once.
LEMMA SelectAnswerGood ==
    ASSUME NEW col, NEW n \in Nat, Good(col, n), NEW lo \in Int, NEW hi \in Int, NEW batched,
           NEW behind \in Int,
           \/ batched \/ col.index.type = "NONE"
           \/ col.index.built /\ n > 0
    PROVE  LET a == SelectAnswer(col, lo, hi, batched, behind)
           IN  a.ok /\ GoodAnswer(a.positions, n)
<1>1. col.size = n
    BY DEF Good, Fine
<1>2. CASE batched \/ col.index.type = "NONE"
    BY <1>1, <1>2, ScanGood DEF SelectAnswer, Answered
<1>3. CASE ~ (batched \/ col.index.type = "NONE")
    <2> DEFINE idx == col.index
               a == SortedAnswer(idx, col.data, n, lo, hi, behind)
    <2>1. idx.type \in {"CLUSTER_SORT", "UNCLUSTER_SORT"} /\ idx.built
        BY <1>3 DEF Good, Fine, Typed, Plain, SortKinds
    <2>2. SelectAnswer(col, lo, hi, batched, behind) = Answer(idx, col.data, n, lo, hi, behind)
        BY <1>1, <1>3 DEF SelectAnswer
    <2>3. Answer(idx, col.data, n, lo, hi, behind)
              = IF ~ idx.built THEN Crash ELSE IF Len(a.positions) \in 0..n THEN a ELSE Crash
        BY <2>1, Zenon DEF Answer
    <2>4. a.ok /\ GoodAnswer(a.positions, n) /\ Len(a.positions) \in 0..n
        BY <1>3, <2>1, SortedAnswerGood
    <2> HIDE DEF a
    <2> QED
        BY <2>1, <2>2, <2>3, <2>4
<1> QED
    BY <1>2, <1>3

\* select.
LEMMA SelectKept ==
    ASSUME TypeInv, KeptInv, NEW c \in Columns, NEW lo \in Int, NEW hi \in Int, NEW batched,
           Select(c, lo, hi, batched)
    PROVE  KeptInv'
<1> SUFFICES ASSUME kept' PROVE KeptInv'
    BY DEF KeptInv
<1>1. /\ ~ Faulty /\ UNCHANGED <<table_length, rows, commands>>
      /\ kept
      /\ \/ batched \/ Has(c, {"NONE"})
         \/ columns[c].index.built /\ columns[c].size > 0
    BY DEF Select, Ready
<1>2. PICK behind \in Junk :
           LET a == SelectAnswer(columns[c], lo, hi, batched, behind)
           IN  /\ columns' = IF a.ok THEN columns ELSE [columns EXCEPT ![c].index.fault = "crash"]
               /\ handle' = [positions |-> a.positions, fresh |-> TRUE,
                             null |-> a.positions = << >> /\ columns[c].size > 0]
    BY DEF Select
<1> DEFINE a == SelectAnswer(columns[c], lo, hi, batched, behind)
<1>3. /\ GoodTable(columns, table_length) /\ table_length \in Nat /\ behind \in Int
      /\ Lone(columns) /\ BagOfRows(columns, Cells(table_length)) = rows
    BY <1>1, Before, TableAssumption DEF KeptInv
<1>4. a.ok /\ GoodAnswer(a.positions, table_length)
    <2>1. Good(columns[c], table_length) /\ columns[c].size = table_length
        BY <1>3 DEF GoodTable, Good, Fine
    <2>2. batched \/ columns[c].index.type = "NONE" \/ (columns[c].index.built /\ table_length > 0)
        BY <1>1, <2>1 DEF Has
    <2> QED
        BY <1>3, <2>1, <2>2, SelectAnswerGood
<1>5. columns' = columns /\ handle'.positions = a.positions /\ (handle'.null => handle'.positions = << >>)
    BY <1>2, <1>4
<1> HIDE DEF a
<1>6. GoodHandle'
    <2>1. PICK X \in SUBSET Cells(table_length) : Lists(a.positions, X)
        BY <1>4 DEF GoodAnswer
    <2>2. a.positions \in Seq(X) /\ DOMAIN a.positions = 1..Len(a.positions) /\ Distinct(a.positions)
        BY <2>1, LenProperties DEF Lists
    <2>3. \A i \in 1..Len(a.positions) : a.positions[i] \in Cells(table_length)
        BY <2>1, <2>2, ElementOfSeq
    <2> QED
        BY <1>1, <1>5, <2>2, <2>3 DEF GoodHandle, Distinct
<1> QED
    BY <1>1, <1>3, <1>5, <1>6 DEF KeptInv

(* What a load keeps *)

\* An array of n cells with the values behind them.
Longer(a, n, values) ==
    [i \in Cells(n + Len(values)) |-> IF i < n THEN a[i] ELSE values[i - n + 1]]

\* The values of the file go behind the rows, and there is room for them.
LEMMA ExtendedFine ==
    ASSUME NEW n \in Nat, NEW col, Fine(col, n), col.room = col.capacity \/ n = col.capacity,
           NEW values \in Seq(Int), Len(values) > 0
    PROVE  LET new == Extended(col, values)
               m == n + Len(values)
           IN  /\ Fine(new, m) /\ new.index = col.index
               /\ new.capacity = Grown(col.capacity, n, Len(values))
               /\ new.data = Longer(col.data, n, values)
<1> DEFINE L == Len(values)
           m == n + L
           capacity == Grown(col.capacity, n, L)
           filled == IF n + L < col.capacity THEN n + L ELSE col.capacity
           data == [i \in Cells(m) |-> IF i < n THEN col.data[i] ELSE values[i - n + 1]]
           room == IF capacity = col.capacity THEN col.room ELSE capacity
           new == [col EXCEPT !.data = data, !.size = n + L, !.capacity = capacity, !.room = room]
<1>0. /\ L \in Nat /\ L > 0
      /\ Typed(col) /\ col.size = n /\ n <= col.capacity /\ n <= col.room /\ col.fault = "none"
      /\ col.index.fault = "none" /\ col.capacity \in Nat \ {0} /\ col.room \in Nat
    BY DEF Fine, Typed
<1>1. Extended(col, values) = WithFault(new, filled > col.room)
    BY <1>0 DEF Extended
<1>2. capacity \in Nat \ {0} /\ col.capacity <= capacity /\ m <= capacity /\ (n = col.capacity => col.capacity < capacity)
    <2> HIDE DEF L
    <2> QED
        BY <1>0, GrownRight
<1> HIDE DEF L
<1>3. ~ (filled > col.room)
    BY <1>0
<1> HIDE DEF capacity
<1>4. room \in Nat /\ m <= room
    BY <1>0, <1>2
<1>5. Extended(col, values) = new
    BY <1>1, <1>3 DEF WithFault
<1> HIDE DEF data, room, filled
<1>6. /\ new.fault = "none" /\ new.index = col.index /\ new.size = m
      /\ new.capacity = capacity /\ new.room = room /\ new.data = data
    BY <1>0 DEF Typed, IsColumn
<1>7. Typed(new)
    BY <1>5, <1>0, ExtendedTyped
<1> HIDE DEF new
<1> QED
    BY <1>0, <1>2, <1>4, <1>5, <1>6, <1>7 DEF Fine, capacity, data, L, Longer

\* Columns without a fault that grew together, whether their indexes agree with them or not.
FineTable(cols, n) ==
    /\ DOMAIN cols = Columns
    /\ \A c \in Columns : Fine(cols[c], n) /\ cols[c].capacity = cols[1].capacity

\* The order of a clustered index over the columns.
LEMMA BuiltRows ==
    ASSUME NEW n \in Nat, NEW cols, NEW new, NEW order,
           order \in [Cells(n) -> Cells(n)],
           \A i, j \in Cells(n) : order[i] = order[j] => i = j,
           \A r \in Cells(n) : \E i \in Cells(n) : order[i] = r,
           \A d \in Columns, i \in Cells(n) : new[d].data[i] = cols[d].data[order[i]]
    PROVE  BagOfRows(new, Cells(n)) = BagOfRows(cols, Cells(n))
<1>1. order \in Bijection(Cells(n), Cells(n))
    BY DEF Bijection, Injection, Surjection, IsInjective
<1> QED
    BY <1>1, CellsFinite, RowsInto

\* build_index over an unclustered index.
LEMMA BuiltUnclusteredFine ==
    ASSUME NEW n \in Nat, n # 0, NEW cols, FineTable(cols, n), NEW c \in Columns,
           cols[c].index.type = "UNCLUSTER_SORT", NEW behind \in Int
    PROVE  LET new == Built(cols, c, behind)
           IN  /\ FineTable(new, n) /\ SameTypes(cols, new)
               /\ new[c].index.built /\ Fits(new[c].index, new[c].data, n)
               /\ \A d \in Columns : d # c => new[d] = cols[d]
               /\ \A d \in Columns : new[d].data = cols[d].data /\ new[d].capacity = cols[d].capacity
<1> DEFINE col == cols[c]
           idx == BuildUnclustered(col.index, col.data, n)
           new == [col EXCEPT !.index = idx]
<1>1. /\ Typed(col) /\ Plain(col.index) /\ col.size = n /\ col.data \in [Cells(n) -> Int]
      /\ Fine(col, n) /\ DOMAIN cols = Columns
    BY DEF FineTable, Fine, Typed
<1>2. Built(cols, c, behind) = [cols EXCEPT ![c] = new]
    BY <1>1 DEF Built, UnclusteredTypes
<1>3. Plain(idx) /\ idx.type = "UNCLUSTER_SORT" /\ idx.built /\ idx.fault = "none"
      /\ Mirrors(idx.copy, idx.positions, col.data, n)
    <2> HIDE DEF col
    <2> QED
        BY <1>1, BuildUnclusteredPlain DEF col
<1> HIDE DEF idx
<1>4. Fine(new, n) /\ new.capacity = col.capacity /\ new.data = col.data /\ new.index = idx
    BY <1>1, <1>3, IndexedTyped DEF Fine, Typed, IsColumn
<1>5. Fits(idx, col.data, n)
    BY <1>3 DEF Fits
<1> HIDE DEF new
<1>6. 1 \in Columns
    BY TableAssumption DEF Columns
<1> QED
    BY <1>1, <1>2, <1>3, <1>4, <1>5, <1>6 DEF FineTable, SameTypes

\* build_index over a clustered index: the rows are the same, in its order.
LEMMA BuiltClusteredFine ==
    ASSUME NEW n \in Nat, n # 0, NEW cols, FineTable(cols, n), NEW c \in Columns,
           cols[c].index.type = "CLUSTER_SORT", NEW behind \in Int
    PROVE  LET new == Built(cols, c, behind)
           IN  /\ FineTable(new, n) /\ SameTypes(cols, new)
               /\ new[c].index.built /\ Fits(new[c].index, new[c].data, n)
               /\ \A d \in Columns : new[d].capacity = cols[d].capacity
               /\ \A d \in Columns : d # c => new[d].index = cols[d].index
               /\ BagOfRows(new, Cells(n)) = BagOfRows(cols, Cells(n))
<1> DEFINE col == cols[c]
           units == SortUnits(col.data, n)
           data == SortedValues(units)
           order == SortedPositions(units)
           idx == BuildClustered(col.index, data, n, behind)
           one == [col EXCEPT !.data = data, !.index = idx]
           new == [d \in Columns |-> IF d = c THEN one ELSE Reordered(cols[d], order, behind)]
<1>1. /\ Typed(col) /\ col.size = n /\ col.data \in [Cells(n) -> Int] /\ Fine(col, n) /\ DOMAIN cols = Columns
    BY DEF FineTable, Fine, Typed
<1>2. Built(cols, c, behind) = new
    BY <1>1 DEF Built, UnclusteredTypes
<1>3. Mirrors(data, order, col.data, n)
    <2> HIDE DEF col
    <2> QED
        BY <1>1, UnitsSorted
<1> HIDE DEF data, order, units
<1>4. Plain(idx) /\ idx.type = "CLUSTER_SORT" /\ idx.built /\ idx.fault = "none"
    BY BuildClusteredPlain
<1> HIDE DEF idx
<1>5. /\ Fine(one, n) /\ one.capacity = col.capacity /\ one.index = idx /\ one.data = data
      /\ \A i \in Cells(n) : one.data[i] = col.data[order[i]]
    BY <1>1, <1>3, <1>4 DEF Fine, Typed, IsColumn, Plain, Mirrors, Ascends
<1>6. Fits(idx, data, n)
    BY <1>3, <1>4 DEF Fits, Mirrors
<1> HIDE DEF one
<1>7. ASSUME NEW d \in Columns
      PROVE  LET r == Reordered(cols[d], order, behind)
             IN  /\ Fine(r, n) /\ r.capacity = cols[d].capacity /\ r.index = cols[d].index
                 /\ \A i \in Cells(n) : r.data[i] = cols[d].data[order[i]]
    <2> DEFINE old == cols[d]
               r == Reordered(old, order, behind)
               cells == [i \in Cells(n) |-> Cell(old.data, Cell(order, i, behind), behind)]
    <2>1. Fine(old, n) /\ Typed(old) /\ old.size = n /\ old.data \in [Cells(n) -> Int]
        BY DEF FineTable, Fine, Typed
    <2>2. r = [old EXCEPT !.data = cells, !.room = n]
        BY <2>1 DEF Reordered
    <2>3. Typed(r) /\ r.index = old.index /\ r.size = n
        <3> HIDE DEF old, r
        <3> QED
            BY <2>1, ReorderedTyped DEF r
    <2>4. ASSUME NEW i \in Cells(n) PROVE cells[i] = old.data[order[i]]
        <3>1. Cell(order, i, behind) = order[i] /\ order[i] \in Cells(n)
            BY <1>3 DEF Mirrors, Cell
        <3>2. Cell(old.data, order[i], behind) = old.data[order[i]]
            BY <2>1, <3>1 DEF Cell
        <3> QED
            BY <3>1, <3>2
    <2> HIDE DEF cells
    <2>5. r.data = cells /\ r.room = n /\ r.capacity = old.capacity /\ r.fault = old.fault
        BY <2>1, <2>2 DEF Typed, IsColumn
    <2> HIDE DEF r
    <2> QED
        BY <2>1, <2>3, <2>4, <2>5 DEF Fine, r
<1>8. 1 \in Columns
    BY TableAssumption DEF Columns
<1>9. \A d \in Columns : /\ Fine(new[d], n) /\ new[d].capacity = cols[d].capacity
                         /\ new[d].index.type = cols[d].index.type
                         /\ d # c => new[d].index = cols[d].index
                         /\ \A i \in Cells(n) : new[d].data[i] = cols[d].data[order[i]]
    BY <1>4, <1>5, <1>7
<1>10. new[c] = one /\ DOMAIN new = Columns
    OBVIOUS
<1> HIDE DEF new
<1>11. BagOfRows(new, Cells(n)) = BagOfRows(cols, Cells(n))
    BY <1>3, <1>9, BuiltRows DEF Mirrors
<1>12. FineTable(new, n) /\ SameTypes(cols, new)
    BY <1>8, <1>9, <1>10 DEF FineTable, SameTypes
<1> QED
    BY <1>2, <1>4, <1>5, <1>6, <1>9, <1>10, <1>11, <1>12

\* The indexes up to column m are built, the rows are the same.
BuildingGood(cols, new, n, m) ==
    /\ FineTable(new, n) /\ SameTypes(cols, new)
    /\ \A d \in Columns : d <= m /\ new[d].index.type # "NONE" =>
           new[d].index.built /\ Fits(new[d].index, new[d].data, n)
    /\ \A d \in Columns : new[d].index.type = "NONE" => ~ new[d].index.built
    /\ \A d \in Columns : new[d].capacity = cols[d].capacity
    /\ BagOfRows(new, Cells(n)) = BagOfRows(cols, Cells(n))
    /\ (\A d \in Columns : cols[d].index.type # "CLUSTER_SORT") =>
           \A d \in Columns : new[d].data = cols[d].data

\* One column more.
LEMMA BuildingOn ==
    ASSUME NEW n \in Nat, n # 0, NEW cols, NEW mid, NEW m \in Columns, BuildingGood(cols, mid, n, m - 1),
           NEW behind \in Int,
           cols[m].index.type = "CLUSTER_SORT" =>
               \A d \in Columns : d # m /\ cols[d].index.type # "NONE" => m < d
    PROVE  BuildingGood(cols, BuiltOne(mid, m, behind), n, m)
<1>0. FineTable(mid, n) /\ SameTypes(cols, mid) /\ mid[m].index.type \in SortKinds
    BY DEF BuildingGood, FineTable, Fine, Typed, Plain
<1>1. \A d \in Columns : d <= m <=> d <= m - 1 \/ d = m
    BY DEF Columns
<1>2. CASE mid[m].index.type = "NONE"
    <2>1. BuiltOne(mid, m, behind) = mid
        BY <1>2 DEF BuiltOne
    <2> QED
        BY <1>1, <1>2, <2>1 DEF BuildingGood
<1>3. CASE mid[m].index.type = "UNCLUSTER_SORT"
    <2> DEFINE new == Built(mid, m, behind)
    <2>1. /\ FineTable(new, n) /\ SameTypes(mid, new)
          /\ new[m].index.built /\ Fits(new[m].index, new[m].data, n)
          /\ \A d \in Columns : d # m => new[d] = mid[d]
          /\ \A d \in Columns : new[d].data = mid[d].data /\ new[d].capacity = mid[d].capacity
        BY <1>0, <1>3, BuiltUnclusteredFine
    <2>2. BuiltOne(mid, m, behind) = new
        BY <1>3 DEF BuiltOne
    <2> HIDE DEF new
    <2>3. BagOfRows(mid, Cells(n)) = BagOfRows(new, Cells(n))
        BY <2>1, CellsFinite, RowsSame
    <2>4. \A d \in Columns : d <= m /\ new[d].index.type # "NONE" =>
              new[d].index.built /\ Fits(new[d].index, new[d].data, n)
        BY <1>1, <2>1 DEF BuildingGood
    <2>5. SameTypes(cols, new)
        BY <1>0, <2>1 DEF SameTypes
    <2>6. \A d \in Columns : new[d].index.type = "NONE" => ~ new[d].index.built
        BY <1>3, <2>1 DEF BuildingGood, SameTypes
    <2> QED
        BY <2>1, <2>2, <2>3, <2>4, <2>5, <2>6 DEF BuildingGood
<1>4. CASE mid[m].index.type = "CLUSTER_SORT"
    <2> DEFINE new == Built(mid, m, behind)
    <2>1. /\ FineTable(new, n) /\ SameTypes(mid, new)
          /\ new[m].index.built /\ Fits(new[m].index, new[m].data, n)
          /\ \A d \in Columns : new[d].capacity = mid[d].capacity
          /\ \A d \in Columns : d # m => new[d].index = mid[d].index
          /\ BagOfRows(new, Cells(n)) = BagOfRows(mid, Cells(n))
        BY <1>0, <1>4, BuiltClusteredFine
    <2>2. BuiltOne(mid, m, behind) = new
        BY <1>4 DEF BuiltOne
    <2> HIDE DEF new
    <2>3. SameTypes(cols, new)
        BY <1>0, <2>1 DEF SameTypes
    <2>4. ASSUME NEW d \in Columns, d <= m, new[d].index.type # "NONE"
          PROVE  new[d].index.built /\ Fits(new[d].index, new[d].data, n)
        <3>1. cols[m].index.type = "CLUSTER_SORT" /\ cols[d].index.type # "NONE"
            BY <1>0, <1>4, <2>3, <2>4 DEF SameTypes
        <3>2. d = m
            BY <2>4, <3>1 DEF Columns
        <3> QED
            BY <2>1, <3>2
    <2>5. ~ \A d \in Columns : cols[d].index.type # "CLUSTER_SORT"
        BY <1>0, <1>4 DEF SameTypes
    <2>6. \A d \in Columns : new[d].index.type = "NONE" => ~ new[d].index.built
        BY <1>4, <2>1 DEF BuildingGood, SameTypes
    <2> QED
        BY <2>1, <2>2, <2>3, <2>4, <2>5, <2>6 DEF BuildingGood
<1> QED
    BY <1>0, <1>2, <1>3, <1>4 DEF SortKinds

\* The end of a load.
LEMMA AllBuiltGood ==
    ASSUME NEW n \in Nat, n # 0, NEW cols, FineTable(cols, n), NEW behind \in Int,
           \A c, d \in Columns : cols[c].index.type = "CLUSTER_SORT" /\ d # c /\ cols[d].index.type # "NONE"
                                     => c < d,
           \A d \in Columns : cols[d].index.type = "NONE" => ~ cols[d].index.built
    PROVE  LET new == AllBuilt(cols, behind)
           IN  /\ GoodTable(new, n) /\ SameTypes(cols, new)
               /\ BagOfRows(new, Cells(n)) = BagOfRows(cols, Cells(n))
<1>1. \E b : BuiltTo(cols, behind, ColCount, b)
    BY BuiltToSome, TableAssumption
<1>2. AllBuilt(cols, behind) = (CHOOSE b : BuiltTo(cols, behind, ColCount, b))[ColCount]
    BY DEF AllBuilt, BuiltTo, BuiltOne
<1>3. PICK b : BuiltTo(cols, behind, ColCount, b) /\ AllBuilt(cols, behind) = b[ColCount]
    BY <1>1, <1>2
<1> DEFINE S == {m \in 0..ColCount : BuildingGood(cols, b[m], n, m)}
<1>4. 0 \in S
    <2>1. b[0] = cols /\ 0 \in 0..ColCount
        BY <1>3, TableAssumption DEF BuiltTo
    <2>2. \A d \in Columns : ~ (d <= 0)
        BY DEF Columns
    <2>3. BuildingGood(cols, cols, n, 0)
        BY <2>2 DEF BuildingGood, SameTypes
    <2> QED
        BY <2>1, <2>3
<1>5. ASSUME NEW m \in 1..ColCount, m - 1 \in S PROVE m \in S
    <2>1. b[m] = BuiltOne(b[m - 1], m, behind) /\ m \in 0..ColCount
        BY <1>3, TableAssumption DEF BuiltTo
    <2>2. BuildingGood(cols, b[m - 1], n, m - 1) /\ m \in Columns
        BY <1>5 DEF Columns
    <2>3. BuildingGood(cols, BuiltOne(b[m - 1], m, behind), n, m)
        BY <2>2, BuildingOn
    <2> QED
        BY <2>1, <2>3
<1>6. BuildingGood(cols, b[ColCount], n, ColCount)
    <2>1. 0..ColCount \subseteq S
        <3> HIDE DEF S
        <3> QED
            BY <1>4, <1>5, Upward, TableAssumption
    <2>2. ColCount \in 0..ColCount
        BY TableAssumption
    <2> QED
        BY <2>1, <2>2
<1> DEFINE new == AllBuilt(cols, behind)
<1>7. BuildingGood(cols, new, n, ColCount)
    BY <1>3, <1>6
<1> HIDE DEF new
<1>8. ASSUME NEW d \in Columns PROVE Good(new[d], n)
    <2>1. Fine(new[d], n) /\ new[d].index.type \in SortKinds /\ d <= ColCount
        BY <1>7 DEF BuildingGood, FineTable, Fine, Typed, Plain, Columns
    <2> QED
        BY <1>7, <2>1 DEF BuildingGood, Good
<1> QED
    BY <1>7, <1>8 DEF BuildingGood, GoodTable, FineTable, new

\* Types that stay.
LEMMA SameLone ==
    ASSUME NEW cols, NEW new, SameTypes(cols, new), Lone(cols),
           \A d \in Columns : new[d].index.built => cols[d].index.built
    PROVE  Lone(new)
BY DEF SameTypes, Lone

\* With one clustered column there is at most one built.
LEMMA OneLone ==
    ASSUME TypedTable(columns), Cardinality(Clusters) <= 1, NEW new, SameTypes(columns, new)
    PROVE  Lone(new)
<1>1. OneCluster
    BY OneClusterIs
<1>2. \A c \in Columns : c \in Clusters <=> columns[c].index.type = "CLUSTER_SORT"
    BY ClustersSorted
<1> QED
    BY <1>1, <1>2 DEF OneCluster, SameTypes, Lone

\* A good table has the types.
LEMMA GoodTyped ==
    ASSUME NEW n, NEW cols, GoodTable(cols, n)
    PROVE  TypedTable(cols) /\ FineTable(cols, n)
BY DEF GoodTable, Good, Fine, TypedTable, FineTable

\* The columns with the rows of the file.
LEMMA LoadedGood ==
    ASSUME NEW n \in Nat, GoodTable(columns, n), NEW file \in Files, file # << >>, NEW behind \in Int,
           \A c \in Columns : columns[c].room = columns[c].capacity \/ columns[c].size = columns[c].capacity
    PROVE  LET new == Loaded(file, behind)
               m == n + Len(file)
           IN  /\ Len(file) \in Nat \ {0}
               /\ FineTable(new, m)
               /\ \A c \in Columns : new[c].index = columns[c].index
               /\ BagOfRows(new, Cells(m)) = BagOfRows(columns, Cells(n)) (+) BagOfFile(file)
<1> DEFINE L == Len(file)
           m == n + L
           values(c) == [k \in DOMAIN file |-> file[k][c]]
           new == Loaded(file, behind)
<1>1. file \in Seq([Columns -> Int])
    BY TableAssumption
<1>2. L \in Nat \ {0} /\ DOMAIN file = 1..L /\ \A k \in 1..L : file[k] \in [Columns -> Int]
    <2>1. L \in Nat /\ DOMAIN file = 1..L
        BY <1>1, LenProperties
    <2>2. L # 0
        BY <1>1, EmptySeq
    <2> QED
        BY <1>1, <2>1, <2>2, ElementOfSeq
<1> HIDE DEF L
<1>3. \A c \in Columns : /\ values(c) \in Seq(Int) /\ Len(values(c)) = L
                         /\ \A k \in 1..L : values(c)[k] = file[k][c]
    BY <1>2
<1>4. new = [c \in Columns |-> Extended(columns[c], values(c))]
    BY DEF Loaded, Read
<1> HIDE DEF values, new
<1>5. ASSUME NEW c \in Columns
      PROVE  /\ Fine(new[c], m) /\ new[c].index = columns[c].index
             /\ new[c].capacity = Grown(columns[1].capacity, n, L)
             /\ new[c].data = [i \in Cells(m) |-> IF i < n THEN columns[c].data[i] ELSE values(c)[i - n + 1]]
    <2>1. Fine(columns[c], n) /\ columns[c].capacity = columns[1].capacity /\ columns[c].size = n
        BY DEF GoodTable, Good, Fine
    <2>2. columns[c].room = columns[c].capacity \/ n = columns[c].capacity
        BY <2>1
    <2>3. PICK v : v = values(c)
        OBVIOUS
    <2>4. v \in Seq(Int) /\ Len(v) = L /\ Len(v) > 0
        BY <1>2, <1>3, <2>3
    <2>9. PICK col : col = columns[c]
        OBVIOUS
    <2> DEFINE e == Extended(col, v)
               l == Len(v)
    <2>10. Fine(col, n) /\ (col.room = col.capacity \/ n = col.capacity) /\ v \in Seq(Int) /\ l > 0
        BY <2>1, <2>2, <2>4, <2>9
    <2>7. /\ Fine(e, n + l) /\ e.index = col.index
          /\ e.capacity = Grown(col.capacity, n, l)
          /\ e.data = Longer(col.data, n, v)
        BY <2>10, ExtendedFine
    <2> HIDE DEF e, l
    <2>8. l = L
        BY <2>4 DEF l
    <2>5. /\ Fine(e, m) /\ e.index = col.index
          /\ e.capacity = Grown(col.capacity, n, L)
          /\ e.data = [i \in Cells(m) |-> IF i < n THEN col.data[i] ELSE v[i - n + 1]]
        BY <2>4, <2>7, <2>8 DEF Longer
    <2>6. new[c] = Extended(columns[c], v)
        BY <1>4, <2>3
    <2> QED
        BY <2>1, <2>3, <2>5, <2>6, <2>9 DEF e
<1>6. FineTable(new, m)
    <2>1. 1 \in Columns
        BY TableAssumption DEF Columns
    <2>2. DOMAIN new = Columns
        BY <1>4
    <2> QED
        BY <1>5, <2>1, <2>2 DEF FineTable
<1> DEFINE T == n..(m - 1)
<1>7. Cells(m) = Cells(n) \cup T /\ Cells(n) \cap T = {} /\ IsFiniteSet(T) /\ IsFiniteSet(Cells(n))
    <2>1. \A i : i \in Cells(m) <=> i \in Cells(n) \/ i \in T
        BY <1>2 DEF Cells
    <2>2. \A i : ~ (i \in Cells(n) /\ i \in T)
        BY DEF Cells
    <2>3. n \in Int /\ m - 1 \in Int
        BY <1>2
    <2>4. IsFiniteSet(T)
        BY <2>3, FS_Interval
    <2>5. IsFiniteSet(Cells(n))
        BY CellsFinite
    <2> HIDE DEF T
    <2>6. Cells(m) = Cells(n) \cup T
        BY <2>1, Zenon
    <2>7. Cells(n) \cap T = {}
        BY <2>2, Zenon
    <2> QED
        BY <2>4, <2>5, <2>6, <2>7
<1>8. BagOfRows(new, Cells(n)) = BagOfRows(columns, Cells(n))
    <2>1. \A i \in Cells(n), c \in Columns : columns[c].data[i] = new[c].data[i]
        <3> SUFFICES ASSUME NEW i \in Cells(n), NEW c \in Columns PROVE columns[c].data[i] = new[c].data[i]
            OBVIOUS
        <3>1. i \in Cells(m) /\ i < n
            BY <1>2 DEF Cells
        <3> HIDE DEF m
        <3> QED
            BY <1>5, <3>1
    <2> QED
        BY <1>7, <2>1, RowsSame
<1>9. BagOfRows(new, T) = BagOfFile(file)
    <2> DEFINE f == [i \in T |-> RowAt(new, i)]
               h == [i \in T |-> i - n + 1]
               D == DOMAIN file
    <2>1. BagOfRows(new, T) = Multi(f, T) /\ BagOfFile(file) = Multi(file, D)
        BY RowsBag, FileBag
    <2>2. h \in Bijection(T, D)
        <3>1. \A i \in T : h[i] \in D
            BY <1>2
        <3>2. \A i, j \in T : h[i] = h[j] => i = j
            BY <1>2
        <3>3. \A k \in D : k + n - 1 \in T /\ h[k + n - 1] = k
            BY <1>2
        <3>4. h \in [T -> D]
            BY <3>1
        <3> HIDE DEF h, T, D
        <3> QED
            BY <3>2, <3>3, <3>4 DEF Bijection, Injection, Surjection, IsInjective
    <2>3. \A i \in T : f[i] = file[h[i]]
        <3> SUFFICES ASSUME NEW i \in T PROVE f[i] = file[h[i]]
            OBVIOUS
        <3> DEFINE k == i - n + 1
        <3>1. k \in 1..L /\ i \in Cells(m) /\ ~ (i < n) /\ h[i] = k
            BY <1>2 DEF Cells
        <3>2. \A c \in Columns : new[c].data[i] = file[k][c]
            <4> SUFFICES ASSUME NEW c \in Columns PROVE new[c].data[i] = file[k][c]
                OBVIOUS
            <4>1. new[c].data[i] = values(c)[k]
                BY <1>5, <3>1
            <4> HIDE DEF k
            <4> QED
                BY <1>3, <3>1, <4>1
        <3>3. file[k] \in [Columns -> Int]
            BY <1>2, <3>1
        <3> HIDE DEF k
        <3>4. RowAt(new, i) = file[k]
            BY <3>2, <3>3 DEF RowAt
        <3> QED
            BY <3>1, <3>4
    <2>4. IsFiniteSet(T) /\ IsFiniteSet(D)
        <3>1. 1 \in Int /\ L \in Int /\ D = 1..L
            BY <1>2
        <3> HIDE DEF D
        <3> QED
            BY <1>7, <3>1, FS_Interval
    <2> HIDE DEF f, h, D, T
    <2>5. Multi(f, T) = Multi(file, D)
        BY <2>2, <2>3, <2>4, MultiMoved
    <2> QED
        BY <2>1, <2>5
<1>10. BagOfRows(new, Cells(m)) = BagOfRows(columns, Cells(n)) (+) BagOfFile(file)
    <2> HIDE DEF T
    <2>1. BagOfRows(new, Cells(n) \cup T) = BagOfRows(new, Cells(n)) (+) BagOfRows(new, T)
        BY <1>7, RowsBoth
    <2> QED
        BY <1>7, <1>8, <1>9, <2>1
<1> QED
    BY <1>2, <1>5, <1>6, <1>10 DEF L, new

\* db_load.
LEMMA LoadKeeps ==
    ASSUME TypeInv, KeptInv, NEW file \in Files, NEW last \in BOOLEAN, Load(file, last)
    PROVE  KeptInv'
<1> SUFFICES ASSUME kept' PROVE KeptInv'
    BY DEF KeptInv
<1>1. /\ ~ Faulty /\ kept /\ file # << >> /\ LoadKept(Len(file), last)
      /\ rows' = rows (+) BagOfFile(file) /\ Done(Clusters # {})
    BY DEF Load, Ready
<1>2. PICK behind \in Junk :
          /\ columns' = IF last THEN AllBuilt(Loaded(file, behind), behind) ELSE Loaded(file, behind)
          /\ table_length' = table_length + Len(Read(file, behind))
    BY DEF Load, Loaded, Read
<1>3. PICK n : n = table_length
    OBVIOUS
<1>4. /\ GoodTable(columns, n) /\ n \in Nat /\ behind \in Int /\ Lone(columns)
      /\ BagOfRows(columns, Cells(n)) = rows /\ Counted(columns) /\ TypedTable(columns)
      /\ handle.fresh => GoodHandle
      /\ handle.fresh /\ handle.null => handle.positions = << >>
    BY <1>1, <1>3, Before, TableAssumption DEF KeptInv
<1> DEFINE L == Len(file)
           m == n + L
           mid == Loaded(file, behind)
<1>5. /\ L \in Nat \ {0} /\ FineTable(mid, m)
      /\ \A c \in Columns : mid[c].index = columns[c].index
      /\ BagOfRows(mid, Cells(m)) = rows (+) BagOfFile(file)
    BY <1>1, <1>4, LoadedGood DEF LoadKept
<1>6. table_length' = m /\ m \in Nat /\ m # 0
    BY <1>1, <1>2, <1>3, <1>4, <1>5 DEF Read
<1>7. \A c \in Columns : c \in Clusters <=> columns[c].index.type = "CLUSTER_SORT"
    BY <1>4, ClustersSorted
<1>8. \A c \in Columns : columns[c].index.type = "NONE" => ~ columns[c].index.built
    BY <1>4 DEF GoodTable, Good, Fits
<1> HIDE DEF L, mid, m
<1>9. GoodTable(columns', m) /\ Lone(columns') /\ BagOfRows(columns', Cells(m)) = rows'
    <2>1. CASE last
        <3> DEFINE new == AllBuilt(mid, behind)
        <3>1. columns' = new
            BY <1>2, <2>1 DEF mid
        <3>2. \A c, d \in Columns : mid[c].index.type = "CLUSTER_SORT" /\ d # c /\ mid[d].index.type # "NONE"
                                        => c < d
            <4> SUFFICES ASSUME NEW c \in Columns, NEW d \in Columns, d # c,
                                columns[c].index.type = "CLUSTER_SORT", columns[d].index.type # "NONE"
                         PROVE  c < d
                BY <1>5
            <4>1. c \in Clusters
                BY <1>7
            <4>2. OneCluster
                BY <1>1, OneClusterIs DEF LoadKept
            <4>3. columns[d].index.type = "UNCLUSTER_SORT"
                <5>1. columns[d].index.type \in SortKinds
                    BY <1>4 DEF TypedTable, Typed, Plain
                <5>2. d \notin Clusters
                    BY <4>1, <4>2 DEF OneCluster
                <5> QED
                    BY <1>7, <5>1, <5>2 DEF SortKinds
            <4> QED
                BY <1>1, <4>1, <4>3 DEF LoadKept, Has, UnclusteredTypes
        <3>3. GoodTable(new, m) /\ SameTypes(mid, new) /\ BagOfRows(new, Cells(m)) = BagOfRows(mid, Cells(m))
            BY <1>4, <1>5, <1>6, <1>8, <3>2, AllBuiltGood
        <3> HIDE DEF new
        <3>4. SameTypes(columns, new)
            BY <1>5, <3>3 DEF SameTypes
        <3>5. Lone(new)
            BY <1>1, <1>4, <3>4, OneLone DEF LoadKept
        <3> QED
            BY <1>1, <1>5, <3>1, <3>3, <3>5
    <2>2. CASE ~ last
        <3>1. columns' = mid
            BY <1>2, <2>2 DEF mid
        <3>2. \A c \in Columns : ~ mid[c].index.built
            BY <1>1, <1>5, <1>8, <2>2 DEF LoadKept, Has
        <3>3. GoodTable(mid, m) /\ Lone(mid)
            BY <1>5, <3>2 DEF FineTable, GoodTable, Good, Lone
        <3> QED
            BY <1>1, <1>5, <3>1, <3>3
    <2> QED
        BY <2>1, <2>2
<1>10. /\ handle'.fresh => GoodHandle'
       /\ handle'.fresh /\ handle'.null => handle'.positions = << >>
    <2>1. DOMAIN handle = {"positions", "null", "fresh"}
        BY DEF TypeInv, SizeInv
    <2>2. handle' = [handle EXCEPT !.fresh = @ /\ ~ (Clusters # {})]
        BY <1>1 DEF Done
    <2>3. handle'.positions = handle.positions /\ handle'.null = handle.null /\ (handle'.fresh => handle.fresh)
        BY <2>1, <2>2, Zenon
    <2>4. Cells(n) \subseteq Cells(m)
        BY <1>4, <1>5 DEF Cells, m
    <2> QED
        BY <1>3, <1>4, <1>6, <2>3, <2>4 DEF GoodHandle
<1> QED
    BY <1>6, <1>9, <1>10 DEF KeptInv

(* What an insert keeps *)

\* The search answers with a place between, if the conditions are kept.
LEMMA PlaceFits ==
    ASSUME NEW n \in Nat, NEW a, Ascends(a, n), NEW v \in Int, SearchFits(a, n, v), NEW behind \in Int
    PROVE  LET p == Find(a, n, v, "GREATER_EQUAL", behind)
           IN  p \in 0..n /\ p <= n /\ (n > 0 => p < n) /\ Between(a, n, p, v)
<1> DEFINE p == Find(a, n, v, "GREATER_EQUAL", behind)
<1>1. CASE n = 0
    <2>1. p = 0
        BY <1>1, FindNothing
    <2> HIDE DEF p
    <2> QED
        BY <1>1, <2>1 DEF Between, Cells, p
<1>2. CASE n # 0
    <2>1. a \in [Cells(n) -> Int] /\ \A i, j \in Cells(n) : i <= j => a[i] <= a[j]
        BY DEF Ascends
    <2> DEFINE keys == WithEnd(a, n, behind)
    <2>2. \/ \E mid \in Cells(n) : /\ a[mid] <= v /\ (mid = n - 1 \/ v < a[mid + 1])
                                   /\ p = Hit(keys, mid, v, "GREATER_EQUAL")
          \/ /\ p \in Cells(n)
             /\ p = 0 \/ a[p] <= v
             /\ p = n - 1 \/ v <= a[p]
        BY <1>2, <2>1, FindResult DEF Ops
    <2> HIDE DEF p, keys
    <2>3. CASE \E mid \in Cells(n) : /\ a[mid] <= v /\ (mid = n - 1 \/ v < a[mid + 1])
                                     /\ p = Hit(keys, mid, v, "GREATER_EQUAL")
        <3>1. PICK mid \in Cells(n) : /\ a[mid] <= v /\ (mid = n - 1 \/ v < a[mid + 1])
                                      /\ p = Hit(keys, mid, v, "GREATER_EQUAL")
            BY <2>3
        <3>2. Hit(keys, mid, v, "GREATER_EQUAL") = mid
            BY Zenon DEF Hit
        <3>3. p = mid
            BY <3>1, <3>2
        <3>4. a[mid] = v
            <4>1. CASE \A i \in Cells(n) : v <= a[i]
                BY <2>1, <3>1, <4>1
            <4>2. CASE \E i \in Cells(n) : v = a[i]
                <5>1. PICK i \in Cells(n) : v = a[i]
                    BY <4>2
                <5>2. CASE i <= mid
                    BY <2>1, <3>1, <5>1, <5>2
                <5>3. CASE ~ (i <= mid)
                    <6>1. mid # n - 1 /\ mid + 1 \in Cells(n) /\ mid + 1 <= i
                        BY <5>3 DEF Cells
                    <6>2. a[mid + 1] <= a[i] /\ a[mid + 1] \in Int
                        BY <2>1, <6>1
                    <6> QED
                        BY <3>1, <5>1, <6>1, <6>2
                <5> QED
                    BY <5>2, <5>3
            <4> QED
                BY <4>1, <4>2 DEF SearchFits
        <3>5. Between(a, n, mid, v)
            <4>1. \A j \in Cells(n) : j < mid => a[j] <= a[mid]
                BY <2>1 DEF Cells
            <4>2. \A j \in Cells(n) : j >= mid => a[mid] <= a[j]
                BY <2>1 DEF Cells
            <4> QED
                BY <3>4, <4>1, <4>2 DEF Between
        <3> QED
            BY <1>2, <3>3, <3>5 DEF Cells, p
    <2>4. CASE /\ p \in Cells(n)
               /\ p = 0 \/ a[p] <= v
               /\ p = n - 1 \/ v <= a[p]
        <3>1. \A j \in Cells(n) : j < p => a[j] <= v
            <4> SUFFICES ASSUME NEW j \in Cells(n), j < p PROVE a[j] <= v
                OBVIOUS
            <4>1. p # 0 /\ j <= p
                BY <2>4 DEF Cells
            <4>2. a[j] <= a[p] /\ a[p] <= v /\ a[j] \in Int /\ a[p] \in Int
                BY <2>1, <2>4, <4>1
            <4> QED
                BY <4>2
        <3>2. v <= a[p]
            <4>1. CASE \A i \in Cells(n) : v <= a[i]
                BY <2>4, <4>1
            <4>2. CASE p # n - 1
                BY <2>4, <4>2
            <4>3. CASE p = n - 1 /\ \E i \in Cells(n) : v = a[i]
                <5>1. PICK i \in Cells(n) : v = a[i]
                    BY <4>3
                <5>2. i <= p
                    BY <4>3 DEF Cells
                <5> QED
                    BY <2>1, <2>4, <5>1, <5>2
            <4> QED
                BY <4>1, <4>2, <4>3 DEF SearchFits
        <3>3. \A j \in Cells(n) : j >= p => v <= a[j]
            <4> SUFFICES ASSUME NEW j \in Cells(n), j >= p PROVE v <= a[j]
                OBVIOUS
            <4>1. p <= j
                BY <2>4 DEF Cells
            <4>2. a[p] <= a[j] /\ a[j] \in Int /\ a[p] \in Int
                BY <2>1, <2>4, <4>1
            <4> QED
                BY <3>2, <4>2
        <3>4. Between(a, n, p, v)
            BY <3>1, <3>3 DEF Between
        <3> QED
            BY <1>2, <2>4, <3>4 DEF Cells, p
    <2> QED
        BY <2>2, <2>3, <2>4
<1> QED
    BY <1>1, <1>2

\* The rows with one more.
LEMMA InsertedRows ==
    ASSUME NEW n \in Nat, NEW cols, NEW new, NEW p \in 0..n, NEW values \in [Columns -> Int],
           \A d \in Columns : new[d].data = Wider(cols[d].data, n, p, values[d])
    PROVE  BagOfRows(new, Cells(n + 1)) = BagOfRows(cols, Cells(n)) (+) SetToBag({values})
<1> DEFINE T == Cells(n + 1) \ {p}
           h == [i \in Cells(n) |-> Up(i, p)]
<1>1. IsFiniteSet(T) /\ IsFiniteSet(Cells(n)) /\ IsFiniteSet({p}) /\ p \in Cells(n + 1)
    <2>1. IsFiniteSet(Cells(n + 1)) /\ IsFiniteSet(Cells(n))
        BY CellsFinite
    <2> QED
        BY <2>1, FS_Subset, FS_Singleton DEF Cells
<1>2. h \in Bijection(Cells(n), T)
    <2>1. /\ \A i \in Cells(n) : h[i] \in T
          /\ \A i, j \in Cells(n) : h[i] = h[j] => i = j
        BY UpPlaces
    <2>2. \A j \in T : Back(j, p) \in Cells(n) /\ h[Back(j, p)] = j
        BY UpPlaces
    <2>3. h \in [Cells(n) -> T]
        BY <2>1
    <2> HIDE DEF h, T
    <2> QED
        BY <2>1, <2>2, <2>3 DEF Bijection, Injection, Surjection, IsInjective
<1>3. \A i \in Cells(n), d \in Columns : cols[d].data[i] = new[d].data[h[i]]
    <2> SUFFICES ASSUME NEW i \in Cells(n), NEW d \in Columns
                 PROVE  cols[d].data[i] = new[d].data[Up(i, p)]
        OBVIOUS
    <2>1. Wider(cols[d].data, n, p, values[d])[Up(i, p)] = cols[d].data[i]
        BY WiderBack
    <2> QED
        BY <2>1
<1>4. RowAt(new, p) = values
    <2>1. \A d \in Columns : new[d].data[p] = values[d]
        <3> SUFFICES ASSUME NEW d \in Columns PROVE new[d].data[p] = values[d]
            OBVIOUS
        <3>1. Wider(cols[d].data, n, p, values[d])[p] = values[d]
            <4>1. PICK v, a : v = values[d] /\ a = cols[d].data
                OBVIOUS
            <4>2. p \in Cells(n + 1) /\ ~ (p < p)
                BY DEF Cells
            <4>3. Wider(a, n, p, v)[p] = v
                BY <4>2 DEF Wider
            <4> QED
                BY <4>1, <4>3
        <3> QED
            BY <3>1
    <2> QED
        BY <2>1 DEF RowAt
<1>5. BagOfRows(new, {p}) = SetToBag({values})
    BY <1>4, RowsOne
<1>6. Cells(n + 1) = T \cup {p} /\ T \cap {p} = {}
    BY <1>1
<1> HIDE DEF h, T
<1>7. BagOfRows(cols, Cells(n)) = BagOfRows(new, T)
    <2>1. PICK g, S : g = h /\ S = Cells(n)
        OBVIOUS
    <2>2. g \in Bijection(S, T) /\ IsFiniteSet(S) /\ IsFiniteSet(T)
        BY <1>1, <1>2, <2>1
    <2>3. \A i \in S, d \in Columns : cols[d].data[i] = new[d].data[g[i]]
        BY <1>3, <2>1
    <2>4. BagOfRows(cols, S) = BagOfRows(new, T)
        BY <2>2, <2>3, RowsInto
    <2> QED
        BY <2>1, <2>4
<1>8. BagOfRows(new, T \cup {p}) = BagOfRows(new, T) (+) BagOfRows(new, {p})
    BY <1>1, <1>6, RowsBoth
<1> QED
    BY <1>5, <1>6, <1>7, <1>8

\* db_increase_capacity.
LEMMA IncreasedGood ==
    ASSUME NEW n \in Nat, NEW col, Good(col, n), col.index.type = "NONE" \/ col.index.built
    PROVE  LET new == Increased(col)
           IN  /\ Good(new, n) /\ new.capacity = 2 * col.capacity /\ new.room = 2 * col.capacity
               /\ new.data = col.data /\ new.index.type = col.index.type /\ new.index.built = col.index.built
               /\ new.index.copy = col.index.copy
               /\ new.index.type # "NONE" => new.index.room = 2 * col.capacity
<1> DEFINE capacity == 2 * col.capacity
           idx == IF col.index.type = "NONE" THEN col.index ELSE [col.index EXCEPT !.room = capacity]
           new == Increased(col)
<1>1. Typed(col) /\ Plain(col.index) /\ col.capacity \in Nat \ {0} /\ n <= col.capacity
    BY DEF Good, Fine, Typed
<1>2. new = [col EXCEPT !.capacity = capacity, !.room = capacity, !.index = idx]
    BY <1>1 DEF Increased, Plain, SortKinds
<1>3. capacity \in Nat \ {0} /\ n <= capacity
    BY <1>1
<1>4. /\ idx.type = col.index.type /\ idx.built = col.index.built /\ idx.copy = col.index.copy
      /\ idx.positions = col.index.positions /\ idx.fault = col.index.fault
      /\ idx.type # "NONE" => idx.room = capacity
    BY <1>1 DEF Plain, IsIndex
<1> HIDE DEF capacity, idx
<1>5. /\ new.capacity = capacity /\ new.room = capacity /\ new.index = idx /\ new.data = col.data
      /\ new.size = col.size /\ new.fault = col.fault
    BY <1>1, <1>2 DEF Typed, IsColumn
<1>6. Typed(new)
    BY <1>1, IncreasedTyped
<1> HIDE DEF new
<1>7. Good(new, n)
    BY <1>3, <1>4, <1>5, <1>6 DEF Good, Fine, Fits
<1> QED
    BY <1>4, <1>5, <1>7 DEF new, capacity

\* A row takes its place in a column that has room.
LEMMA OpenedAtFine ==
    ASSUME NEW n \in Nat, NEW col, Fine(col, n), n < col.room, n < col.capacity,
           NEW p \in 0..n, NEW v \in Int, NEW behind \in Int
    PROVE  LET new == OpenedAt(col, p, n, v, behind)
           IN  /\ Fine(new, n + 1) /\ new.index = col.index /\ new.capacity = col.capacity
               /\ new.data = Wider(col.data, n, p, v)
<1> DEFINE gap == Opened(Filled(col.data, n + 1, behind), p, n, v)
           data == Filled(gap, n + 1, behind)
           new == [col EXCEPT !.data = data, !.size = n + 1]
           bad == n >= col.room \/ p >= col.room \/ p = Unset
<1>1. /\ Typed(col) /\ col.size = n /\ col.data \in [Cells(n) -> Int] /\ col.capacity \in Nat /\ col.room \in Nat
      /\ col.fault = "none" /\ col.index.fault = "none"
    BY DEF Fine, Typed
<1>2. data = Wider(col.data, n, p, v)
    <2>1. gap = Wider(col.data, n, p, v)
        BY <1>1, OpenedIs
    <2>2. Wider(col.data, n, p, v) \in [Cells(n + 1) -> Int]
        BY <1>1, WiderType
    <2> HIDE DEF gap
    <2> QED
        BY <2>1, <2>2, n + 1 \in Int, FilledSame
<1>3. ~ bad
    BY <1>1 DEF Unset
<1>4. OpenedAt(col, p, n, v, behind) = WithFault(new, bad)
    BY <1>1 DEF OpenedAt
<1> HIDE DEF data, bad
<1>5. OpenedAt(col, p, n, v, behind) = new
    BY <1>3, <1>4 DEF WithFault
<1>6. Typed(new)
    BY <1>1, <1>5, OpenedAtTyped
<1>7. /\ new.data = data /\ new.size = n + 1 /\ new.index = col.index /\ new.capacity = col.capacity
      /\ new.room = col.room /\ new.fault = "none"
    BY <1>1 DEF Typed, IsColumn
<1> HIDE DEF new
<1> QED
    BY <1>1, <1>2, <1>5, <1>6, <1>7 DEF Fine

\* db_insert_sort_uncluster.
LEMMA SortInsertGood ==
    ASSUME NEW n \in Nat, NEW idx, Plain(idx), idx.type = "UNCLUSTER_SORT", idx.fault = "none",
           NEW data \in [Cells(n) -> Int], Mirrors(idx.copy, idx.positions, data, n),
           n < idx.room, NEW v \in Int, SearchFits(idx.copy, n, v), NEW p \in 0..n, NEW behind \in Int
    PROVE  LET new == SortInsert(idx, n, v, p, behind)
           IN  /\ new.fault = "none" /\ new.type = "UNCLUSTER_SORT"
               /\ Mirrors(new.copy, new.positions, Wider(data, n, p, v), n + 1)
<1> DEFINE place == Find(idx.copy, n, v, "GREATER_EQUAL", behind)
           old == Filled(idx.positions, n, behind)
           moved == [j \in Cells(n) |-> IF old[j] >= p THEN old[j] + 1 ELSE old[j]]
           copy == Opened(Filled(idx.copy, n + 1, behind), place, n, v)
           positions == Opened(Filled(moved, n + 1, behind), place, n, p)
           new == [idx EXCEPT !.copy = copy, !.positions = positions]
<1>1. Ascends(idx.copy, n) /\ idx.positions \in [Cells(n) -> Cells(n)] /\ idx.copy \in [Cells(n) -> Int]
    BY DEF Mirrors, Ascends
<1>2. place \in 0..n /\ Between(idx.copy, n, place, v)
    BY <1>1, PlaceFits
<1>3. SortInsert(idx, n, v, p, behind) = new
    BY DEF SortInsert, Plain
<1> HIDE DEF place
<1>4. copy = Wider(idx.copy, n, place, v)
    BY <1>1, <1>2, OpenedIs
<1>5. moved = [j \in Cells(n) |-> Up(idx.positions[j], p)]
    <2>1. old = idx.positions
        <3>1. idx.positions \in [Cells(n) -> Int]
            BY <1>1 DEF Cells
        <3> QED
            BY <3>1, FilledSame
    <2> HIDE DEF old
    <2> QED
        BY <2>1 DEF Up
<1>6. positions = Wider(moved, n, place, p)
    <2>1. DOMAIN moved = Cells(n)
        OBVIOUS
    <2> HIDE DEF moved
    <2> QED
        BY <1>2, <2>1, OpenedIs
<1> HIDE DEF moved, copy, positions
<1>7. /\ new.copy = copy /\ new.positions = positions /\ new.fault = idx.fault /\ new.type = idx.type
    BY DEF Plain, IsIndex
<1>8. Mirrors(Wider(idx.copy, n, place, v), Wider(moved, n, place, p), Wider(data, n, p, v), n + 1)
    <2>1. PICK c, s : c = idx.copy /\ s = idx.positions
        OBVIOUS
    <2>2. Mirrors(c, s, data, n) /\ Between(c, n, place, v) /\ moved = [j \in Cells(n) |-> Up(s[j], p)]
        BY <1>2, <1>5, <2>1
    <2>3. Mirrors(Wider(c, n, place, v), Wider(moved, n, place, p), Wider(data, n, p, v), n + 1)
        BY <1>2, <2>2, MirrorsWider
    <2> QED
        BY <2>1, <2>3
<1> HIDE DEF new
<1> QED
    BY <1>3, <1>4, <1>6, <1>7, <1>8

\* What an index of a column other than the clustered one is and can take.
Takes(col, n, v) ==
    /\ col.index.type \in {"NONE", "UNCLUSTER_SORT"}
    /\ col.index.type = "UNCLUSTER_SORT" =>
           col.index.built /\ n < col.index.room /\ SearchFits(col.index.copy, n, v)

\* The row in a column that the clustered index does not order.
LEMMA NotedGood ==
    ASSUME NEW n \in Nat, NEW col, Good(col, n), n < col.room, n < col.capacity,
           NEW p \in 0..n, NEW v \in Int, NEW behind \in Int, Takes(col, n, v)
    PROVE  LET mid == OpenedAt(col, p, n, v, behind)
               new == [mid EXCEPT !.index = Noted(mid.index, n, v, p, behind)]
           IN  /\ Good(new, n + 1) /\ new.capacity = col.capacity /\ new.data = Wider(col.data, n, p, v)
<1> DEFINE mid == OpenedAt(col, p, n, v, behind)
           idx == Noted(mid.index, n, v, p, behind)
           new == [mid EXCEPT !.index = idx]
<1>1. Fine(col, n) /\ Typed(col) /\ Plain(col.index) /\ col.data \in [Cells(n) -> Int] /\ col.index.fault = "none"
    BY DEF Good, Fine, Typed
<1>2. /\ Fine(mid, n + 1) /\ mid.index = col.index /\ mid.capacity = col.capacity
      /\ mid.data = Wider(col.data, n, p, v)
    BY <1>1, OpenedAtFine
<1> HIDE DEF mid
<1>3. Plain(idx) /\ idx.fault = "none" /\ (idx.built => Fits(idx, mid.data, n + 1))
    <2>1. Plain(idx)
        BY <1>1, <1>2, NotedPlain
    <2>2. CASE col.index.type = "NONE"
        <3>1. idx = col.index
            BY <1>2, <2>2 DEF Noted, UnclusteredTypes
        <3> QED
            BY <1>1, <2>1, <2>2, <3>1 DEF Good, Fits
    <2>3. CASE col.index.type = "UNCLUSTER_SORT"
        <3>1. col.index.built /\ n < col.index.room /\ SearchFits(col.index.copy, n, v)
            BY <2>3 DEF Takes
        <3>2. idx = SortInsert(col.index, n, v, p, behind)
            BY <1>2, <2>3, <3>1 DEF Noted, UnclusteredTypes
        <3>3. Mirrors(col.index.copy, col.index.positions, col.data, n)
            BY <2>3, <3>1 DEF Good, Fits
        <3> DEFINE s == SortInsert(col.index, n, v, p, behind)
        <3>4. /\ s.fault = "none" /\ s.type = "UNCLUSTER_SORT"
              /\ Mirrors(s.copy, s.positions, Wider(col.data, n, p, v), n + 1)
            <4>1. PICK i, d : i = col.index /\ d = col.data
                OBVIOUS
            <4>2. /\ Plain(i) /\ i.type = "UNCLUSTER_SORT" /\ i.fault = "none" /\ d \in [Cells(n) -> Int]
                  /\ Mirrors(i.copy, i.positions, d, n) /\ n < i.room /\ SearchFits(i.copy, n, v)
                BY <1>1, <2>3, <3>1, <3>3, <4>1
            <4> DEFINE t == SortInsert(i, n, v, p, behind)
            <4>3. /\ t.fault = "none" /\ t.type = "UNCLUSTER_SORT"
                  /\ Mirrors(t.copy, t.positions, Wider(d, n, p, v), n + 1)
                BY <4>2, SortInsertGood
            <4> QED
                BY <4>1, <4>3
        <3> HIDE DEF s
        <3> QED
            BY <1>2, <2>1, <3>2, <3>4 DEF Fits, s
    <2> QED
        BY <2>2, <2>3 DEF Takes
<1> HIDE DEF idx
<1>4. Typed(mid)
    BY <1>2 DEF Fine
<1>5. Typed(new) /\ new.size = mid.size /\ new.index = idx
    BY <1>3, <1>4, IndexedTyped
<1>6. new.data = mid.data /\ new.capacity = mid.capacity /\ new.room = mid.room /\ new.fault = mid.fault
    BY <1>4 DEF Typed, IsColumn
<1> HIDE DEF new
<1>7. Good(new, n + 1)
    BY <1>2, <1>3, <1>5, <1>6 DEF Good, Fine
<1> QED
    BY <1>2, <1>6, <1>7 DEF new, idx, mid

\* The row in the column that the clustered index orders.
LEMMA OrderedGood ==
    ASSUME NEW n \in Nat, NEW col, Good(col, n), n < col.room, n < col.capacity,
           NEW p \in 0..n, NEW v \in Int, NEW behind \in Int, col.index.type = "CLUSTER_SORT", col.index.built,
           Between(col.data, n, p, v)
    PROVE  LET mid == OpenedAt(col, p, n, v, behind)
               new == [mid EXCEPT !.index = col.index]
           IN  /\ Good(new, n + 1) /\ new.capacity = col.capacity /\ new.data = Wider(col.data, n, p, v)
<1> DEFINE mid == OpenedAt(col, p, n, v, behind)
           new == [mid EXCEPT !.index = col.index]
<1>1. Fine(col, n) /\ Plain(col.index) /\ col.index.fault = "none" /\ Ascends(col.data, n)
    BY DEF Good, Fine, Typed, Fits
<1>2. /\ Fine(mid, n + 1) /\ mid.index = col.index /\ mid.capacity = col.capacity
      /\ mid.data = Wider(col.data, n, p, v)
    BY <1>1, OpenedAtFine
<1> HIDE DEF mid
<1>3. Ascends(mid.data, n + 1)
    BY <1>1, <1>2, WiderAscends
<1>4. Typed(mid)
    BY <1>2 DEF Fine
<1>5. Typed(new) /\ new.size = mid.size /\ new.index = col.index
    BY <1>1, <1>4, IndexedTyped
<1>6. new.data = mid.data /\ new.capacity = mid.capacity /\ new.room = mid.room /\ new.fault = mid.fault
    BY <1>4 DEF Typed, IsColumn
<1> HIDE DEF new
<1>7. Good(new, n + 1)
    BY <1>1, <1>2, <1>3, <1>5, <1>6 DEF Good, Fine, Fits
<1> QED
    BY <1>2, <1>6, <1>7 DEF new, mid

\* The table takes a row at place p.
TakesRow(cols, new, n, p, values) ==
    /\ GoodTable(new, n + 1)
    /\ \A d \in Columns : new[d].data = Wider(cols[d].data, n, p, values[d])

\* db_insert_sort_cluster.
LEMMA InsertClusteredGood ==
    ASSUME NEW n \in Nat, NEW cols, GoodTable(cols, n), NEW c \in Columns,
           cols[c].index.type = "CLUSTER_SORT", cols[c].index.built, n < cols[c].index.room,
           NEW values \in [Columns -> Int], NEW behind \in Int,
           SearchFits(cols[c].data, n, values[c]),
           \A d \in Columns : n < cols[d].room /\ n < cols[d].capacity,
           \A d \in Columns : d # c => Takes(cols[d], n, values[d])
    PROVE  \E p \in 0..n : TakesRow(cols, InsertClustered(cols, c, values, behind), n, p, values)
<1> DEFINE col == cols[c]
           p == Find(col.data, col.size, values[c], "GREATER_EQUAL", behind)
           idx == IF col.size >= col.index.room THEN [col.index EXCEPT !.fault = "overflow"] ELSE col.index
           new == InsertClustered(cols, c, values, behind)
<1>1. /\ \A d \in Columns : Good(cols[d], n) /\ cols[d].size = n /\ Typed(cols[d])
      /\ DOMAIN cols = Columns /\ TypedTable(cols) /\ Counted(cols)
      /\ \A d \in Columns : values[d] \in Int
    BY DEF GoodTable, Good, Fine, TypedTable, Counted
<1>2. new = OpenedTable(cols, c, p, [d \in Columns |-> col.size], idx, values, behind)
    <2>1. TypedTable(cols) /\ Counted(cols) /\ values[c] \in Int /\ col.index.built
        BY <1>1
    <2>2. new = IF ~ col.index.built THEN [cols EXCEPT ![c].fault = "crash"]
                ELSE OpenedTable(cols, c, p, [d \in Columns |-> col.size], idx, values, behind)
        BY <2>1, InsertClusteredIs, Zenon
    <2> QED
        BY <2>1, <2>2, Zenon
<1>3. idx = col.index
    BY <1>1 DEF Typed, Plain
<1>4. Ascends(col.data, n)
    BY <1>1 DEF Good, Fits
<1>5. p \in 0..n /\ Between(col.data, n, p, values[c])
    <2>1. PICK a : a = col.data
        OBVIOUS
    <2>2. Ascends(a, n) /\ values[c] \in Int /\ SearchFits(a, n, values[c])
        BY <1>1, <1>4, <2>1
    <2> DEFINE q == Find(a, n, values[c], "GREATER_EQUAL", behind)
    <2>3. q \in 0..n /\ Between(a, n, q, values[c])
        BY <2>2, PlaceFits
    <2> QED
        BY <1>1, <2>1, <2>3
<1> HIDE DEF p, idx
<1>6. ASSUME NEW d \in Columns
      PROVE  /\ Good(new[d], n + 1) /\ new[d].capacity = cols[d].capacity
             /\ new[d].data = Wider(cols[d].data, n, p, values[d])
    <2>0. PICK old, v, k : old = cols[d] /\ v = values[d] /\ k = [e \in Columns |-> col.size]
        OBVIOUS
    <2>1. Good(old, n) /\ n < old.room /\ n < old.capacity /\ v \in Int /\ old.size = n /\ k[d] = n
        BY <1>1, <2>0
    <2> DEFINE mid == OpenedAt(old, p, n, v, behind)
    <2>2. new[d] = [mid EXCEPT !.index = IF d = c THEN idx ELSE Noted(mid.index, n, v, p, behind)]
        BY <1>2, <2>0, <2>1 DEF OpenedTable
    <2>3. CASE d = c
        <3> DEFINE u == [mid EXCEPT !.index = old.index]
        <3>1. new[d] = u
            BY <1>3, <2>0, <2>2, <2>3
        <3>2. old.index.type = "CLUSTER_SORT" /\ old.index.built /\ Between(old.data, n, p, v)
            BY <1>5, <2>0, <2>3
        <3>3. Good(u, n + 1) /\ u.capacity = old.capacity /\ u.data = Wider(old.data, n, p, v)
            BY <1>5, <2>1, <3>2, OrderedGood
        <3> HIDE DEF u
        <3> QED
            BY <2>0, <3>1, <3>3
    <2>4. CASE d # c
        <3> DEFINE u == [mid EXCEPT !.index = Noted(mid.index, n, v, p, behind)]
        <3>1. new[d] = u
            BY <2>2, <2>4
        <3>2. Takes(old, n, v)
            BY <2>0, <2>4
        <3>3. Good(u, n + 1) /\ u.capacity = old.capacity /\ u.data = Wider(old.data, n, p, v)
            BY <1>5, <2>1, <3>2, NotedGood
        <3> HIDE DEF u
        <3> QED
            BY <2>0, <3>1, <3>3
    <2> QED
        BY <2>3, <2>4
<1>7. DOMAIN new = Columns
    BY <1>2 DEF OpenedTable
<1>8. 1 \in Columns
    BY TableAssumption DEF Columns
<1> HIDE DEF new
<1>9. TakesRow(cols, new, n, p, values)
    BY <1>6, <1>7, <1>8 DEF TakesRow, GoodTable
<1> QED
    BY <1>5, <1>9 DEF new

\* With one clustered column the row is inserted once.
LEMMA InsertedOnce ==
    ASSUME OneCluster, NEW c \in Clusters, NEW cols, NEW values, NEW behind
    PROVE  Inserted(cols, values, behind) = InsertClustered(cols, c, values, behind)
<1>0. Clusters # {} /\ c \in 1..ColCount
    BY DEF Clusters, Columns
<1>1. \E f : InsertTo(cols, values, behind, ColCount, f)
    BY InsertToSome, TableAssumption
<1>2. Inserted(cols, values, behind)
          = (CHOOSE f : InsertTo(cols, values, behind, ColCount, f))[ColCount]
    BY <1>0 DEF Inserted, InsertTo, InsertOne
<1>3. PICK f : /\ InsertTo(cols, values, behind, ColCount, f)
               /\ Inserted(cols, values, behind) = f[ColCount]
    BY <1>1, <1>2
<1> DEFINE X == InsertClustered(cols, c, values, behind)
           S == {m \in 0..ColCount : f[m] = IF m < c THEN cols ELSE X}
<1> HIDE DEF X
<1>4. 0 \in S
    <2>1. f[0] = cols /\ 0 \in 0..ColCount
        BY <1>3, TableAssumption DEF InsertTo
    <2> QED
        BY <1>0, <2>1
<1>5. ASSUME NEW m \in 1..ColCount, m - 1 \in S PROVE m \in S
    <2>1. f[m] = InsertOne(f[m - 1], m, values, behind) /\ m \in 0..ColCount
        BY <1>3, TableAssumption DEF InsertTo
    <2>2. f[m - 1] = IF m - 1 < c THEN cols ELSE X
        BY <1>5
    <2>3. m \in Clusters <=> m = c
        BY DEF OneCluster
    <2>4. CASE m < c
        <3>1. f[m] = cols
            BY <1>0, <2>1, <2>2, <2>3, <2>4 DEF InsertOne
        <3> QED
            BY <2>1, <2>4, <3>1
    <2>5. CASE m = c
        <3>1. f[m] = X
            BY <1>0, <2>1, <2>2, <2>3, <2>5 DEF InsertOne, X
        <3> QED
            BY <1>0, <2>1, <2>5, <3>1
    <2>6. CASE m > c
        <3>1. f[m] = X
            BY <1>0, <2>1, <2>2, <2>3, <2>6 DEF InsertOne
        <3> QED
            BY <1>0, <2>1, <2>6, <3>1
    <2> QED
        BY <1>0, <2>4, <2>5, <2>6
<1>6. ColCount \in S
    <2>1. 0..ColCount \subseteq S
        <3> HIDE DEF S
        <3> QED
            BY <1>4, <1>5, Upward, TableAssumption
    <2>2. ColCount \in 0..ColCount
        BY TableAssumption
    <2> QED
        BY <2>1, <2>2
<1>7. ~ (ColCount < c)
    BY <1>0, TableAssumption
<1> QED
    BY <1>3, <1>6, <1>7 DEF X

\* A row at the end of a column without an index.
LEMMA InsertLastGood ==
    ASSUME NEW n \in Nat, NEW col, Good(col, n), n < col.room, n < col.capacity,
           NEW v \in Int, NEW behind \in Int, col.index.type = "NONE"
    PROVE  LET new == InsertLast(col, n, v, behind)
           IN  /\ Good(new, n + 1) /\ new.capacity = col.capacity /\ new.data = Wider(col.data, n, n, v)
<1> DEFINE mid == OpenedAt(col, n, n, v, behind)
           new == [mid EXCEPT !.index = col.index]
<1>1. Fine(col, n) /\ Plain(col.index) /\ col.index.fault = "none" /\ ~ col.index.built /\ n \in 0..n
    BY DEF Good, Fine, Typed, Fits
<1>2. /\ Fine(mid, n + 1) /\ mid.index = col.index /\ mid.capacity = col.capacity
      /\ mid.data = Wider(col.data, n, n, v)
    BY <1>1, OpenedAtFine
<1>3. InsertLast(col, n, v, behind) = new
    BY <1>2 DEF InsertLast
<1> HIDE DEF mid
<1>4. Typed(mid)
    BY <1>2 DEF Fine
<1>5. Typed(new) /\ new.size = mid.size /\ new.index = col.index
    BY <1>1, <1>4, IndexedTyped
<1>6. new.data = mid.data /\ new.capacity = mid.capacity /\ new.room = mid.room /\ new.fault = mid.fault
    BY <1>4 DEF Typed, IsColumn
<1> HIDE DEF new
<1>7. Good(new, n + 1)
    BY <1>1, <1>2, <1>5, <1>6 DEF Good, Fine
<1> QED
    BY <1>2, <1>3, <1>6, <1>7

\* The columns with room for a row.
Roomy(cols, n) ==
    \A d \in Columns :
        /\ n < cols[d].room /\ n < cols[d].capacity
        /\ cols[d].index.type # "NONE" => cols[d].index.built

\* The table has room for the row now, and nothing else has changed.
LEMMA RoomMade ==
    ASSUME NEW n \in Nat, n = table_length, GoodTable(columns, n),
           \A c \in Columns : Has(c, {"NONE"}) \/ columns[c].index.built,
           \A c \in Columns : columns[c].room > columns[c].size \/ columns[c].size = columns[c].capacity
    PROVE  LET new == IF n = columns[1].capacity THEN [c \in Columns |-> Increased(columns[c])] ELSE columns
           IN  /\ GoodTable(new, n) /\ SameTypes(columns, new) /\ Roomy(new, n)
               /\ \A d \in Columns :
                      /\ new[d].data = columns[d].data
                      /\ new[d].index.copy = columns[d].index.copy
                      /\ \/ columns[d].index.type = "NONE"
                         \/ n < new[d].index.room
                         \/ n # columns[1].capacity /\ new[d].index.room = columns[d].index.room
<1>1. \A c \in Columns : /\ Good(columns[c], n) /\ columns[c].size = n
                         /\ columns[c].capacity = columns[1].capacity
                         /\ columns[c].capacity \in Nat \ {0} /\ n <= columns[c].capacity
                         /\ columns[c].index.type = "NONE" \/ columns[c].index.built
    BY DEF GoodTable, Good, Fine, Typed, Has
<1>2. 1 \in Columns
    BY TableAssumption DEF Columns
<1>3. CASE n = columns[1].capacity
    <2> DEFINE new == [c \in Columns |-> Increased(columns[c])]
    <2>1. ASSUME NEW c \in Columns
          PROVE  /\ Good(new[c], n) /\ new[c].capacity = 2 * columns[1].capacity
                 /\ new[c].room = 2 * columns[1].capacity
                 /\ new[c].data = columns[c].data /\ new[c].index.type = columns[c].index.type
                 /\ new[c].index.built = columns[c].index.built
                 /\ new[c].index.copy = columns[c].index.copy
                 /\ new[c].index.type # "NONE" => new[c].index.room = 2 * columns[1].capacity
        <3>1. PICK col : col = columns[c]
            OBVIOUS
        <3>2. Good(col, n) /\ (col.index.type = "NONE" \/ col.index.built) /\ col.capacity = columns[1].capacity
            BY <1>1, <3>1
        <3> DEFINE e == Increased(col)
        <3>3. /\ Good(e, n) /\ e.capacity = 2 * col.capacity /\ e.room = 2 * col.capacity
              /\ e.data = col.data /\ e.index.type = col.index.type /\ e.index.built = col.index.built
              /\ e.index.copy = col.index.copy
              /\ e.index.type # "NONE" => e.index.room = 2 * col.capacity
            BY <3>2, IncreasedGood
        <3>4. new[c] = e
            BY <3>1
        <3> HIDE DEF e, new
        <3> QED
            BY <3>1, <3>2, <3>3, <3>4
    <2>2. DOMAIN new = Columns
        OBVIOUS
    <2> HIDE DEF new
    <2>3. n < 2 * columns[1].capacity
        BY <1>1, <1>2, <1>3
    <2>4. GoodTable(new, n) /\ SameTypes(columns, new) /\ Roomy(new, n)
        BY <1>1, <1>2, <2>1, <2>2, <2>3 DEF GoodTable, SameTypes, Roomy
    <2>5. \A d \in Columns : \/ columns[d].index.type = "NONE" \/ n < new[d].index.room
        BY <2>1, <2>3
    <2> QED
        BY <1>3, <2>1, <2>4, <2>5 DEF new
<1>4. CASE n # columns[1].capacity
    <2>1. Roomy(columns, n)
        BY <1>1, <1>2, <1>4 DEF Roomy
    <2> QED
        BY <1>4, <2>1 DEF SameTypes
<1> QED
    BY <1>3, <1>4

\* A clustered insert: the row is where the conditions say.
LEMMA InsertedClustered ==
    ASSUME NEW n \in Nat, n = table_length, GoodTable(columns, n), TypedTable(columns),
           NEW cols, GoodTable(cols, n), SameTypes(columns, cols), Roomy(cols, n),
           \A d \in Columns :
               /\ cols[d].data = columns[d].data
               /\ cols[d].index.copy = columns[d].index.copy
               /\ \/ columns[d].index.type = "NONE"
                  \/ n < cols[d].index.room
                  \/ n # columns[1].capacity /\ cols[d].index.room = columns[d].index.room,
           NEW values \in [Columns -> Int], NEW behind \in Int, InsertKept(values), Clusters # {}
    PROVE  \E p \in 0..n : TakesRow(cols, Inserted(cols, values, behind), n, p, values)
<1>1. PICK c \in Clusters : TRUE
    OBVIOUS
<1>2. OneCluster /\ ClusterInsertKept(c, values)
    BY OneClusterIs DEF InsertKept
<1>3. c \in Columns /\ columns[c].index.type = "CLUSTER_SORT" /\ cols[c].index.type = "CLUSTER_SORT"
    BY ClustersSorted DEF Clusters, SameTypes
<1>4. \A d \in Columns : columns[d].size = n /\ columns[d].index.type \in SortKinds /\ columns[d].index.room \in Int
                         /\ cols[d].index.room \in Int /\ columns[d].capacity = columns[1].capacity
    BY DEF GoodTable, Good, Fine, Typed, Plain
<1>5. /\ SearchFits(columns[c].data, n, values[c])
      /\ columns[c].index.room > n \/ n = columns[1].capacity
    BY <1>2, <1>3, <1>4 DEF ClusterInsertKept
<1>6. SearchFits(cols[c].data, n, values[c]) /\ n < cols[c].index.room /\ cols[c].index.built
    <2>1. columns[c].index.type # "NONE"
        BY <1>3
    <2> QED
        BY <1>3, <1>4, <1>5, <2>1 DEF Roomy
<1>7. ASSUME NEW d \in Columns, d # c PROVE Takes(cols[d], n, values[d])
    <2>1. d \notin Clusters
        BY <1>2, <1>7 DEF OneCluster
    <2>2. cols[d].index.type = columns[d].index.type /\ columns[d].index.type \in {"NONE", "UNCLUSTER_SORT"}
        BY <1>4, <2>1, ClustersSorted DEF SameTypes, SortKinds
    <2>3. CASE columns[d].index.type = "NONE"
        BY <2>2, <2>3 DEF Takes
    <2>4. CASE columns[d].index.type = "UNCLUSTER_SORT"
        <3>1. /\ SearchFits(columns[d].index.copy, columns[c].size, values[d])
              /\ columns[d].index.room > columns[c].size \/ columns[c].size = columns[1].capacity
            BY <1>2, <1>7, <2>4 DEF ClusterInsertKept, Has
        <3>2. SearchFits(cols[d].index.copy, n, values[d])
            BY <1>3, <1>4, <3>1
        <3>3. n < cols[d].index.room
            BY <1>3, <1>4, <2>4, <3>1
        <3>4. cols[d].index.built
            BY <2>2, <2>4 DEF Roomy
        <3> QED
            BY <2>2, <2>4, <3>2, <3>3, <3>4 DEF Takes
    <2> QED
        BY <2>2, <2>3, <2>4
<1>8. Inserted(cols, values, behind) = InsertClustered(cols, c, values, behind)
    BY <1>1, <1>2, InsertedOnce
<1>9. \A d \in Columns : n < cols[d].room /\ n < cols[d].capacity
    BY DEF Roomy
<1>10. \E p \in 0..n : TakesRow(cols, InsertClustered(cols, c, values, behind), n, p, values)
    BY <1>3, <1>6, <1>7, <1>9, InsertClusteredGood
<1> QED
    BY <1>8, <1>10

\* An insert without a clustered index.
LEMMA InsertedPlain ==
    ASSUME NEW n \in Nat, n = table_length, GoodTable(columns, n), TypedTable(columns),
           NEW cols, GoodTable(cols, n), SameTypes(columns, cols), Roomy(cols, n),
           NEW values \in [Columns -> Int], NEW behind \in Int, InsertKept(values), Clusters = {}
    PROVE  TakesRow(cols, Inserted(cols, values, behind), n, n, values)
<1> DEFINE new == [c \in Columns |-> InsertLast(cols[c], n, values[c], behind)]
<1>1. Inserted(cols, values, behind) = new
    BY DEF Inserted
<1>2. \A c \in Columns : cols[c].index.type = "NONE"
    <2> SUFFICES ASSUME NEW c \in Columns PROVE columns[c].index.type = "NONE"
        BY DEF SameTypes
    <2>1. columns[c].index.type \in SortKinds
        BY DEF GoodTable, Good, Fine, Typed, Plain
    <2>2. columns[c].index.type # "CLUSTER_SORT"
        BY ClustersSorted
    <2>3. columns[c].index.type # "UNCLUSTER_SORT"
        BY DEF InsertKept, Has
    <2> QED
        BY <2>1, <2>2, <2>3 DEF SortKinds
<1>3. ASSUME NEW c \in Columns
      PROVE  /\ Good(new[c], n + 1) /\ new[c].capacity = cols[c].capacity
             /\ new[c].data = Wider(cols[c].data, n, n, values[c])
    <2>1. PICK col, v : col = cols[c] /\ v = values[c]
        OBVIOUS
    <2>2. Good(col, n) /\ n < col.room /\ n < col.capacity /\ v \in Int /\ col.index.type = "NONE"
        BY <1>2, <2>1 DEF GoodTable, Roomy
    <2> DEFINE e == InsertLast(col, n, v, behind)
    <2>3. Good(e, n + 1) /\ e.capacity = col.capacity /\ e.data = Wider(col.data, n, n, v)
        BY <2>2, InsertLastGood
    <2>4. new[c] = e
        BY <2>1
    <2> HIDE DEF e, new
    <2> QED
        BY <2>1, <2>3, <2>4
<1>4. DOMAIN new = Columns /\ 1 \in Columns
    BY TableAssumption DEF Columns
<1> HIDE DEF new
<1>5. TakesRow(cols, new, n, n, values)
    BY <1>3, <1>4 DEF TakesRow, GoodTable
<1> QED
    BY <1>1, <1>5

\* db_insert.
LEMMA InsertKeeps ==
    ASSUME TypeInv, KeptInv, NEW values \in NewRows, InsertRow(values)
    PROVE  KeptInv'
<1> SUFFICES ASSUME kept' PROVE KeptInv'
    BY DEF KeptInv
<1>1. /\ ~ Faulty /\ kept /\ InsertKept(values) /\ table_length' = table_length + 1
      /\ rows' = rows (+) SetToBag({values}) /\ Done(Clusters # {})
    BY DEF InsertRow, Ready
<1>2. PICK behind \in Junk :
          columns' = Inserted(IF table_length = columns[1].capacity
                              THEN [c \in Columns |-> Increased(columns[c])] ELSE columns, values, behind)
    BY DEF InsertRow
<1>3. PICK n : n = table_length
    OBVIOUS
<1>4. /\ GoodTable(columns, n) /\ n \in Nat /\ behind \in Int /\ Lone(columns)
      /\ BagOfRows(columns, Cells(n)) = rows /\ Counted(columns) /\ TypedTable(columns)
      /\ handle.fresh => GoodHandle
      /\ handle.fresh /\ handle.null => handle.positions = << >>
      /\ values \in [Columns -> Int]
    BY <1>1, <1>3, Before, TableAssumption DEF KeptInv
<1>5. PICK cols : cols = IF n = columns[1].capacity THEN [c \in Columns |-> Increased(columns[c])] ELSE columns
    OBVIOUS
<1>6. /\ \A c \in Columns : Has(c, {"NONE"}) \/ columns[c].index.built
      /\ \A c \in Columns : columns[c].room > columns[c].size \/ columns[c].size = columns[c].capacity
      /\ Cardinality(Clusters) <= 1
    BY <1>1 DEF InsertKept
<1>7. /\ GoodTable(cols, n) /\ SameTypes(columns, cols) /\ Roomy(cols, n)
      /\ \A d \in Columns :
             /\ cols[d].data = columns[d].data
             /\ cols[d].index.copy = columns[d].index.copy
             /\ \/ columns[d].index.type = "NONE"
                \/ n < cols[d].index.room
                \/ n # columns[1].capacity /\ cols[d].index.room = columns[d].index.room
    BY <1>3, <1>4, <1>5, <1>6, RoomMade
<1>8. PICK new : new = Inserted(cols, values, behind)
    OBVIOUS
<1>9. columns' = new
    BY <1>2, <1>3, <1>5, <1>8
<1>10. \E p \in 0..n : TakesRow(cols, new, n, p, values)
    <2>1. CASE Clusters = {}
        <3>1. TakesRow(cols, new, n, n, values)
            BY <1>1, <1>3, <1>4, <1>7, <1>8, <2>1, InsertedPlain
        <3>2. n \in 0..n
            BY <1>4
        <3> QED
            BY <3>1, <3>2
    <2>2. CASE Clusters # {}
        BY <1>1, <1>3, <1>4, <1>7, <1>8, <2>2, InsertedClustered
    <2> QED
        BY <2>1, <2>2
<1>11. PICK p \in 0..n : TakesRow(cols, new, n, p, values)
    BY <1>10
<1>12. GoodTable(new, n + 1) /\ \A d \in Columns : new[d].data = Wider(columns[d].data, n, p, values[d])
    BY <1>7, <1>11 DEF TakesRow
<1>13. BagOfRows(new, Cells(n + 1)) = rows'
    <2>1. PICK old : old = columns
        OBVIOUS
    <2>2. \A d \in Columns : new[d].data = Wider(old[d].data, n, p, values[d])
        BY <1>12, <2>1
    <2>3. BagOfRows(new, Cells(n + 1)) = BagOfRows(old, Cells(n)) (+) SetToBag({values})
        BY <1>4, <2>2, InsertedRows
    <2> QED
        BY <1>1, <1>4, <2>1, <2>3
<1>14. Lone(new)
    <2>1. SameTypes(columns, new)
        <3>1. TypedTable(cols) /\ Counted(cols) /\ n = table_length /\ \A d \in Columns : values[d] \in Int
            BY <1>3, <1>4, <1>7, GoodTyped DEF GoodTable, Good, Fine, Counted
        <3>2. IsTable(cols)
            BY <3>1, TypedIsTable
        <3>3. SameTypes(cols, new)
            BY <1>8, <3>2, InsertedShape
        <3> QED
            BY <1>7, <3>3 DEF SameTypes
    <2> QED
        BY <1>4, <1>6, <2>1, OneLone
<1>15. /\ handle'.fresh => GoodHandle'
       /\ handle'.fresh /\ handle'.null => handle'.positions = << >>
    <2>1. DOMAIN handle = {"positions", "null", "fresh"}
        BY DEF TypeInv, SizeInv
    <2>2. handle' = [handle EXCEPT !.fresh = @ /\ ~ (Clusters # {})]
        BY <1>1 DEF Done
    <2>3. handle'.positions = handle.positions /\ handle'.null = handle.null /\ (handle'.fresh => handle.fresh)
        BY <2>1, <2>2, Zenon
    <2>4. Cells(n) \subseteq Cells(n + 1)
        BY <1>4 DEF Cells
    <2> QED
        BY <1>1, <1>3, <1>4, <2>3, <2>4 DEF GoodHandle
<1> QED
    BY <1>1, <1>3, <1>9, <1>12, <1>13, <1>14, <1>15 DEF KeptInv

(* Rows that go *)

\* What the loop of db_delete adds to its counter at place x.
Counting(rs, x, before, behind) ==
    before + IF (IF before < Len(rs) THEN rs[before + 1] ELSE behind) = x THEN 1 ELSE 0
\* c is the counter after each of m places.
Counts(rs, m, count0, behind, c) ==
    c = [x \in -1..(m - 1) |-> IF x = -1 THEN count0 ELSE Counting(rs, x, c[x - 1], behind)]

\* There is such a counter.
LEMMA CountsSome ==
    ASSUME NEW rs, NEW m \in Nat, NEW count0 \in Int, NEW behind
    PROVE  \E c : Counts(rs, m, count0, behind, c)
<1>0. PICK X : X = Int
    OBVIOUS
<1> DEFINE step(s, i) == Counting(rs, i - 1, s, behind)
           N == [p \in (1..m) \X X |-> step(p[2], p[1])]
<1>1. ASSUME NEW s \in X, NEW i PROVE step(s, i) \in X
    BY <1>0 DEF Counting
<1> HIDE DEF step
<1>2. Steps(N, m, X)
    BY <1>1 DEF Steps
<1>3. \A i \in 1..m, s \in X : N[<<i, s>>] = step(s, i)
    OBVIOUS
<1> HIDE DEF N
<1>b. count0 \in X
    BY <1>0
<1>4. PICK h \in [0..m -> X] : h[0] = count0 /\ \A i \in 1..m : h[i] = N[<<i, h[i - 1]>>]
    BY <1>b, <1>2, IterationSome
<1> DEFINE c == [x \in -1..(m - 1) |-> h[x + 1]]
<1>5. \A i \in 1..m : h[i] = step(h[i - 1], i)
    <2>1. \A i \in 1..m : i - 1 \in 0..m
        OBVIOUS
    <2> QED
        BY <1>3, <1>4, <2>1
<1>6. ASSUME NEW x \in 0..(m - 1) PROVE c[x] = Counting(rs, x, c[x - 1], behind)
    <2>1. x + 1 \in 1..m /\ (x + 1) - 1 = x /\ c[x] = h[x + 1] /\ c[x - 1] = h[x]
        OBVIOUS
    <2>2. h[x + 1] = step(h[x], x + 1)
        BY <1>5, <2>1
    <2> HIDE DEF c
    <2> QED
        BY <2>1, <2>2 DEF step
<1>7. c[-1] = count0 /\ c = [x \in -1..(m - 1) |-> c[x]]
    BY <1>4
<1> HIDE DEF c
<1>8. c = [x \in -1..(m - 1) |-> IF x = -1 THEN count0 ELSE Counting(rs, x, c[x - 1], behind)]
    <2>1. \A x \in -1..(m - 1) : c[x] = IF x = -1 THEN count0 ELSE Counting(rs, x, c[x - 1], behind)
        <3>1. \A x \in -1..(m - 1) : x # -1 => x \in 0..(m - 1)
            OBVIOUS
        <3> QED
            BY <1>6, <1>7, <3>1
    <2> QED
        BY <1>7, <2>1, Zenon
<1> QED
    BY <1>8 DEF Counts

\* The counter, place by place.
LEMMA CountsEach ==
    ASSUME NEW rs, NEW m \in Nat, NEW count0 \in Int, NEW behind, NEW c, Counts(rs, m, count0, behind, c)
    PROVE  /\ c[-1] = count0
           /\ \A x \in 0..(m - 1) : c[x] = Counting(rs, x, c[x - 1], behind)
           /\ c[m - 1] \in Int
<1>1. -1 \in -1..(m - 1) /\ \A x \in 0..(m - 1) : x \in -1..(m - 1) /\ x # -1
    OBVIOUS
<1>2. c = [x \in -1..(m - 1) |-> IF x = -1 THEN count0 ELSE Counting(rs, x, c[x - 1], behind)]
    BY DEF Counts
<1>3. c[-1] = count0 /\ \A x \in 0..(m - 1) : c[x] = Counting(rs, x, c[x - 1], behind)
    BY <1>1, <1>2, Zenon
<1> DEFINE S == {i \in 0..m : c[i - 1] \in Int}
<1>4. 0 \in S
    <2>1. 0 - 1 = -1
        OBVIOUS
    <2> QED
        BY <1>3, <2>1
<1>5. ASSUME NEW i \in 1..m, i - 1 \in S PROVE i \in S
    <2>1. i - 1 \in 0..(m - 1) /\ c[(i - 1) - 1] \in Int
        BY <1>5
    <2>2. c[i - 1] = Counting(rs, i - 1, c[(i - 1) - 1], behind)
        BY <1>3, <2>1
    <2> QED
        BY <2>1, <2>2 DEF Counting
<1>6. 0..m \subseteq S
    <2> HIDE DEF S
    <2> QED BY <1>4, <1>5, Upward
<1>7. m \in S
    <2> HIDE DEF S
    <2> QED BY <1>6
<1> QED
    BY <1>3, <1>7

\* The counter stands at 0 before the first row to delete, and at 1 from there
\* up to the rows that are left.
LEMMA CountsOne ==
    ASSUME NEW n \in Nat, NEW rs, Trails(rs, n), Len(rs) < n, NEW m \in 1..n,
           NEW count0 \in Int, count0 = 0 \/ (count0 = 1 /\ Len(rs) = 1 /\ rs[1] = 0),
           NEW behind, behind \notin Cells(n), NEW c, Counts(rs, m, count0, behind, c)
    PROVE  \A x \in 0..(m - 1) : x <= n - Len(rs) => c[x] = IF x < rs[1] THEN 0 ELSE 1
<1>0. PICK k, p : k = Len(rs) /\ p = rs[1]
    OBVIOUS
<1>a. m \in Nat
    OBVIOUS
<1>1. /\ c[-1] = count0
      /\ \A x \in 0..(m - 1) : c[x] = Counting(rs, x, c[x - 1], behind)
    BY <1>a, CountsEach
<1>2. k \in 1..n /\ p \in 0..(n - k) /\ (k > 1 => rs[2] = n - k + 1)
    BY <1>0 DEF Trails
<1>3. \A x \in 0..(n - 1) : behind # x
    BY DEF Cells
<1> DEFINE S == {x \in 0..(m - 1) : x <= n - k => c[x] = IF x < p THEN 0 ELSE 1}
<1>4. 0 \in S
    <2>1. 0 \in 0..(m - 1) /\ 0 - 1 = -1 /\ 0 \in 0..(n - 1)
        OBVIOUS
    <2>2. c[0] = Counting(rs, 0, count0, behind)
        BY <1>1, <2>1
    <2>3. behind # 0
        BY <1>3, <2>1
    <2>4. CASE count0 = 0
        <3>1. c[0] = IF p = 0 THEN 1 ELSE 0
            BY <1>0, <1>2, <2>2, <2>4 DEF Counting
        <3> QED
            BY <1>2, <2>1, <3>1
    <2>5. CASE count0 = 1 /\ k = 1 /\ p = 0
        <3>1. c[0] = 1
            BY <1>0, <2>2, <2>3, <2>5 DEF Counting
        <3> QED
            BY <2>1, <2>5, <3>1
    <2> QED
        BY <1>0, <2>4, <2>5
<1>5. ASSUME NEW x \in 1..(m - 1), x - 1 \in S PROVE x \in S
    <2> SUFFICES ASSUME x <= n - k PROVE c[x] = IF x < p THEN 0 ELSE 1
        OBVIOUS
    <2>1. c[x - 1] = IF x - 1 < p THEN 0 ELSE 1
        BY <1>2, <1>5
    <2>2. c[x] = Counting(rs, x, c[x - 1], behind)
        BY <1>1
    <2>3. CASE x - 1 < p
        <3>1. c[x] = IF p = x THEN 1 ELSE 0
            BY <1>0, <1>2, <2>1, <2>2, <2>3 DEF Counting
        <3> QED
            BY <1>2, <2>3, <3>1
    <2>4. CASE ~ (x - 1 < p)
        <3>1. c[x - 1] = 1 /\ ~ (x < p)
            BY <1>2, <2>1, <2>4
        <3>2. CASE k = 1
            <4>1. behind # x
                BY <1>2, <1>3
            <4> QED
                BY <1>0, <2>2, <3>1, <3>2, <4>1 DEF Counting
        <3>3. CASE k > 1
            <4>1. rs[2] # x
                BY <1>2, <3>3
            <4> QED
                BY <1>0, <2>2, <3>1, <3>3, <4>1 DEF Counting
        <3> QED
            BY <1>2, <3>2, <3>3
    <2> QED
        BY <2>3, <2>4
<1>6. 0..(m - 1) \subseteq S
    <2>1. m - 1 \in Nat
        OBVIOUS
    <2> HIDE DEF S
    <2> QED BY <1>4, <1>5, <2>1, Upward
<1> QED
    BY <1>0, <1>6

\* db_delete moves the cells behind the row one place down, and the counter
\* is at one where the next column needs it.
LEMMA RemovedNarrow ==
    ASSUME NEW n \in Nat, NEW rs, Trails(rs, n), NEW m \in 1..n, n - Len(rs) <= m, NEW data,
           DOMAIN data = Cells(n),
           NEW count0 \in Int, \/ Len(rs) = n
                               \/ count0 = 0
                               \/ count0 = 1 /\ Len(rs) = 1 /\ rs[1] = 0,
           NEW behind, behind \notin Cells(n)
    PROVE  LET r == Removed(data, n, rs, m, count0, behind)
           IN  /\ r.data = Narrow(data, n - Len(rs), rs[1])
               /\ r.count \in Int
               /\ Len(rs) < n /\ Len(rs) = 1 /\ rs[1] = 0 => r.count = 1
<1> DEFINE r == Removed(data, n, rs, m, count0, behind)
           result(c) == [data |-> [p \in Cells(n - Len(rs)) |->
                             IF p < m THEN Cell(data, p + c[p], behind) ELSE data[p]],
                         count |-> c[m - 1]]
<1>1. r = result(CHOOSE c : Counts(rs, m, count0, behind, c))
    BY DEF Removed, Counts, Counting
<1>0. m \in Nat
    OBVIOUS
<1>2. \E c : Counts(rs, m, count0, behind, c)
    BY <1>0, CountsSome
<1> HIDE DEF result
<1>3. PICK c : Counts(rs, m, count0, behind, c) /\ r = result(c)
    BY <1>1, <1>2
<1> HIDE DEF r
<1>4. r.count = c[m - 1] /\ r.data = [p \in Cells(n - Len(rs)) |->
                             IF p < m THEN Cell(data, p + c[p], behind) ELSE data[p]]
    BY <1>3 DEF result
<1>5. c[m - 1] \in Int
    BY <1>0, <1>3, CountsEach
<1>6. PICK k, p : k = Len(rs) /\ p = rs[1] /\ k \in 1..n /\ p \in 0..(n - k)
    BY DEF Trails
<1>7. CASE k = n
    <2>1. Cells(n - k) = {}
        BY <1>7 DEF Cells
    <2>2. r.data = Narrow(data, n - k, p)
        BY <1>4, <1>6, <2>1 DEF Narrow
    <2> QED
        BY <1>4, <1>5, <1>6, <1>7, <2>2 DEF r
<1>8. CASE k < n
    <2>0. count0 = 0 \/ (count0 = 1 /\ Len(rs) = 1 /\ rs[1] = 0)
        BY <1>6, <1>8
    <2>a. Len(rs) < n
        BY <1>6, <1>8
    <2>b. \A x \in 0..(m - 1) : x <= n - Len(rs) => c[x] = IF x < rs[1] THEN 0 ELSE 1
        BY <1>3, <2>0, <2>a, CountsOne
    <2>1. \A x \in 0..(m - 1) : x <= n - k => c[x] = IF x < p THEN 0 ELSE 1
        BY <1>6, <2>b
    <2>2. \A j \in Cells(n - k) : /\ j < m /\ j + c[j] = Up(j, p)
                                  /\ Cell(data, j + c[j], behind) = data[Up(j, p)]
        <3> SUFFICES ASSUME NEW j \in Cells(n - k)
                     PROVE  /\ j < m /\ j + c[j] = Up(j, p)
                            /\ Cell(data, j + c[j], behind) = data[Up(j, p)]
            OBVIOUS
        <3>1. j \in 0..(m - 1) /\ j <= n - k /\ j < m
            BY <1>6 DEF Cells
        <3>2. j + c[j] = Up(j, p)
            BY <1>6, <2>1, <3>1 DEF Up
        <3>3. Up(j, p) \in Cells(n)
            BY <1>6 DEF Up, Cells
        <3> QED
            BY <3>1, <3>2, <3>3 DEF Cell
    <2>3. r.data = Narrow(data, n - k, p)
        BY <1>4, <1>6, <2>2 DEF Narrow
    <2>4. k = 1 /\ p = 0 => c[m - 1] = 1
        <3>1. m - 1 \in 0..(m - 1)
            OBVIOUS
        <3> QED
            BY <2>1, <3>1
    <2> QED
        BY <1>4, <1>5, <1>6, <1>8, <2>3, <2>4 DEF r
<1> QED
    BY <1>6, <1>7, <1>8

\* The handle of a delete names rows that go as the conditions say.
LEMMA TrailsHandle ==
    ASSUME NEW n \in Nat, NEW rs \in Seq(Int), Len(rs) > 0,
           \A i \in DOMAIN rs : rs[i] \in Cells(n),
           \A i, j \in DOMAIN rs : rs[i] = rs[j] => i = j,
           \A i \in 2..Len(rs) : rs[i] = n - Len(rs) + i - 1
    PROVE  Trails(rs, n)
<1>1. PICK k \in Nat, p \in Int : k = Len(rs) /\ p = rs[1] /\ DOMAIN rs = 1..k /\ k >= 1
    BY LenProperties
<1>2. /\ \A i \in 1..k : rs[i] \in Cells(n)
      /\ \A i, j \in 1..k : rs[i] = rs[j] => i = j
      /\ \A i \in 2..k : rs[i] = n - k + i - 1
    BY <1>1
<1>3. p \in Cells(n) /\ p \in 0..(n - 1)
    BY <1>1, <1>2 DEF Cells
<1>4. p <= n - k
    <2> SUFFICES ASSUME p > n - k PROVE FALSE
        BY <1>1, <1>3
    <2>1. k > 1
        BY <1>1, <1>3
    <2> DEFINE i == p - (n - k) + 1
    <2>2. i \in Int /\ i >= 2 /\ i <= k
        BY <1>1, <1>3
    <2>3. i \in 2..k
        BY <1>1, <2>2
    <2>4. rs[i] = n - k + i - 1
        BY <1>2, <2>3
    <2>5. rs[i] = p
        BY <1>1, <1>3, <2>4
    <2> HIDE DEF i
    <2>6. i \in 1..k /\ 1 \in 1..k /\ i # 1
        BY <1>1, <2>2
    <2> QED
        BY <1>1, <1>2, <2>5, <2>6
<1>5. k \in 1..n /\ p \in 0..(n - k)
    BY <1>1, <1>3, <1>4
<1> QED
    BY <1>1, <1>2, <1>5 DEF Trails

\* The loop of db_delete over a column reaches what it has to, from a counter
\* that is right, and its index can follow.
LosesCells(col, n, rs, m, count0, behind) ==
    /\ m \in 1..n /\ n - Len(rs) <= m
    /\ \/ Len(rs) = n
       \/ count0 = 0
       \/ count0 = 1 /\ Len(rs) = 1 /\ rs[1] = 0
    /\ col.index.type = "NONE" \/ col.index.built
    /\ col.index.type = "UNCLUSTER_SORT" => Len(rs) = n \/ Findable(col.data, n, rs, behind)

\* The column without the rows.
LEMMA ShortenedGood ==
    ASSUME NEW n \in Nat, NEW col, Good(col, n), NEW rs, rs = handle.positions, Trails(rs, n),
           NEW w, w = n - Len(rs),
           NEW m, NEW count0 \in Int, NEW behind \in Int, behind \notin Cells(n),
           LosesCells(col, n, rs, m, count0, behind)
    PROVE  LET new == Shortened(col, m, count0, behind)
           IN  /\ Good(new.col, w) /\ new.col.capacity = col.capacity
               /\ new.col.data = Narrow(col.data, w, rs[1])
               /\ new.count \in Int
               /\ Len(rs) < n /\ Len(rs) = 1 /\ rs[1] = 0 => new.count = 1
<1> DEFINE r == Removed(col.data, n, rs, m, count0, behind)
           idx == IF col.index.type \in UnclusteredTypes
                  THEN DeleteUnclustered(col.index, col.data, n, rs, behind) ELSE col.index
           new == [col EXCEPT !.index = idx, !.data = r.data, !.size = n - Len(rs)]
<1>1. /\ Fine(col, n) /\ Typed(col) /\ Plain(col.index) /\ col.data \in [Cells(n) -> Int]
      /\ col.size = n /\ col.fault = "none" /\ col.index.fault = "none"
      /\ n <= col.capacity /\ n <= col.room /\ col.capacity \in Nat /\ col.room \in Nat
    BY DEF Good, Fine, Typed
<1>2. /\ Len(rs) \in 1..n /\ Len(rs) \in Nat /\ w \in Nat /\ w <= n /\ w < n /\ rs[1] \in 0..w
      /\ m \in 1..n /\ n - Len(rs) <= m
    BY SMTT(60) DEF Trails, LosesCells
<1>3. /\ r.data = Narrow(col.data, w, rs[1]) /\ r.count \in Int
      /\ Len(rs) < n /\ Len(rs) = 1 /\ rs[1] = 0 => r.count = 1
    <2>1. DOMAIN col.data = Cells(n)
        BY <1>1
    <2>2. \/ Len(rs) = n
          \/ count0 = 0
          \/ count0 = 1 /\ Len(rs) = 1 /\ rs[1] = 0
        BY DEF LosesCells
    <2>3. PICK d : d = col.data
        OBVIOUS
    <2> DEFINE q == Removed(d, n, rs, m, count0, behind)
    <2>4. /\ q.data = Narrow(d, n - Len(rs), rs[1]) /\ q.count \in Int
          /\ Len(rs) < n /\ Len(rs) = 1 /\ rs[1] = 0 => q.count = 1
        <3>1. /\ Trails(rs, n) /\ m \in 1..n /\ n - Len(rs) <= m /\ DOMAIN d = Cells(n)
            BY <1>2, <2>1, <2>3
        <3> QED
            BY <3>1, <2>2, RemovedNarrow, SMTT(60)
    <2> QED
        BY <2>3, <2>4
<1>4. Shortened(col, m, count0, behind) = [count |-> r.count, col |-> WithFault(new, Len(rs) > n)]
    BY <1>1 DEF Shortened
<1>5. ~ (Len(rs) > n)
    BY <1>2
<1>6. Shortened(col, m, count0, behind).col = new /\ Shortened(col, m, count0, behind).count = r.count
    BY <1>4, <1>5 DEF WithFault
<1>7. Typed(new)
    BY <1>1, <1>2, <1>6, ShortenedTyped
<1>8. /\ idx.fault = "none"
      /\ idx.built => Fits(idx, r.data, w)
    <2>1. CASE col.index.type = "NONE"
        <3>1. idx = col.index /\ ~ col.index.built
            BY <2>1 DEF UnclusteredTypes, Good, Fits
        <3> QED
            BY <1>1, <3>1
    <2>2. CASE col.index.type = "CLUSTER_SORT"
        <3>1. idx = col.index /\ col.index.built
            BY <2>2 DEF UnclusteredTypes, LosesCells
        <3>2. Ascends(col.data, n)
            BY <2>2, <3>1 DEF Good, Fits
        <3>3. Ascends(Narrow(col.data, w, rs[1]), w)
            BY <1>2, <3>2, NarrowAscends
        <3> QED
            BY <1>1, <1>3, <2>2, <3>1, <3>3 DEF Fits
    <2>3. CASE col.index.type = "UNCLUSTER_SORT"
        <3>1. col.index.built /\ (Len(rs) = n \/ Findable(col.data, n, rs, behind))
            BY <2>3 DEF LosesCells
        <3>2. idx = SortDelete(col.index, col.data, n, rs, behind)
            BY <2>3, <3>1 DEF UnclusteredTypes, DeleteUnclustered
        <3>3. Mirrors(col.index.copy, col.index.positions, col.data, n)
            BY <2>3, <3>1 DEF Good, Fits
        <3>4. PICK i, d : i = col.index /\ d = col.data
            OBVIOUS
        <3>a. /\ Plain(i) /\ d \in [Cells(n) -> Int] /\ Mirrors(i.copy, i.positions, d, n)
              /\ Len(rs) = n \/ Findable(d, n, rs, behind)
            BY <1>1, <3>1, <3>3, <3>4
        <3> DEFINE s == SortDelete(i, d, n, rs, behind)
        <3>5. /\ s.fault = i.fault /\ s.type = i.type /\ s.built = i.built
              /\ Mirrors(s.copy, s.positions, Narrow(d, n - Len(rs), rs[1]), n - Len(rs))
            BY <3>a, SortDeleteGood
        <3>6. idx = s
            BY <3>2, <3>4
        <3> HIDE DEF s, idx
        <3> QED
            BY <1>1, <1>3, <2>3, <3>4, <3>5, <3>6 DEF Fits
    <2>4. col.index.type \in SortKinds
        BY <1>1 DEF Plain
    <2> QED
        BY <2>1, <2>2, <2>3, <2>4 DEF SortKinds
<1> HIDE DEF idx, r
<1>9. /\ new.index = idx /\ new.data = r.data /\ new.size = w /\ new.capacity = col.capacity
      /\ new.room = col.room /\ new.fault = "none"
    BY <1>1 DEF Typed, IsColumn
<1> HIDE DEF new
<1>10. Good(new, w)
    BY <1>1, <1>2, <1>7, <1>8, <1>9, SMTT(60) DEF Good, Fine
<1> QED
    BY <1>3, <1>6, <1>9, <1>10

\* The rows that a position vector names.
Named(rs) == {rs[i] : i \in DOMAIN rs}

\* The rows without those that went.
LEMMA NarrowRows ==
    ASSUME NEW n \in Nat, NEW cols, NEW new, NEW rs, Trails(rs, n), NEW w, w = n - Len(rs),
           \A d \in Columns : new[d].data = Narrow(cols[d].data, w, rs[1]),
           NEW H, H = Named(rs)
    PROVE  BagOfRows(new, Cells(w)) = BagOfRows(cols, Cells(n)) (-) BagOfRows(cols, H)
<1>1. PICK k \in Nat, p \in Int : k = Len(rs) /\ p = rs[1]
    BY DEF Trails
<1>2. /\ k \in 1..n /\ w = n - k /\ w \in Nat /\ p \in 0..w /\ DOMAIN rs = 1..k
      /\ \A i \in 2..k : rs[i] = w + i - 1
    BY <1>1 DEF Trails
<1>a. H = {rs[i] : i \in DOMAIN rs}
    BY DEF Named
<1>3. \A x \in Cells(n) : x \in H <=> (x = p \/ x > w)
    <2> SUFFICES ASSUME NEW x \in Cells(n) PROVE x \in H <=> (x = p \/ x > w)
        OBVIOUS
    <2>0. x \in 0..(n - 1)
        BY DEF Cells
    <2>1. ASSUME x = p PROVE x \in H
        <3>1. 1 \in DOMAIN rs /\ rs[1] = x
            BY <1>1, <1>2, <2>1
        <3> QED
            BY <1>a, <3>1
    <2>2. ASSUME x > w PROVE x \in H
        <3> DEFINE i == x - w + 1
        <3>1. i \in Int /\ i >= 2 /\ i <= k
            BY <1>2, <2>0, <2>2
        <3>2. i \in 2..k /\ i \in DOMAIN rs
            BY <1>2, <3>1
        <3>3. rs[i] = w + i - 1
            BY <1>2, <3>2
        <3>4. rs[i] = x
            BY <1>2, <2>0, <3>3
        <3> QED
            BY <1>a, <3>2, <3>4
    <2>3. ASSUME x \in H PROVE x = p \/ x > w
        <3>1. PICK i \in DOMAIN rs : rs[i] = x
            BY <1>a, <2>3
        <3>2. CASE i = 1
            BY <1>1, <3>1, <3>2
        <3>3. CASE i # 1
            <4>1. i \in 2..k /\ rs[i] = w + i - 1
                BY <1>2, <3>3
            <4> QED
                BY <1>2, <2>0, <3>1, <4>1, SMTT(60)
        <3> QED
            BY <3>2, <3>3
    <2> QED
        BY <2>1, <2>2, <2>3
<1>4. H \subseteq Cells(n)
    <2> SUFFICES ASSUME NEW i \in DOMAIN rs PROVE rs[i] \in Cells(n)
        BY <1>a
    <2>1. CASE i = 1
        BY <1>1, <1>2, <2>1 DEF Cells
    <2>2. CASE i # 1
        <3>1. i \in 2..k /\ rs[i] = w + i - 1
            BY <1>2, <2>2
        <3> QED
            BY <1>2, <3>1 DEF Cells
    <2> QED
        BY <2>1, <2>2
<1> DEFINE S == Cells(n) \ H
           h == [j \in Cells(w) |-> Up(j, p)]
<1>5. IsFiniteSet(Cells(n)) /\ IsFiniteSet(Cells(w)) /\ IsFiniteSet(S)
    <2>1. IsFiniteSet(Cells(n)) /\ IsFiniteSet(Cells(w))
        BY <1>2, CellsFinite
    <2> QED
        BY <2>1, FS_Subset
<1>6. \A x \in Cells(n) : x \in S <=> (x # p /\ x <= w)
    <2>1. \A x \in Cells(n) : x > w <=> ~ (x <= w)
        BY <1>2 DEF Cells
    <2> QED
        BY <1>3, <2>1
<1>7. /\ \A i \in Cells(w) : Up(i, p) \in Cells(w + 1) /\ Up(i, p) # p /\ Back(Up(i, p), p) = i
      /\ \A j \in Cells(w + 1) : j # p => Back(j, p) \in Cells(w) /\ Up(Back(j, p), p) = j
    BY <1>2, UpPlaces
<1>8. Cells(w + 1) \subseteq Cells(n) /\ \A x \in Cells(n) : x <= w <=> x \in Cells(w + 1)
    BY <1>2 DEF Cells
<1>9. h \in Bijection(Cells(w), S)
    <2>1. \A i \in Cells(w) : h[i] = Up(i, p) /\ h[i] \in S
        BY <1>6, <1>7, <1>8
    <2>2. \A i, j \in Cells(w) : h[i] = h[j] => i = j
        BY <1>7, <2>1
    <2>3. \A x \in S : Back(x, p) \in Cells(w) /\ h[Back(x, p)] = x
        BY <1>6, <1>7, <1>8, <2>1
    <2>4. h \in [Cells(w) -> S]
        BY <2>1
    <2> HIDE DEF h, S
    <2> QED
        BY <2>2, <2>3, <2>4 DEF Bijection, Injection, Surjection, IsInjective
<1>10. \A i \in Cells(w), d \in Columns : new[d].data[i] = cols[d].data[h[i]]
    <2> SUFFICES ASSUME NEW i \in Cells(w), NEW d \in Columns
                 PROVE  new[d].data[i] = cols[d].data[Up(i, p)]
        OBVIOUS
    <2>1. new[d].data = Narrow(cols[d].data, w, p)
        BY <1>1
    <2> QED
        BY <2>1 DEF Narrow
<1> HIDE DEF h, S
<1>11. BagOfRows(new, Cells(w)) = BagOfRows(cols, S)
    <2>1. PICK T : T = Cells(w)
        OBVIOUS
    <2>2. h \in Bijection(T, S) /\ IsFiniteSet(T) /\ \A i \in T, d \in Columns : new[d].data[i] = cols[d].data[h[i]]
        BY <1>5, <1>9, <1>10, <2>1
    <2>3. BagOfRows(new, T) = BagOfRows(cols, S)
        BY <1>5, <2>2, RowsInto
    <2> QED
        BY <2>1, <2>3
<1>12. BagOfRows(cols, Cells(n)) (-) BagOfRows(cols, H) = BagOfRows(cols, S)
    BY <1>4, <1>5, RowsLess DEF S
<1> QED
    BY <1>11, <1>12

\* The table without the rows that a handle names.
LosesRows(cols, new, w, p) ==
    /\ GoodTable(new, w)
    /\ \A d \in Columns : new[d].data = Narrow(cols[d].data, w, p)

\* With one clustered column the rows are deleted once.
LEMMA DeletedOnce ==
    ASSUME OneCluster, NEW c \in Clusters, NEW behind
    PROVE  Deleted(behind) = DeleteClustered(columns, c, behind)
<1>0. Clusters # {} /\ c \in 1..ColCount
    BY DEF Clusters, Columns
<1>1. \E f : DeleteTo(behind, ColCount, f)
    BY DeleteToSome, TableAssumption
<1>2. Deleted(behind) = (CHOOSE f : DeleteTo(behind, ColCount, f))[ColCount]
    BY <1>0 DEF Deleted, DeleteTo, DeleteOne
<1>3. PICK f : DeleteTo(behind, ColCount, f) /\ Deleted(behind) = f[ColCount]
    BY <1>1, <1>2
<1> DEFINE X == DeleteClustered(columns, c, behind)
           S == {m \in 0..ColCount : f[m] = IF m < c THEN columns ELSE X}
<1> HIDE DEF X
<1>4. 0 \in S
    <2>1. f[0] = columns /\ 0 \in 0..ColCount
        BY <1>3, TableAssumption DEF DeleteTo
    <2> QED
        BY <1>0, <2>1
<1>5. ASSUME NEW m \in 1..ColCount, m - 1 \in S PROVE m \in S
    <2>1. f[m] = DeleteOne(f[m - 1], m, behind) /\ m \in 0..ColCount
        BY <1>3, TableAssumption DEF DeleteTo
    <2>2. f[m - 1] = IF m - 1 < c THEN columns ELSE X
        BY <1>5
    <2>3. m \in Clusters <=> m = c
        BY DEF OneCluster
    <2>4. CASE m < c
        <3>1. f[m] = columns
            BY <1>0, <2>1, <2>2, <2>3, <2>4 DEF DeleteOne
        <3> QED
            BY <2>1, <2>4, <3>1
    <2>5. CASE m = c
        <3>1. f[m] = X
            BY <1>0, <2>1, <2>2, <2>3, <2>5 DEF DeleteOne, X
        <3> QED
            BY <1>0, <2>1, <2>5, <3>1
    <2>6. CASE m > c
        <3>1. f[m] = X
            BY <1>0, <2>1, <2>2, <2>3, <2>6 DEF DeleteOne
        <3> QED
            BY <1>0, <2>1, <2>6, <3>1
    <2> QED
        BY <1>0, <2>4, <2>5, <2>6
<1>6. ColCount \in S
    <2>1. 0..ColCount \subseteq S
        <3> HIDE DEF S
        <3> QED
            BY <1>4, <1>5, Upward, TableAssumption
    <2>2. ColCount \in 0..ColCount
        BY TableAssumption
    <2> QED
        BY <2>1, <2>2
<1>7. ~ (ColCount < c)
    BY <1>0, TableAssumption
<1> QED
    BY <1>3, <1>6, <1>7 DEF X

\* What the conditions of a delete say of each column.
LEMMA DeleteKeptColumn ==
    ASSUME NEW n \in Nat, n = table_length, GoodTable(columns, n), NEW rs, rs = handle.positions,
           NEW behind \in Int, DeleteKept(behind), NEW c \in Columns
    PROVE  /\ behind \notin Cells(n)
           /\ columns[c].index.type = "NONE" \/ columns[c].index.built
           /\ columns[c].index.type = "UNCLUSTER_SORT" =>
                  Len(rs) = n \/ Findable(columns[c].data, n, rs, behind)
<1>1. columns[c].size = n
    BY DEF GoodTable, Good, Fine
<1>2. behind \notin Cells(n) /\ (columns[c].index.type = "NONE" \/ columns[c].index.built)
    BY DEF DeleteKept, Has
<1>3. ASSUME columns[c].index.type = "UNCLUSTER_SORT", Len(rs) # n
      PROVE  Findable(columns[c].data, n, rs, behind)
    <2>1. /\ \A i \in 1..Len(rs) : Unique(columns[c], rs[i])
          /\ Len(rs) = 1 \/ \A i \in Cells(n) : columns[c].data[i] < behind
        BY <1>3 DEF DeleteKept, Has
    <2> QED
        BY <1>1, <2>1 DEF Unique, Findable
<1> QED
    BY <1>2, <1>3

\* A delete through the clustered column.
LEMMA DeletedClustered ==
    ASSUME NEW n \in Nat, n = table_length, GoodTable(columns, n), TypedTable(columns),
           NEW rs, rs = handle.positions, Trails(rs, n), NEW w, w = n - Len(rs),
           NEW behind \in Int, DeleteKept(behind), Clusters # {}
    PROVE  LosesRows(columns, Deleted(behind), w, rs[1])
<1>1. PICK c \in Clusters : TRUE
    OBVIOUS
<1>2. OneCluster /\ n - Len(rs) <= Visited(n)
    BY OneClusterIs DEF DeleteKept
<1>3. c \in Columns /\ columns[c].index.type = "CLUSTER_SORT"
    BY ClustersSorted DEF Clusters
<1>4. columns[c].index.built
    BY <1>3, DeleteKeptColumn
<1>5. Deleted(behind) = DeleteClustered(columns, c, behind)
    BY <1>1, <1>2, DeletedOnce
<1>6. Len(rs) \in 1..n /\ Len(rs) \in Nat /\ n >= 1 /\ Visited(n) \in 1..n
    BY DEF Trails, Visited
<1>7. handle.positions # << >>
    <2>1. Len(<< >>) = 0
        BY EmptySeq
    <2>2. rs # << >>
        BY <1>6, <2>1
    <2> QED
        BY <2>2
<1> DEFINE m(d) == IF d # c THEN columns[d].size ELSE Visited(columns[d].size)
           new == [d \in Columns |-> Shortened(columns[d], m(d), 0, behind).col]
<1>8. Deleted(behind) = new
    BY <1>3, <1>4, <1>5, <1>7, DeleteClusteredIs
<1>9. ASSUME NEW d \in Columns
      PROVE  /\ Good(new[d], w) /\ new[d].capacity = columns[1].capacity
             /\ new[d].data = Narrow(columns[d].data, w, rs[1])
    <2>1. PICK col, k : col = columns[d] /\ k = m(d)
        OBVIOUS
    <2>2. Good(col, n) /\ col.capacity = columns[1].capacity /\ col.size = n
        BY <2>1 DEF GoodTable, Good, Fine
    <2>3. k \in 1..n /\ n - Len(rs) <= k
        BY <1>2, <1>6, <2>1, <2>2
    <2>4. /\ behind \notin Cells(n)
          /\ col.index.type = "NONE" \/ col.index.built
          /\ col.index.type = "UNCLUSTER_SORT" => Len(rs) = n \/ Findable(col.data, n, rs, behind)
        BY <2>1, DeleteKeptColumn
    <2>5. LosesCells(col, n, rs, k, 0, behind)
        BY <2>3, <2>4 DEF LosesCells
    <2> DEFINE e == Shortened(col, k, 0, behind)
    <2>6. Good(e.col, w) /\ e.col.capacity = col.capacity /\ e.col.data = Narrow(col.data, w, rs[1])
        BY <2>2, <2>4, <2>5, ShortenedGood
    <2>7. new[d] = e.col
        BY <2>1
    <2> HIDE DEF e, new
    <2> QED
        BY <2>1, <2>2, <2>6, <2>7
<1>10. DOMAIN new = Columns /\ 1 \in Columns
    BY TableAssumption DEF Columns
<1> HIDE DEF new, m
<1>11. LosesRows(columns, new, w, rs[1])
    BY <1>9, <1>10 DEF LosesRows, GoodTable
<1> QED
    BY <1>8, <1>11

\* A delete from columns one after the other.
LEMMA DeletedPlain ==
    ASSUME NEW n \in Nat, n = table_length, GoodTable(columns, n),
           NEW rs, rs = handle.positions, Trails(rs, n), NEW w, w = n - Len(rs),
           NEW behind \in Int, DeleteKept(behind), Clusters = {}
    PROVE  LosesRows(columns, Deleted(behind), w, rs[1])
<1>1. \E f : ShiftTo(behind, ColCount, f)
    BY ShiftToSome, TableAssumption
<1>2. Deleted(behind) = (CHOOSE f : ShiftTo(behind, ColCount, f))[ColCount].cols
    BY DEF Deleted, ShiftTo, ShiftOne
<1>3. PICK f : ShiftTo(behind, ColCount, f) /\ Deleted(behind) = f[ColCount].cols
    BY <1>1, <1>2
<1>4. Len(rs) \in 1..n /\ Len(rs) \in Nat /\ n \in 1..n /\ rs[1] \in Int
    BY DEF Trails
<1>5. ColCount = 1 \/ Len(rs) = n \/ (Len(rs) = 1 /\ rs[1] = 0)
    <2>1. ColCount > 1 => rs = << 0 >> \/ Len(rs) = n
        BY DEF DeleteKept
    <2>2. Len(<< 0 >>) = 1 /\ << 0 >>[1] = 0
        OBVIOUS
    <2>3. ColCount = 1 \/ ColCount > 1
        BY TableAssumption
    <2> QED
        BY <2>1, <2>2, <2>3
<1> DEFINE right(e, d) == /\ Good(e, w) /\ e.capacity = columns[1].capacity
                          /\ e.data = Narrow(columns[d].data, w, rs[1])
           Partly(s, m) ==
               /\ DOMAIN s.cols = Columns
               /\ \A d \in Columns : d <= m => right(s.cols[d], d)
               /\ s.count \in Int
               /\ m = 0 => s.count = 0
               /\ m > 0 => Len(rs) = n \/ ~ (Len(rs) = 1 /\ rs[1] = 0) \/ s.count = 1
           S == {m \in 0..ColCount : Partly(f[m], m)}
<1> HIDE DEF right
<1>6. 0 \in S
    <2>1. f[0] = [cols |-> columns, count |-> 0] /\ 0 \in 0..ColCount
        BY <1>3, TableAssumption DEF ShiftTo
    <2>2. f[0].cols = columns /\ f[0].count = 0
        BY <2>1
    <2>3. \A d \in Columns : ~ (d <= 0)
        BY DEF Columns
    <2> QED
        BY <2>1, <2>2, <2>3 DEF GoodTable
<1>7. ASSUME NEW m \in 1..ColCount, m - 1 \in S PROVE m \in S
    <2>1. PICK s, col : s = f[m - 1] /\ col = columns[m]
        OBVIOUS
    <2>2. Partly(s, m - 1)
        BY <1>7, <2>1
    <2>3. m \in Columns /\ m \in 0..ColCount /\ m \in Int
        BY TableAssumption DEF Columns
    <2>4. f[m] = ShiftOne(s, m, behind)
        BY <1>3, <2>1, <2>3, TableAssumption DEF ShiftTo
    <2>5. Good(col, n) /\ col.capacity = columns[1].capacity /\ col.size = n
        BY <2>1, <2>3 DEF GoodTable, Good, Fine
    <2>6. /\ behind \notin Cells(n)
          /\ col.index.type = "NONE" \/ col.index.built
          /\ col.index.type = "UNCLUSTER_SORT" => Len(rs) = n \/ Findable(col.data, n, rs, behind)
        BY <2>1, <2>3, DeleteKeptColumn
    <2>7. s.count \in Int /\ (\/ Len(rs) = n
                              \/ s.count = 0
                              \/ s.count = 1 /\ Len(rs) = 1 /\ rs[1] = 0)
        <3>1. CASE m = 1
            <4>1. m - 1 = 0
                BY <3>1
            <4> QED
                BY <2>2, <4>1
        <3>2. CASE m # 1
            <4>1. m - 1 > 0 /\ ColCount # 1
                BY <2>3, <3>2
            <4> QED
                BY <1>5, <2>2, <4>1
        <3> QED
            BY <3>1, <3>2
    <2>8. LosesCells(col, n, rs, n, s.count, behind)
        BY <1>4, <2>6, <2>7 DEF LosesCells
    <2>9. PICK a : a = s.count
        OBVIOUS
    <2> DEFINE r == Shortened(col, n, a, behind)
    <2>a. a \in Int /\ LosesCells(col, n, rs, n, a, behind)
        BY <2>7, <2>8, <2>9
    <2>10. /\ Good(r.col, w) /\ r.col.capacity = col.capacity /\ r.col.data = Narrow(col.data, w, rs[1])
           /\ r.count \in Int
           /\ Len(rs) < n /\ Len(rs) = 1 /\ rs[1] = 0 => r.count = 1
        BY <2>5, <2>6, <2>a, ShortenedGood
    <2>11. f[m] = [cols |-> [s.cols EXCEPT ![m] = r.col], count |-> r.count]
        BY <2>1, <2>4, <2>5, <2>9 DEF ShiftOne
    <2> HIDE DEF r
    <2>12. f[m].cols = [s.cols EXCEPT ![m] = r.col] /\ f[m].count = r.count
        BY <2>11
    <2>13. right(r.col, m)
        BY <2>1, <2>5, <2>10 DEF right
    <2>14. ASSUME NEW d \in Columns, d <= m PROVE right(f[m].cols[d], d)
        <3>1. CASE d = m
            BY <2>2, <2>3, <2>12, <2>13, <3>1
        <3>2. CASE d # m
            <4>1. d <= m - 1
                BY <2>3, <2>14, <3>2 DEF Columns
            <4> QED
                BY <2>2, <2>12, <3>2, <4>1
        <3> QED
            BY <3>1, <3>2
    <2>15. Len(rs) = n \/ ~ (Len(rs) = 1 /\ rs[1] = 0) \/ f[m].count = 1
        BY <1>4, <2>10, <2>12
    <2>16. DOMAIN f[m].cols = Columns
        BY <2>2, <2>12
    <2>17. m # 0 /\ f[m].count \in Int
        BY <2>10, <2>12
    <2> QED
        BY <2>3, <2>14, <2>15, <2>16, <2>17
<1>8. ColCount \in S
    <2>1. 0..ColCount \subseteq S
        <3> HIDE DEF S
        <3> QED
            BY <1>6, <1>7, Upward, TableAssumption
    <2>2. ColCount \in 0..ColCount
        BY TableAssumption
    <2> HIDE DEF S
    <2> QED
        BY <2>1, <2>2
<1>9. Partly(f[ColCount], ColCount)
    BY <1>8
<1>10. \A d \in Columns : d <= ColCount
    BY TableAssumption DEF Columns
<1>11. 1 \in Columns
    BY TableAssumption DEF Columns
<1>12. PICK new : new = f[ColCount].cols
    OBVIOUS
<1>13. DOMAIN new = Columns /\ \A d \in Columns : right(new[d], d)
    BY <1>9, <1>10, <1>12
<1>14. LosesRows(columns, new, w, rs[1])
    BY <1>11, <1>13 DEF LosesRows, GoodTable, right
<1> QED
    BY <1>3, <1>12, <1>14

\* db_delete.
LEMMA DeleteKeeps ==
    ASSUME TypeInv, KeptInv, DeleteRows
    PROVE  KeptInv'
<1> SUFFICES ASSUME kept' PROVE KeptInv'
    BY DEF KeptInv
<1>1. ~ Faulty /\ ~ FollowsNull /\ Done(TRUE) /\ table_length' = table_length - Len(handle.positions)
    <2>1. ~ FollowsNull
        BY DEF DeleteRows
    <2> QED
        BY <2>1 DEF DeleteRows, Ready
<1>2. PICK behind \in Junk : columns' = Deleted(behind) /\ kept' = (kept /\ DeleteKept(behind))
    BY <1>1 DEF DeleteRows
<1>3. kept /\ DeleteKept(behind)
    BY <1>2
<1>4. rows' = rows (-) BagOfRows(columns, HandleRows)
    BY DEF DeleteRows
<1>5. PICK n, rs : n = table_length /\ rs = handle.positions
    OBVIOUS
<1>6. /\ n \in Nat /\ GoodTable(columns, n) /\ TypedTable(columns) /\ Counted(columns) /\ behind \in Int
      /\ BagOfRows(columns, Cells(n)) = rows /\ handle.fresh /\ GoodHandle
      /\ rs \in Seq(Int) /\ Len(rs) > 0
      /\ \A i \in 2..Len(rs) : rs[i] = n - Len(rs) + i - 1
      /\ Cardinality(Clusters) <= 1
    BY <1>1, <1>3, <1>5, Before, TableAssumption DEF KeptInv, DeleteKept, TypeInv
<1>7. Trails(rs, n)
    BY <1>5, <1>6, TrailsHandle DEF GoodHandle
<1>8. PICK w : w = n - Len(rs)
    OBVIOUS
<1>9. PICK new : new = Deleted(behind)
    OBVIOUS
<1>10. LosesRows(columns, new, w, rs[1])
    <2>1. CASE Clusters = {}
        BY <1>3, <1>5, <1>6, <1>7, <1>8, <1>9, <2>1, DeletedPlain
    <2>2. CASE Clusters # {}
        BY <1>3, <1>5, <1>6, <1>7, <1>8, <1>9, <2>2, DeletedClustered
    <2> QED
        BY <2>1, <2>2
<1>11. GoodTable(new, w) /\ \A d \in Columns : new[d].data = Narrow(columns[d].data, w, rs[1])
    BY <1>10 DEF LosesRows
<1>12. BagOfRows(new, Cells(w)) = rows'
    <2>1. PICK old, H : old = columns /\ H = HandleRows
        OBVIOUS
    <2>2. H = Named(rs) /\ \A d \in Columns : new[d].data = Narrow(old[d].data, w, rs[1])
        BY <1>5, <1>11, <2>1 DEF HandleRows, Named
    <2>3. BagOfRows(new, Cells(w)) = BagOfRows(old, Cells(n)) (-) BagOfRows(old, H)
        BY <1>6, <1>7, <1>8, <2>2, NarrowRows, SMTT(60)
    <2> QED
        BY <1>4, <1>6, <2>1, <2>3
<1>13. Lone(new)
    <2>1. IsTable(columns) /\ Len(handle.positions) \in Nat
        BY <1>1, Before
    <2>2. SameTypes(columns, new)
        BY <1>9, <2>1, DeletedShape
    <2> QED
        BY <1>6, <2>2, OneLone
<1>14. ~ handle'.fresh
    <2>1. DOMAIN handle = {"positions", "null", "fresh"}
        BY DEF TypeInv, SizeInv
    <2>2. handle' = [handle EXCEPT !.fresh = @ /\ ~ TRUE]
        BY <1>1 DEF Done
    <2> QED
        BY <2>1, <2>2, Zenon
<1>15. columns' = new /\ table_length' = w
    BY <1>1, <1>2, <1>5, <1>8, <1>9
<1> QED
    BY <1>11, <1>12, <1>13, <1>14, <1>15 DEF KeptInv

(* Update: rows that move *)

\* Moved does that.
LEMMA MovedIs ==
    ASSUME NEW n \in Nat, NEW a \in [Cells(n) -> Int], NEW p \in Cells(n), NEW q \in Cells(n), NEW behind
    PROVE  Moved(a, p, q, behind) = Shuffled(a, n, Turn(n, p, q))
<1>1. p \in Int /\ q \in Int
    BY DEF Cells
<1>2. ASSUME NEW i \in Cells(n)
      PROVE  (IF i = q THEN Cell(a, p, behind)
              ELSE IF p > q /\ i \in (q + 1)..p THEN Cell(a, i - 1, behind)
              ELSE IF p < q /\ i \in p..(q - 1) THEN Cell(a, i + 1, behind)
              ELSE a[i]) = a[Origin(i, p, q)]
    <2>1. i \in Int /\ Origin(i, p, q) \in Cells(n)
        BY OriginPlaces DEF Cells
    <2>2. Cell(a, Origin(i, p, q), behind) = a[Origin(i, p, q)] /\ Cell(a, i, behind) = a[i]
        BY <2>1 DEF Cell
    <2>3. CASE i = q
        BY <2>2, <2>3 DEF Origin
    <2>4. CASE i # q
        <3>1. i \in (q + 1)..p <=> q < i /\ i <= p
            BY <1>1, <2>1
        <3>2. i \in p..(q - 1) <=> p <= i /\ i < q
            BY <1>1, <2>1
        <3> QED
            BY <2>2, <2>4, <3>1, <3>2 DEF Origin
    <2> QED
        BY <2>3, <2>4
<1>3. DOMAIN a = Cells(n)
    OBVIOUS
<1> QED
    BY <1>2, <1>3 DEF Moved, Shuffled, Turn

\* The search finds such a place for a value that is not less than the old
\* one, and for any value that it fits.
LEMMA PlaceAround ==
    ASSUME NEW n \in Nat, NEW a, Ascends(a, n), NEW x \in Cells(n), NEW v \in Int,
           v >= a[x] \/ SearchFits(a, n, v), NEW behind \in Int
    PROVE  LET q == Find(a, n, v, "GREATER_EQUAL", behind)
           IN  q \in Cells(n) /\ Around(a, n, x, q, v)
<1> DEFINE q == Find(a, n, v, "GREATER_EQUAL", behind)
<1>1. x \in Int /\ 0 <= x /\ x <= n - 1 /\ n # 0
    BY DEF Cells
<1>2. q \in Cells(n) /\ (q = 0 \/ a[q] <= v) /\ (q = n - 1 \/ v <= a[q] \/ v < a[q + 1])
    BY <1>1, FindFirst
<1>3. SearchFits(a, n, v) => Between(a, n, q, v)
    BY PlaceFits
<1> HIDE DEF q
<1>4. q \in Int /\ 0 <= q /\ q <= n - 1
    BY <1>2 DEF Cells
<1>5. /\ \A i \in Cells(n) : a[i] \in Int
      /\ \A i, j \in Cells(n) : i <= j => a[i] <= a[j]
    BY DEF Ascends
<1>6. ASSUME NEW j \in Cells(n), j < q PROVE a[j] <= v
    <2>1. a[j] <= a[q] /\ a[j] \in Int /\ a[q] \in Int /\ q # 0
        BY <1>2, <1>4, <1>5, <1>6 DEF Cells
    <2> QED
        BY <1>2, <2>1
<1>7. ASSUME NEW j \in Cells(n), j > q PROVE v <= a[j]
    <2>1. j \in Int /\ q + 1 \in Cells(n) /\ q + 1 <= j /\ q # n - 1 /\ q <= j
        BY <1>4, <1>7 DEF Cells
    <2>2. a[q] <= a[j] /\ a[q + 1] <= a[j] /\ a[j] \in Int /\ a[q] \in Int /\ a[q + 1] \in Int
        BY <1>2, <1>5, <2>1
    <2> QED
        BY <1>2, <2>1, <2>2
<1>8. x < q => a[q] <= v
    BY <1>1, <1>2, <1>4
<1>9. ASSUME x > q PROVE v <= a[q]
    <2>1. q + 1 \in Cells(n) /\ q + 1 <= x /\ q # n - 1
        BY <1>1, <1>4, <1>9 DEF Cells
    <2>2. a[q + 1] <= a[x] /\ a[x] \in Int /\ a[q] \in Int /\ a[q + 1] \in Int
        BY <1>2, <1>5, <2>1
    <2>3. CASE v >= a[x]
        BY <1>2, <2>1, <2>2, <2>3
    <2>4. CASE SearchFits(a, n, v)
        BY <1>2, <1>3, <1>4, <2>4 DEF Between
    <2> QED
        BY <2>3, <2>4
<1> QED
    BY <1>2, <1>6, <1>7, <1>8, <1>9 DEF Around, q

\* The cells in S take a value.
Given(data, S, value) == [i \in DOMAIN data |-> IF i \in S THEN value ELSE data[i]]
\* The rows of the handle go to places, and all rows of n cells with them.
Moves(places, n, g, behind) ==
    \A a \in [Cells(n) -> Int] : MovedAll(a, places, behind) = Shuffled(a, n, g)
\* An update of a column in order finds those places, with the column in order.
Settles(col, n, value, behind, g, places) ==
    /\ Shuffles(g, n) /\ Moves(places, n, g, behind)
    /\ SortPlaces(col, value, behind) =
           [data |-> Shuffled(Given(col.data, HandleRows, value), n, g), places |-> places]
    /\ Ascends(Shuffled(Given(col.data, HandleRows, value), n, g), n)
    /\ \A k \in DOMAIN places : places[k] # Unset

\* An update of no row through a clustered column.
LEMMA PlacesNone ==
    ASSUME NEW n \in Nat, NEW col, Typed(col), col.size = n, Ascends(col.data, n),
           NEW value \in Int, NEW behind \in Int, handle.positions \in Seq(Int), Len(handle.positions) = 0
    PROVE  \E g, places : Settles(col, n, value, behind, g, places)
<1> DEFINE g == [i \in Cells(n) |-> i]
<1>1. Shuffles(g, n) /\ \A a \in [Cells(n) -> Int] : Shuffled(a, n, g) = a
    <2>1. Shuffles(g, n)
        BY DEF Shuffles
    <2>2. ASSUME NEW a \in [Cells(n) -> Int] PROVE Shuffled(a, n, g) = a
        BY <2>2 DEF Shuffled
    <2> QED
        BY <2>1, <2>2
<1> HIDE DEF g
<1>2. Moves(<< >>, n, g, behind)
    <2>0. PICK places : places = << >>
        OBVIOUS
    <2> SUFFICES ASSUME NEW a \in [Cells(n) -> Int] PROVE MovedAll(a, places, behind) = Shuffled(a, n, g)
        BY <2>0 DEF Moves
    <2>a. n \in Int /\ Len(handle.positions) \in Nat
        OBVIOUS
    <2>b. \E f : MovedRun(a, n, places, behind, f)
        BY <2>a, MovedRuns
    <2>1. PICK f : MovedRun(a, n, places, behind, f)
        BY <2>b
    <2>2. MovedAll(a, places, behind) = a
        BY <2>1 DEF MovedRun
    <2> QED
        BY <1>1, <2>2
<1>3. SortPlaces(col, value, behind) = [data |-> col.data, places |-> << >>]
    <2>1. PICK f : PlacesRun(col, value, behind, f)
        BY PlacesRuns
    <2> QED
        BY <2>1 DEF PlacesRun
<1>4. DOMAIN handle.positions = 1..0
    BY LenProperties
<1>5. Given(col.data, HandleRows, value) = col.data
    <2>1. HandleRows = {}
        BY <1>4 DEF HandleRows
    <2>2. col.data \in [Cells(n) -> Int]
        BY DEF Typed
    <2> QED
        BY <2>1, <2>2 DEF Given
<1>6. Shuffled(Given(col.data, HandleRows, value), n, g) = col.data
    <2>1. col.data \in [Cells(n) -> Int]
        BY DEF Typed
    <2> QED
        BY <1>1, <1>5, <2>1
<1>7. \A k \in DOMAIN << >> : << >>[k] # Unset
    OBVIOUS
<1> QED
    BY <1>1, <1>2, <1>3, <1>6, <1>7 DEF Settles

\* The cells that one of them left for another with a new value.
LEMMA SeatedIs ==
    ASSUME NEW n \in Nat, NEW a \in [Cells(n) -> Int], NEW x \in Cells(n), NEW q \in Cells(n), NEW v,
           NEW S, S = {x}
    PROVE  Seated(a, n, x, q, v) = Shuffled(Given(a, S, v), n, Turn(n, x, q))
<1>1. ASSUME NEW i \in Cells(n)
      PROVE  (IF i = q THEN v ELSE a[Origin(i, x, q)]) = Given(a, S, v)[Origin(i, x, q)]
    <2>1. Origin(i, x, q) \in Cells(n) /\ (Origin(i, x, q) = x <=> i = q)
        BY OriginPlaces
    <2> QED
        BY <2>1 DEF Given
<1> QED
    BY <1>1 DEF Seated, Shuffled, Turn

\* An update of one row through a clustered column.
LEMMA PlacesOne ==
    ASSUME NEW n \in Nat, NEW col, Typed(col), col.size = n, Ascends(col.data, n),
           NEW value \in Int, NEW behind \in Int, handle.positions \in Seq(Int), Len(handle.positions) = 1,
           NEW x \in Cells(n), handle.positions[1] = x,
           value >= col.data[x] \/ SearchFits(col.data, n, value)
    PROVE  \E g, places : Settles(col, n, value, behind, g, places)
<1>1. PICK a : a = col.data
    OBVIOUS
<1>2. a \in [Cells(n) -> Int] /\ Ascends(a, n)
    BY <1>1 DEF Typed
<1>3. PICK q : q = Find(a, n, value, "GREATER_EQUAL", behind)
    OBVIOUS
<1>4. q \in Cells(n) /\ Around(a, n, x, q, value)
    BY <1>1, <1>2, <1>3, PlaceAround
<1>5. PICK g : g = Turn(n, x, q)
    OBVIOUS
<1>6. Shuffles(g, n)
    BY <1>4, <1>5, TurnShuffles
<1>7. q \in Int /\ q # Unset
    BY <1>4 DEF Cells, Unset
<1>8. Append(<< >>, q) = << q >> /\ << q >>[1] = q /\ DOMAIN << q >> = {1}
    BY <1>7
<1>9. Moves(<< q >>, n, g, behind)
    <2>0. PICK places : places = << q >>
        OBVIOUS
    <2> SUFFICES ASSUME NEW b \in [Cells(n) -> Int] PROVE MovedAll(b, places, behind) = Shuffled(b, n, g)
        BY <2>0 DEF Moves
    <2>a. n \in Int /\ Len(handle.positions) \in Nat
        OBVIOUS
    <2>b. \E f : MovedRun(b, n, places, behind, f)
        BY <2>a, MovedRuns
    <2>1. PICK f : MovedRun(b, n, places, behind, f)
        BY <2>b
    <2>2. MovedAll(b, places, behind) = f[1] /\ f[0] = b /\ 1 \in 1..Len(handle.positions)
        BY <2>1 DEF MovedRun
    <2>3. f[1] = Moved(f[1 - 1], handle.positions[1], places[1], behind)
        BY <2>1, <2>2 DEF MovedRun
    <2>4. f[1] = Moved(b, x, q, behind)
        BY <1>8, <2>0, <2>2, <2>3
    <2> QED
        BY <1>4, <1>5, <2>2, <2>4, MovedIs
<1>10. SortPlaces(col, value, behind) = [data |-> Seated(a, n, x, q, value), places |-> << q >>]
    <2>1. PICK f : PlacesRun(col, value, behind, f)
        BY PlacesRuns
    <2>2. /\ SortPlaces(col, value, behind) = f[1] /\ f[0] = [data |-> a, places |-> << >>]
          /\ 1 \in 1..Len(handle.positions)
        BY <1>1, <2>1 DEF PlacesRun
    <2>3. f[1] = PlaceStep(n, value, behind, f[1 - 1], 1)
        BY <2>1, <2>2 DEF PlacesRun
    <2>4. f[1] = PlaceStep(n, value, behind, f[0], 1)
        BY <2>3
    <2>5. PICK b : b = Moved(a, x, q, behind)
        OBVIOUS
    <2>6. f[1] = [data |-> [i \in DOMAIN b |-> IF i = q THEN value ELSE b[i]], places |-> << q >>]
        BY <1>3, <1>8, <2>2, <2>4, <2>5 DEF PlaceStep
    <2>7. b = Shuffled(a, n, g)
        BY <1>2, <1>4, <1>5, <2>5, MovedIs
    <2>8. [i \in DOMAIN b |-> IF i = q THEN value ELSE b[i]] = Seated(a, n, x, q, value)
        BY <1>5, <2>7 DEF Seated, Shuffled, Turn
    <2> QED
        BY <2>2, <2>6, <2>8
<1>11. HandleRows = {x}
    <2>1. DOMAIN handle.positions = 1..1
        BY LenProperties
    <2>2. 1..1 = {1}
        OBVIOUS
    <2> QED
        BY <2>1, <2>2 DEF HandleRows
<1>12. Seated(a, n, x, q, value) = Shuffled(Given(a, HandleRows, value), n, g)
    <2>1. PICK S : S = HandleRows
        OBVIOUS
    <2>2. S = {x}
        BY <1>11, <2>1
    <2>3. Seated(a, n, x, q, value) = Shuffled(Given(a, S, value), n, Turn(n, x, q))
        BY <1>2, <1>4, <2>2, SeatedIs
    <2> QED
        BY <1>5, <2>1, <2>3
<1>13. Ascends(Seated(a, n, x, q, value), n)
    BY <1>2, <1>4, SeatedAscends
<1>14. \A k \in DOMAIN << q >> : << q >>[k] # Unset
    BY <1>7, <1>8
<1> QED
    BY <1>1, <1>6, <1>9, <1>10, <1>12, <1>13, <1>14 DEF Settles

\* A column whose rows go to other places.
LEMMA FollowsGood ==
    ASSUME NEW n \in Nat, NEW col, Good(col, n),
           col.index.type = "CLUSTER_SORT" => ~ col.index.built,
           col.index.type = "UNCLUSTER_SORT" => col.index.built /\ Differ(col.data, n),
           NEW g, Shuffles(g, n), NEW places, NEW behind \in Int, Moves(places, n, g, behind)
    PROVE  LET new == Follows(col, places, behind)
           IN  /\ Good(new, n) /\ new.capacity = col.capacity /\ new.data = Shuffled(col.data, n, g)
               /\ new.index.type = col.index.type /\ new.index.built = col.index.built
<1> DEFINE data == Shuffled(col.data, n, g)
           fresh == Refreshed(col.index, data, n, behind)
           idx == IF col.index.type = "UNCLUSTER_SORT" THEN fresh ELSE col.index
           new == [col EXCEPT !.data = data, !.index = idx]
<1>1. Typed(col) /\ Plain(col.index) /\ col.size = n /\ col.data \in [Cells(n) -> Int]
    BY DEF Good, Fine, Typed
<1>2. MovedAll(col.data, places, behind) = data
    BY <1>1 DEF Moves
<1>3. Follows(col, places, behind) = new
    BY <1>1, <1>2 DEF Follows
<1>4. data \in [Cells(n) -> Int]
    BY <1>1 DEF Shuffled, Shuffles
<1>5. /\ Plain(idx) /\ idx.type = col.index.type /\ idx.built = col.index.built /\ idx.fault = col.index.fault
      /\ idx.built => Fits(idx, data, n)
    <2>1. CASE col.index.type = "UNCLUSTER_SORT"
        <3>1. Mirrors(col.index.copy, col.index.positions, col.data, n)
            BY <2>1 DEF Good, Fits
        <3>2. /\ Plain(fresh) /\ fresh.type = "UNCLUSTER_SORT" /\ fresh.built /\ fresh.fault = col.index.fault
              /\ Mirrors(fresh.copy, fresh.positions, data, n)
            BY <1>1, <2>1, <3>1, RefreshedMirrors
        <3> HIDE DEF fresh
        <3> QED
            BY <2>1, <3>2 DEF Fits
    <2>2. CASE col.index.type # "UNCLUSTER_SORT"
        <3>1. ~ col.index.built
            <4>1. col.index.type \in SortKinds /\ (col.index.built => Fits(col.index, col.data, n))
                BY <1>1 DEF Good, Plain
            <4> QED
                BY <2>2, <4>1 DEF SortKinds, Fits
        <3> QED
            BY <1>1, <2>2, <3>1
    <2> QED
        BY <2>1, <2>2
<1> HIDE DEF data, idx
<1>6. /\ Typed(new) /\ new.index = idx /\ new.data = data /\ new.size = n /\ new.capacity = col.capacity
      /\ new.room = col.room /\ new.fault = col.fault
    BY <1>1, <1>4, <1>5 DEF Typed, IsColumn, Plain
<1> HIDE DEF new
<1>7. Good(new, n)
    BY <1>5, <1>6 DEF Good, Fine
<1> QED
    BY <1>3, <1>5, <1>6, <1>7 DEF data

\* Where the rows go that an update moves.
LEMMA PlacesFew ==
    ASSUME NEW n \in Nat, NEW col, Typed(col), col.size = n, Ascends(col.data, n),
           NEW value \in Int, NEW behind \in Int,
           handle.positions \in Seq(Int), Len(handle.positions) <= 1,
           \A i \in DOMAIN handle.positions : handle.positions[i] \in Cells(n),
           handle.positions # << >> => \/ value >= Cell(col.data, handle.positions[1], value)
                                       \/ SearchFits(col.data, n, value)
    PROVE  \E g, places : Settles(col, n, value, behind, g, places)
<1>1. Len(handle.positions) \in Nat /\ DOMAIN handle.positions = 1..Len(handle.positions)
    BY LenProperties
<1>2. CASE Len(handle.positions) = 0
    BY <1>2, PlacesNone
<1>3. CASE Len(handle.positions) = 1
    <2>1. PICK x : x = handle.positions[1]
        OBVIOUS
    <2>2. x \in Cells(n) /\ handle.positions # << >>
        BY <1>1, <1>3, <2>1
    <2>3. DOMAIN col.data = Cells(n)
        BY DEF Typed
    <2>4. Cell(col.data, x, value) = col.data[x]
        BY <2>2, <2>3 DEF Cell
    <2>5. value >= col.data[x] \/ SearchFits(col.data, n, value)
        BY <2>1, <2>2, <2>4
    <2> QED
        BY <1>3, <2>1, <2>2, <2>5, PlacesOne
<1>4. Len(handle.positions) = 0 \/ Len(handle.positions) = 1
    <2>1. PICK k : k = Len(handle.positions)
        OBVIOUS
    <2>2. k \in Nat /\ k <= 1
        BY <1>1, <2>1
    <2>3. k = 0 \/ k = 1
        BY <2>2
    <2> QED
        BY <2>1, <2>3
<1> QED
    BY <1>2, <1>3, <1>4

\* Rows of which some changed.
LEMMA ChangedRows ==
    ASSUME NEW n \in Nat, NEW cols, NEW new, NEW H \in SUBSET Cells(n),
           \A i \in Cells(n) \ H, d \in Columns : cols[d].data[i] = new[d].data[i]
    PROVE  BagOfRows(new, Cells(n)) = (BagOfRows(cols, Cells(n)) (-) BagOfRows(cols, H)) (+) BagOfRows(new, H)
<1> DEFINE R == Cells(n) \ H
<1>1. IsFiniteSet(Cells(n)) /\ IsFiniteSet(H) /\ IsFiniteSet(R) /\ R \cap H = {} /\ R \cup H = Cells(n)
    BY CellsFinite, FS_Subset
<1>2. BagOfRows(cols, Cells(n)) (-) BagOfRows(cols, H) = BagOfRows(cols, R)
    BY <1>1, RowsLess
<1>3. BagOfRows(cols, R) = BagOfRows(new, R)
    <2> HIDE DEF R
    <2>1. \A i \in R, d \in Columns : cols[d].data[i] = new[d].data[i]
        BY DEF R
    <2> QED
        BY <1>1, <2>1, RowsSame
<1>4. BagOfRows(new, R \cup H) = BagOfRows(new, R) (+) BagOfRows(new, H)
    BY <1>1, RowsBoth
<1> QED
    BY <1>1, <1>2, <1>3, <1>4

\* Rows that change places.
LEMMA ShuffledRows ==
    ASSUME NEW n \in Nat, NEW cols, NEW new, NEW g, Shuffles(g, n),
           \A d \in Columns : new[d].data = Shuffled(cols[d].data, n, g)
    PROVE  BagOfRows(new, Cells(n)) = BagOfRows(cols, Cells(n))
<1>1. \A d \in Columns, i \in Cells(n) : new[d].data[i] = cols[d].data[g[i]]
    BY ZenonT(60) DEF Shuffled
<1>2. g \in Bijection(Cells(n), Cells(n))
    BY DEF Shuffles, Bijection, Injection, Surjection, IsInjective
<1> QED
    BY <1>1, <1>2, CellsFinite, RowsInto

\* The columns before and after a change of one column's values in the rows H.
GivenTable(cols, c, H, value) == [cols EXCEPT ![c].data = Given(cols[c].data, H, value)]

\* The data of the columns then.
GivenData(cols, changed, c, H, value) ==
    \A d \in Columns : changed[d].data = IF d = c THEN Given(cols[c].data, H, value) ELSE cols[d].data

\* What such a change does to the columns.
LEMMA GivenCells ==
    ASSUME NEW n \in Nat, NEW cols, GoodTable(cols, n), NEW c \in Columns, NEW H \in SUBSET Cells(n), NEW value
    PROVE  LET changed == GivenTable(cols, c, H, value)
           IN  /\ GivenData(cols, changed, c, H, value)
               /\ BagOfRows(changed, Cells(n)) =
                      (BagOfRows(cols, Cells(n)) (-) BagOfRows(cols, H)) (+) BagOfRows(changed, H)
<1> DEFINE changed == GivenTable(cols, c, H, value)
<1>1. \A d \in Columns : changed[d].data = IF d = c THEN Given(cols[c].data, H, value) ELSE cols[d].data
    <2>1. DOMAIN cols = Columns /\ \A d \in Columns : "data" \in DOMAIN cols[d]
        BY DEF GoodTable, Good, Fine, Typed, IsColumn
    <2>2. [cols[c] EXCEPT !.data = Given(cols[c].data, H, value)].data = Given(cols[c].data, H, value)
        BY <2>1
    <2>3. changed = [cols EXCEPT ![c] = [cols[c] EXCEPT !.data = Given(cols[c].data, H, value)]]
        BY DEF GivenTable
    <2> HIDE DEF changed
    <2> QED
        BY <2>1, <2>2, <2>3
<1> HIDE DEF changed
<1>2. \A i \in Cells(n) \ H, d \in Columns : cols[d].data[i] = changed[d].data[i]
    <2>1. \A d \in Columns : DOMAIN cols[d].data = Cells(n)
        BY DEF GoodTable, Good, Fine, Typed
    <2>2. \A i \in Cells(n) \ H : Given(cols[c].data, H, value)[i] = cols[c].data[i]
        BY <2>1 DEF Given
    <2> QED
        BY <1>1, <2>2
<1>3. BagOfRows(changed, Cells(n)) = (BagOfRows(cols, Cells(n)) (-) BagOfRows(cols, H)) (+) BagOfRows(changed, H)
    BY <1>2, ChangedRows
<1> QED
    BY <1>1, <1>3 DEF changed, GivenData

\* An update leaves a good table with the rows changed, in places of their own.
Revised(cols, changed, new, n) ==
    /\ GoodTable(new, n)
    /\ \A d \in Columns : /\ new[d].index.type = cols[d].index.type
                          /\ new[d].index.built = cols[d].index.built
    /\ BagOfRows(new, Cells(n)) = BagOfRows(changed, Cells(n))

\* What the conditions of an update through a clustered column say.
LEMMA UpdateKeptClustered ==
    ASSUME NEW n \in Nat, n = table_length, GoodTable(columns, n), Lone(columns),
           NEW c \in Columns, columns[c].index.type = "CLUSTER_SORT", NEW value, UpdateKept(c, value)
    PROVE  /\ columns[c].index.built
           /\ Len(handle.positions) <= 1
           /\ handle.positions # << >> =>
                  \/ value >= Cell(columns[c].data, handle.positions[1], value)
                  \/ SearchFits(columns[c].data, n, value)
           /\ \A d \in Columns : d # c =>
                  /\ columns[d].index.type = "CLUSTER_SORT" => ~ columns[d].index.built
                  /\ columns[d].index.type = "UNCLUSTER_SORT" =>
                         columns[d].index.built /\ Differ(columns[d].data, n)
<1>1. \A d \in Columns : columns[d].size = n
    BY DEF GoodTable, Good, Fine
<1>2. Has(c, ClusteredTypes) /\ ~ Has(c, {"NONE"})
    BY DEF Has, ClusteredTypes
<1>3. /\ columns[c].index.built /\ Len(handle.positions) <= 1
      /\ handle.positions # << >> =>
             \/ value >= Cell(columns[c].data, handle.positions[1], value)
             \/ SearchFits(columns[c].data, n, value)
      /\ \A d \in Columns \ {c} : Has(d, {"UNCLUSTER_SORT"}) =>
             columns[d].index.built /\ AllUnique(columns[d])
    BY <1>1, <1>2 DEF UpdateKept
<1>4. ASSUME NEW d \in Columns, d # c, columns[d].index.type = "CLUSTER_SORT" PROVE ~ columns[d].index.built
    BY <1>3, <1>4 DEF Lone
<1>5. ASSUME NEW d \in Columns, d # c, columns[d].index.type = "UNCLUSTER_SORT"
      PROVE  columns[d].index.built /\ Differ(columns[d].data, n)
    <2>1. columns[d].index.built /\ AllUnique(columns[d])
        BY <1>3, <1>5 DEF Has
    <2> QED
        BY <1>1, <2>1 DEF AllUnique, Unique, Differ
<1> QED
    BY <1>3, <1>4, <1>5

\* db_update through a clustered column.
LEMMA UpdateClusteredGood ==
    ASSUME NEW n \in Nat, n = table_length, GoodTable(columns, n), Lone(columns), TypedTable(columns),
           handle.positions \in Seq(Int), GoodHandle,
           NEW c \in Columns, columns[c].index.type = "CLUSTER_SORT", NEW value \in Int, UpdateKept(c, value),
           NEW H, H = HandleRows, NEW behind \in Int
    PROVE  Revised(columns, GivenTable(columns, c, H, value), UpdateClustered(columns, c, value, behind), n)
<1>0. /\ \A i \in DOMAIN handle.positions : handle.positions[i] \in Cells(n)
      /\ H \in SUBSET Cells(n)
    BY DEF GoodHandle, HandleRows
<1>1. PICK cols : cols = columns
    OBVIOUS
<1>2. PICK col : col = cols[c]
    OBVIOUS
<1>3. /\ GoodTable(cols, n) /\ Good(col, n) /\ Typed(col) /\ col.size = n /\ col.index.type = "CLUSTER_SORT"
      /\ col.index.fault = "none" /\ TypedTable(cols)
    BY <1>1, <1>2 DEF GoodTable, Good, Fine
<1>4. /\ col.index.built
      /\ Len(handle.positions) <= 1
      /\ handle.positions # << >> =>
             \/ value >= Cell(col.data, handle.positions[1], value)
             \/ SearchFits(col.data, n, value)
      /\ \A d \in Columns : d # c =>
             /\ cols[d].index.type = "CLUSTER_SORT" => ~ cols[d].index.built
             /\ cols[d].index.type = "UNCLUSTER_SORT" => cols[d].index.built /\ Differ(cols[d].data, n)
    BY <1>1, <1>2, UpdateKeptClustered
<1>5. Ascends(col.data, n)
    BY <1>3, <1>4 DEF Good, Fits
<1>6. \E g, places : Settles(col, n, value, behind, g, places)
    BY <1>0, <1>3, <1>4, <1>5, PlacesFew
<1>7. PICK g, places : Settles(col, n, value, behind, g, places)
    BY <1>6
<1>8. PICK data : data = Shuffled(Given(col.data, H, value), n, g)
    OBVIOUS
<1>9. /\ Shuffles(g, n) /\ Moves(places, n, g, behind) /\ Ascends(data, n)
      /\ SortPlaces(col, value, behind) = [data |-> data, places |-> places]
      /\ \A k \in DOMAIN places : places[k] # Unset
    BY <1>7, <1>8 DEF Settles
<1>10. PICK u : u = [data |-> data, places |-> places]
    OBVIOUS
<1>11. u.data = data /\ u.places = places
    BY <1>10
<1>12. PICK new : new = FollowedTable(cols, c, u, behind)
    OBVIOUS
<1>13. UpdateClustered(columns, c, value, behind) = new
    <2>1. UpdateClustered(cols, c, value, behind) = Followed(cols, c, u, behind)
        BY <1>2, <1>3, <1>9, <1>10, UpdateClusteredIs
    <2>2. Followed(cols, c, u, behind) = new
        BY <1>2, <1>3, <1>4, <1>9, <1>11, <1>12 DEF Followed
    <2> QED
        BY <1>1, <2>1, <2>2
<1>14. new = [d \in Columns |-> IF d = c THEN [col EXCEPT !.data = data] ELSE Follows(cols[d], places, behind)]
    BY <1>2, <1>11, <1>12 DEF FollowedTable
<1>15. LET mine == [col EXCEPT !.data = data]
       IN  Good(mine, n) /\ mine.capacity = col.capacity /\ mine.data = data /\ mine.index = col.index
    <2> DEFINE mine == [col EXCEPT !.data = data]
    <2>1. data \in [Cells(n) -> Int]
        BY <1>9 DEF Ascends
    <2>2. /\ Typed(mine) /\ mine.index = col.index /\ mine.data = data /\ mine.size = n
          /\ mine.capacity = col.capacity /\ mine.room = col.room /\ mine.fault = col.fault
        BY <1>3, <2>1 DEF Typed, IsColumn
    <2> HIDE DEF mine
    <2>3. Fits(mine.index, mine.data, n)
        BY <1>3, <1>9, <2>2 DEF Fits
    <2>4. Good(mine, n)
        BY <1>3, <2>2, <2>3 DEF Good, Fine
    <2> QED
        BY <2>2, <2>4 DEF mine
<1>16. ASSUME NEW d \in Columns, d # c
       PROVE  /\ Good(new[d], n) /\ new[d].capacity = cols[d].capacity
              /\ new[d].data = Shuffled(cols[d].data, n, g)
              /\ new[d].index.type = cols[d].index.type /\ new[d].index.built = cols[d].index.built
    <2>1. PICK old : old = cols[d]
        OBVIOUS
    <2>2. Good(old, n)
        BY <1>3, <2>1 DEF GoodTable
    <2>3. /\ old.index.type = "CLUSTER_SORT" => ~ old.index.built
          /\ old.index.type = "UNCLUSTER_SORT" => old.index.built /\ Differ(old.data, n)
        BY <1>4, <1>16, <2>1
    <2>4. LET e == Follows(old, places, behind)
          IN  /\ Good(e, n) /\ e.capacity = old.capacity /\ e.data = Shuffled(old.data, n, g)
              /\ e.index.type = old.index.type /\ e.index.built = old.index.built
        BY <1>9, <2>2, <2>3, FollowsGood
    <2>5. new[d] = Follows(old, places, behind)
        BY <1>14, <1>16, <2>1
    <2> QED
        BY <2>1, <2>4, <2>5
<1>17. /\ Good(new[c], n) /\ new[c].capacity = cols[c].capacity /\ new[c].data = data /\ new[c].index = cols[c].index
    BY <1>2, <1>14, <1>15
<1>18. DOMAIN new = Columns /\ 1 \in Columns
    BY <1>14, TableAssumption DEF Columns
<1>19. GoodTable(new, n)
    <2>1. \A d \in Columns : Good(new[d], n) /\ new[d].capacity = cols[d].capacity
        BY <1>16, <1>17
    <2>2. \A d \in Columns : cols[d].capacity = cols[1].capacity
        BY <1>3 DEF GoodTable
    <2> QED
        BY <1>18, <2>1, <2>2 DEF GoodTable
<1>20. PICK changed : changed = GivenTable(cols, c, H, value)
    OBVIOUS
<1>21. \A d \in Columns : changed[d].data = IF d = c THEN Given(cols[c].data, H, value) ELSE cols[d].data
    <2>1. GivenData(cols, changed, c, H, value)
        BY <1>0, <1>3, <1>20, GivenCells
    <2> QED
        BY <2>1 DEF GivenData
<1>22. \A d \in Columns : new[d].data = Shuffled(changed[d].data, n, g)
    BY <1>2, <1>8, <1>16, <1>17, <1>21
<1>23. BagOfRows(new, Cells(n)) = BagOfRows(changed, Cells(n))
    BY <1>9, <1>22, ShuffledRows
<1>24. \A d \in Columns : /\ new[d].index.type = cols[d].index.type
                          /\ new[d].index.built = cols[d].index.built
    BY <1>16, <1>17
<1> QED
    BY <1>1, <1>13, <1>19, <1>20, <1>23, <1>24 DEF Revised

\* An update where the rows stay.
LEMMA UpdateInPlaceGood ==
    ASSUME NEW n \in Nat, NEW col, Good(col, n), col.index.type \in {"NONE", "UNCLUSTER_SORT"},
           col.index.type = "UNCLUSTER_SORT" => col.index.built /\ handle.positions = << >>,
           NEW value \in Int, NEW behind \in Int, handle.positions \in Seq(Int),
           NEW H \in SUBSET Cells(n), H = HandleRows
    PROVE  LET new == UpdateInPlace(col, value, behind)
           IN  /\ Good(new, n) /\ new.capacity = col.capacity /\ new.data = Given(col.data, H, value)
               /\ new.index.type = col.index.type /\ new.index.built = col.index.built
<1> DEFINE p == handle.positions
           fit == SortUpdate(col.index, col.data, col.size, p, value, behind)
           idx == IF col.index.type = "NONE" THEN col.index ELSE fit
           data == Given(col.data, H, value)
           new == [col EXCEPT !.index = idx, !.data = data]
<1>1. /\ Typed(col) /\ Plain(col.index) /\ col.size = n /\ col.data \in [Cells(n) -> Int]
      /\ col.index.fault = "none" /\ col.fault = "none" /\ n <= col.room /\ n <= col.capacity
    BY DEF Good, Fine, Typed
<1>2. UpdateInPlace(col, value, behind) = new
    <2>1. ~ (\E i \in H : i >= col.room)
        <3>1. \A i \in H : i \in Int /\ i < n
            BY DEF Cells
        <3>2. col.room \in Int
            BY <1>1 DEF Typed
        <3> QED
            BY <1>1, <3>1, <3>2
    <2>2. UpdateInPlace(col, value, behind) = WithFault(new, \E i \in H : i >= col.room)
        BY DEF UpdateInPlace, Given
    <2> HIDE DEF new
    <2> QED
        BY <2>1, <2>2 DEF WithFault
<1>3. data \in [Cells(n) -> Int]
    BY <1>1 DEF Given
<1>4. /\ Plain(idx) /\ idx.type = col.index.type /\ idx.built = col.index.built /\ idx.fault = col.index.fault
      /\ idx.built => Fits(idx, data, n)
    <2>1. CASE col.index.type = "NONE"
        <3>1. ~ col.index.built
            BY <2>1 DEF Good, Fits
        <3> QED
            BY <1>1, <2>1, <3>1
    <2>2. CASE col.index.type = "UNCLUSTER_SORT"
        <3>1. Mirrors(col.index.copy, col.index.positions, col.data, n) /\ Len(p) = 0
            BY <2>2 DEF Good, Fits
        <3>2. /\ fit.type = col.index.type /\ fit.built = col.index.built /\ fit.fault = col.index.fault
              /\ fit.copy = col.index.copy /\ fit.positions = col.index.positions
            BY <1>1, <3>1, SortUpdateNone
        <3>3. Plain(fit)
            BY <1>1, <3>1, SortUpdatePlain, FunctionArray
        <3>4. data = col.data
            <4>1. H = {}
                BY <2>2 DEF HandleRows
            <4> QED
                BY <1>1, <4>1 DEF Given
        <3> HIDE DEF fit
        <3> QED
            BY <2>2, <3>1, <3>2, <3>3, <3>4 DEF Fits
    <2> QED
        BY <2>1, <2>2
<1> HIDE DEF idx, data
<1>5. /\ Typed(new) /\ new.index = idx /\ new.data = data /\ new.size = n /\ new.capacity = col.capacity
      /\ new.room = col.room /\ new.fault = col.fault
    BY <1>1, <1>3, <1>4 DEF Typed, IsColumn, Plain
<1> HIDE DEF new
<1>6. Good(new, n)
    BY <1>1, <1>4, <1>5 DEF Good, Fine
<1> QED
    BY <1>2, <1>4, <1>5, <1>6 DEF data

\* db_update of a column that no clustered index orders.
LEMMA UpdatePlainGood ==
    ASSUME NEW n \in Nat, n = table_length, GoodTable(columns, n),
           handle.positions \in Seq(Int), GoodHandle,
           NEW c \in Columns, columns[c].index.type \in {"NONE", "UNCLUSTER_SORT"},
           NEW value \in Int, UpdateKept(c, value),
           NEW H, H = HandleRows, NEW behind \in Int
    PROVE  LET new == [columns EXCEPT ![c] = UpdateInPlace(@, value, behind)]
           IN  Revised(columns, GivenTable(columns, c, H, value), new, n)
<1>0. H \in SUBSET Cells(n)
    BY DEF GoodHandle, HandleRows
<1>1. PICK cols : cols = columns
    OBVIOUS
<1>2. PICK col : col = cols[c]
    OBVIOUS
<1>3. GoodTable(cols, n) /\ Good(col, n) /\ col.index.type \in {"NONE", "UNCLUSTER_SORT"} /\ DOMAIN cols = Columns
    BY <1>1, <1>2 DEF GoodTable
<1>4. col.index.type = "UNCLUSTER_SORT" => col.index.built /\ handle.positions = << >>
    <2>1. Has(c, {"NONE"}) \/ columns[c].index.built
        BY DEF UpdateKept
    <2>2. Has(c, {"UNCLUSTER_SORT"}) => handle.positions = << >>
        BY DEF UpdateKept
    <2> QED
        BY <1>1, <1>2, <2>1, <2>2 DEF Has
<1>5. PICK e : e = UpdateInPlace(col, value, behind)
    OBVIOUS
<1>6. /\ Good(e, n) /\ e.capacity = col.capacity /\ e.data = Given(col.data, H, value)
      /\ e.index.type = col.index.type /\ e.index.built = col.index.built
    BY <1>0, <1>3, <1>4, <1>5, UpdateInPlaceGood, ZenonT(60)
<1>7. PICK new : new = [cols EXCEPT ![c] = e]
    OBVIOUS
<1>8. [columns EXCEPT ![c] = UpdateInPlace(@, value, behind)] = new
    BY <1>1, <1>2, <1>5, <1>7
<1>9. new[c] = e /\ \A d \in Columns : d # c => new[d] = cols[d]
    BY <1>3, <1>7
<1>10. GoodTable(new, n)
    <2>1. DOMAIN new = Columns /\ 1 \in Columns
        BY <1>3, <1>7, TableAssumption DEF Columns
    <2>2. \A d \in Columns : Good(new[d], n) /\ new[d].capacity = cols[d].capacity
        BY <1>2, <1>3, <1>6, <1>9 DEF GoodTable
    <2>3. \A d \in Columns : cols[d].capacity = cols[1].capacity
        BY <1>3 DEF GoodTable
    <2> QED
        BY <2>1, <2>2, <2>3 DEF GoodTable
<1>11. PICK changed : changed = GivenTable(cols, c, H, value)
    OBVIOUS
<1>12. GivenData(cols, changed, c, H, value)
    BY <1>0, <1>3, <1>11, GivenCells
<1>13. \A d \in Columns : new[d].data = changed[d].data
    BY <1>2, <1>6, <1>9, <1>12 DEF GivenData
<1>14. \A i \in Cells(n), d \in Columns : new[d].data[i] = changed[d].data[i]
    BY <1>13
<1>15. BagOfRows(new, Cells(n)) = BagOfRows(changed, Cells(n))
    BY <1>14, CellsFinite, RowsSame
<1>16. \A d \in Columns : new[d].index.type = cols[d].index.type /\ new[d].index.built = cols[d].index.built
    BY <1>2, <1>6, <1>9
<1> QED
    BY <1>1, <1>8, <1>10, <1>11, <1>15, <1>16 DEF Revised

\* db_update.
LEMMA UpdateKeeps ==
    ASSUME TypeInv, KeptInv, NEW c \in Columns, NEW value \in Values, Update(c, value)
    PROVE  KeptInv'
<1> SUFFICES ASSUME kept' PROVE KeptInv'
    BY DEF KeptInv
<1>1. /\ ~ Faulty /\ Done(Has(c, ClusteredTypes)) /\ table_length' = table_length
      /\ kept' = (kept /\ UpdateKept(c, value))
    BY DEF Update, Ready
<1>2. PICK behind \in Junk :
          columns' = IF Has(c, ClusteredTypes) THEN UpdateClustered(columns, c, value, behind)
                     ELSE [columns EXCEPT ![c] = UpdateInPlace(@, value, behind)]
    BY DEF Update
<1>3. kept /\ UpdateKept(c, value)
    BY <1>1
<1>4. PICK n, H : n = table_length /\ H = HandleRows
    OBVIOUS
<1>5. /\ n \in Nat /\ GoodTable(columns, n) /\ Lone(columns) /\ TypedTable(columns) /\ Counted(columns)
      /\ BagOfRows(columns, Cells(n)) = rows /\ handle.fresh /\ GoodHandle
      /\ handle.positions \in Seq(Int) /\ (handle.null => handle.positions = << >>)
    BY <1>1, <1>3, <1>4, Before DEF KeptInv, UpdateKept, TypeInv
<1>6. \A i \in DOMAIN handle.positions : handle.positions[i] \in Cells(n)
    BY <1>4, <1>5 DEF GoodHandle
<1>7. H \in SUBSET Cells(n)
    BY <1>4, <1>6 DEF HandleRows
<1>8. value \in Int /\ behind \in Int
    BY TableAssumption
<1>9. PICK cols, new : cols = columns /\ new = columns'
    OBVIOUS
<1>10. PICK changed : changed = GivenTable(cols, c, H, value)
    OBVIOUS
<1>11. Revised(cols, changed, new, n)
    <2>1. CASE Has(c, ClusteredTypes)
        <3>1. columns[c].index.type = "CLUSTER_SORT"
            BY <1>5, <2>1 DEF Has, ClusteredTypes, TypedTable, Typed, Plain, SortKinds
        <3>2. Revised(columns, GivenTable(columns, c, H, value), UpdateClustered(columns, c, value, behind), n)
            BY <1>3, <1>4, <1>5, <1>8, <3>1, UpdateClusteredGood
        <3>3. columns' = UpdateClustered(columns, c, value, behind)
            BY <1>2, <2>1
        <3> QED
            BY <1>9, <1>10, <3>2, <3>3
    <2>2. CASE ~ Has(c, ClusteredTypes)
        <3>1. columns[c].index.type \in {"NONE", "UNCLUSTER_SORT"}
            BY <1>5, <2>2 DEF Has, ClusteredTypes, TypedTable, Typed, Plain, SortKinds
        <3>2. PICK e : e = [columns EXCEPT ![c] = UpdateInPlace(@, value, behind)]
            OBVIOUS
        <3>3. Revised(columns, GivenTable(columns, c, H, value), e, n)
            BY <1>3, <1>4, <1>5, <1>8, <3>1, <3>2, UpdatePlainGood
        <3>4. columns' = e
            BY <1>2, <2>2, <3>2
        <3> QED
            BY <1>9, <1>10, <3>3, <3>4
    <2> QED
        BY <2>1, <2>2
<1>12. rows' = BagOfRows(new, Cells(n))
    <2>1. rows' = (rows (-) BagOfRows(columns, HandleRows))
                  (+) BagOfRows([columns EXCEPT ![c].data =
                                    [i \in DOMAIN @ |-> IF i \in HandleRows THEN value ELSE @[i]]], HandleRows)
        BY DEF Update
    <2>2. [columns EXCEPT ![c].data = [i \in DOMAIN @ |-> IF i \in HandleRows THEN value ELSE @[i]]] = changed
        BY <1>4, <1>9, <1>10 DEF GivenTable, Given
    <2>3. rows' = (BagOfRows(cols, Cells(n)) (-) BagOfRows(cols, H)) (+) BagOfRows(changed, H)
        BY <1>4, <1>5, <1>9, <2>1, <2>2
    <2>4. BagOfRows(changed, Cells(n)) =
              (BagOfRows(cols, Cells(n)) (-) BagOfRows(cols, H)) (+) BagOfRows(changed, H)
        BY <1>5, <1>7, <1>9, <1>10, GivenCells
    <2> QED
        BY <1>11, <2>3, <2>4 DEF Revised
<1>13. Lone(new)
    <2>1. SameTypes(cols, new) /\ \A d \in Columns : new[d].index.built => cols[d].index.built
        BY <1>11 DEF Revised, SameTypes
    <2> QED
        BY <1>5, <1>9, <2>1, SameLone
<1>14. handle'.positions = handle.positions /\ handle'.null = handle.null
    <2>1. DOMAIN handle = {"positions", "null", "fresh"}
        BY DEF TypeInv, SizeInv
    <2>2. PICK b : handle' = [handle EXCEPT !.fresh = b]
        BY <1>1 DEF Done
    <2> QED
        BY <2>1, <2>2
<1>15. GoodHandle'
    BY <1>1, <1>5, <1>14 DEF GoodHandle
<1> QED
    BY <1>1, <1>4, <1>5, <1>9, <1>11, <1>12, <1>13, <1>14, <1>15 DEF KeptInv, Revised

\* A new table.
LEMMA InitKept ==
    ASSUME Init
    PROVE  KeptInv
<1>1. table_length = 0 /\ columns = [c \in Columns |-> NewColumn] /\ ~ handle.fresh /\ rows = EmptyBag
    BY DEF Init
<1>2. Good(NewColumn, 0) /\ ~ NewColumn.index.built
    <2>1. NewColumn.index = NewIndex("NONE") /\ NewColumn.fault = "none" /\ NewColumn.size = 0
        BY DEF NewColumn
    <2>2. ~ NewIndex("NONE").built /\ NewIndex("NONE").fault = "none"
        BY DEF NewIndex
    <2>3. Typed(NewColumn) /\ NewColumn.capacity \in Nat /\ NewColumn.room \in Nat
        BY NewColumnTyped DEF Typed
    <2> QED
        BY <2>1, <2>2, <2>3 DEF Good, Fine
<1>3. GoodTable(columns, table_length)
    <2>1. 1 \in Columns
        BY TableAssumption DEF Columns
    <2> QED
        BY <1>1, <1>2, <2>1 DEF GoodTable
<1>4. Lone(columns)
    BY <1>1, <1>2 DEF Lone
<1>5. BagOfRows(columns, Cells(table_length)) = rows
    <2>1. Cells(0) = {}
        BY DEF Cells
    <2>2. \A cols : BagOfRows(cols, {}) = EmptyBag
        BY DEF BagOfRows, EmptyBag, SetToBag
    <2> QED
        BY <1>1, <2>1, <2>2
<1> QED
    BY <1>1, <1>3, <1>4, <1>5 DEF KeptInv

\* Every step keeps it.
LEMMA StepKept ==
    ASSUME NoTree, TypeInv, KeptInv, [Next]_vars
    PROVE  KeptInv'
<1>1. CASE UNCHANGED vars
    BY <1>1 DEF vars, KeptInv, GoodHandle
<1>2. ASSUME NEW c \in Columns, NEW b \in Bounds, NEW batched \in BOOLEAN, Select(c, b[1], b[2], batched)
      PROVE  KeptInv'
    <2>1. b[1] \in Int /\ b[2] \in Int
        BY TableAssumption
    <2> QED
        BY <1>2, <2>1, SelectKept
<1>3. CASE Next
    BY <1>2, <1>3, CreateIndexKept, LoadKeeps, InsertKeeps, DeleteKeeps, UpdateKeeps DEF Next
<1> QED
    BY <1>1, <1>3

\* In a table without trees every command whose conditions held so far leaves
\* columns and indexes that agree, and the rows it should (execute.c:334-640).
THEOREM KeptInvariance ==
    ASSUME NoTree
    PROVE  Spec => []KeptInv
<1>1. Init => TypeInv /\ KeptInv
    BY InitTyped, InitKept
<1>2. TypeInv /\ KeptInv /\ [Next]_vars => (TypeInv /\ KeptInv)'
    BY StepTyped, StepKept
<1> QED
    BY <1>1, <1>2, PTL DEF Spec

\* Without trees no command writes behind an array or follows a pointer that
\* nobody set while the conditions are kept.
THEOREM KeptSafety ==
    ASSUME NoTree
    PROVE  Spec => []KeptIsSafe
<1>1. KeptInv => KeptIsSafe
    BY KeptHealthy DEF KeptIsSafe
<1> QED
    BY <1>1, KeptInvariance, PTL

\* Without trees the table holds the rows that were loaded and inserted, as
\* updated and without the deleted ones, while the conditions are kept.
THEOREM RowsStay ==
    ASSUME NoTree
    PROVE  Spec => []RowsKept
<1>1. KeptInv => RowsKept
    BY DEF KeptInv, RowsKept
<1> QED
    BY <1>1, KeptInvariance, PTL

\* Without trees every index agrees with its column while the conditions are
\* kept: the sorted copy and its positions, and the order of a clustered column.
THEOREM SortIndexesSound ==
    ASSUME NoTree
    PROVE  Spec => []IndexesSound
<1>1. KeptInv => IndexesSound
    <2> SUFFICES ASSUME KeptInv, kept, NEW c \in Columns, columns[c].index.built
                 PROVE  LET col == columns[c]
                            idx == col.index
                        IN  CASE idx.type = "UNCLUSTER_SORT" -> SortIndexSound(idx, col)
                              [] idx.type = "UNCLUSTER_BTREE" -> TreeIndexSound(idx.tree, col)
                              [] idx.type = "CLUSTER_SORT" -> SortedArray(col.data, col.size)
                              [] idx.type = "CLUSTER_BTREE" -> ClusterTreeSound(idx.tree, col)
        BY Zenon DEF IndexesSound
    <2>1. PICK col, n : col = columns[c] /\ n = table_length
        OBVIOUS
    <2>2. Good(col, n)
        BY <2>1 DEF KeptInv, GoodTable
    <2>3. /\ col.size = n /\ Fits(col.index, col.data, n)
          /\ col.index.type \in {"CLUSTER_SORT", "UNCLUSTER_SORT"}
        BY <2>1, <2>2 DEF Good, Fine, Typed, Plain, SortKinds, Fits
    <2>4. \A i \in Cells(n) : i \in Int
        BY DEF Cells
    <2>5. CASE col.index.type = "UNCLUSTER_SORT"
        <3>1. SortIndexSound(col.index, col)
            BY <2>3, <2>4, <2>5 DEF Fits, Mirrors, Ascends, SortIndexSound, SortedArray
        <3> QED
            BY <2>1, <2>5, <3>1
    <2>6. CASE col.index.type = "CLUSTER_SORT"
        <3>1. SortedArray(col.data, col.size)
            BY <2>3, <2>4, <2>6 DEF Fits, Ascends, SortedArray
        <3> QED
            BY <2>1, <2>6, <3>1
    <2> QED
        BY <2>3, <2>5, <2>6
<1> QED
    BY <1>1, KeptInvariance, PTL
===============================================================================
