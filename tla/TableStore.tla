------------------------------ MODULE TableStore ------------------------------
(***************************************************************************)
(* A table: its columns and their indexes under the commands that load,    *)
(* insert, update and delete rows.  Rows to update or delete come from a   *)
(* handle, the answer of an earlier select.                                *)
(*                                                                         *)
(* The code gets these operations right only under conditions that it does *)
(* not check.  They are stated below, operation by operation (...Kept);    *)
(* "kept" says that they held so far, and "rows" which rows the table      *)
(* should have then.  The behaviour ends at the first fault.               *)
(***************************************************************************)
EXTENDS Indexes, Bags, FiniteSets

CONSTANTS
    ColCount,       \* columns, all created before the first row
    Capacity,       \* cells of a new column: 32 in the code
    Files,          \* the data of a load: sequences of rows
    NewRows,        \* rows to insert
    Values,         \* values to update with
    Bounds,         \* <<lo, hi>> of the selects
    Types,          \* Types[c]: index types that column c may get
    Junk,           \* what an operation may find behind an array
    MaxCommands     \* bound of the model: commands that change the table

VARIABLES
    table_length,
    columns,        \* the columns with their arrays and indexes
    handle,         \* the position vector that the client holds
    kept, rows, commands

vars == <<table_length, columns, handle, kept, rows, commands>>

Columns == 1..ColCount

ASSUME TableAssumption ==
    /\ ColCount \in Nat \ {0}
    /\ Capacity \in Nat \ {0}
    /\ NewRows \subseteq [Columns -> Int]
    /\ \A f \in Files : f \in Seq([Columns -> Int])
    /\ Values \subseteq Int /\ Junk \subseteq Int
    /\ Bounds \subseteq (Int \X Int) \ {<<INVALID_VAL, INVALID_VAL>>}
    /\ Types \in [Columns -> SUBSET (ClusteredTypes \union UnclusteredTypes)]
    /\ MaxCommands \in Nat

NewColumn ==
    [data |-> Nothing, size |-> 0, capacity |-> Capacity, room |-> Capacity,
     index |-> NewIndex("NONE"), fault |-> "none"]

Has(c, types) == columns[c].index.type \in types
Clusters == {c \in Columns : Has(c, ClusteredTypes)}
Faulty == \E c \in Columns : columns[c].fault # "none" \/ columns[c].index.fault # "none"

WithFault(col, bad) == IF bad THEN [col EXCEPT !.fault = "overflow"] ELSE col

\* The rows as a bag.
RowAt(cols, i) == [c \in Columns |-> cols[c].data[i]]
BagOfRows(cols, places) ==
    [r \in {RowAt(cols, i) : i \in places} |-> Cardinality({i \in places : RowAt(cols, i) = r})]
BagOfFile(f) ==
    [r \in {f[i] : i \in DOMAIN f} |-> Cardinality({i \in DOMAIN f : f[i] = r})]
HandleRows == {handle.positions[k] : k \in DOMAIN handle.positions}

Init ==
    /\ table_length = 0
    /\ columns = [c \in Columns |-> NewColumn]
    /\ handle = [positions |-> << >>, null |-> FALSE, fresh |-> FALSE]
    /\ kept = TRUE
    /\ rows = EmptyBag
    /\ commands = 0

Ready == commands < MaxCommands /\ ~ Faulty

\* After a command: the handle stays right when the command moved no row.
Done(moves) ==
    /\ commands' = commands + 1
    /\ handle' = [handle EXCEPT !.fresh = @ /\ ~ moves]

-------------------------------------------------------------------------------
(* create(idx, ...): nothing is built before the next load. *)

CreateIndex(c, type) ==
    /\ Ready
    /\ Has(c, {"NONE"})
    /\ columns' = [columns EXCEPT ![c].index = NewIndex(type)]
    /\ UNCHANGED <<table_length, handle, kept, rows, commands>>

-------------------------------------------------------------------------------
(* select *)

InRange(v, lo, hi) == (lo # INVALID_VAL => v >= lo) /\ (hi # INVALID_VAL => v < hi)

\* The places that a scan finds, in increasing order.
Scan(col, lo, hi) ==
    LET found[n \in 0..col.size] ==
            IF n = 0 THEN << >>
            ELSE LET f == found[n - 1]
                 IN  IF InRange(col.data[n - 1], lo, hi) THEN Append(f, n - 1) ELSE f
    IN  found[col.size]

\* A select in a batch scans the column, another one uses its index.
SelectAnswer(col, lo, hi, batched, behind) ==
    IF batched \/ col.index.type = "NONE" THEN Answered(Scan(col, lo, hi))
    ELSE Answer(col.index, col.data, col.size, lo, hi, behind)

\* Positions that are not needed are given back; of an empty answer nothing
\* is left.
Select(c, lo, hi, batched) ==
    /\ Ready
    /\ \E behind \in Junk :
           LET a == SelectAnswer(columns[c], lo, hi, batched, behind)
           IN  /\ columns' = IF a.ok THEN columns ELSE [columns EXCEPT ![c].index.fault = "crash"]
               /\ handle' = [positions |-> a.positions, fresh |-> TRUE,
                             null |-> a.positions = << >> /\ columns[c].size > 0]
    /\ kept' = (kept /\ \/ batched \/ Has(c, {"NONE"})
                        \/ /\ Has(c, {"CLUSTER_SORT", "UNCLUSTER_SORT"})
                           /\ columns[c].index.built /\ columns[c].size > 0)
    /\ UNCHANGED <<table_length, rows, commands>>

-------------------------------------------------------------------------------
(* db_load *)

\* The capacity after n more cells: it doubles whenever it is reached.
Grown(capacity, size, n) ==
    LET grown[k \in 0..n] ==
            IF k = 0 THEN capacity
            ELSE LET g == grown[k - 1] IN IF size + k - 1 = g THEN 2 * g ELSE g
    IN  grown[n]

\* Cells up to the capacity are written before there is more room.
Extended(col, values) ==
    LET n == Len(values)
        capacity == Grown(col.capacity, col.size, n)
        filled == IF col.size + n < col.capacity THEN col.size + n ELSE col.capacity
    IN  WithFault([col EXCEPT
            !.data = [i \in Cells(col.size + n) |-> IF i < col.size THEN @[i] ELSE values[i - col.size + 1]],
            !.size = @ + n,
            !.capacity = capacity,
            !.room = IF capacity = col.capacity THEN @ ELSE capacity],
            filled > col.room)

\* propogate_sort_order: the new array has no more cells than rows.
Reordered(col, order, behind) ==
    [col EXCEPT !.data = [i \in Cells(col.size) |-> Cell(@, Cell(order, i, behind), behind)],
                !.room = col.size]

DefectBuilt(cols, c, behind) ==
    LET col == cols[c]
        data == SortedValues(SortUnits(col.data, col.size))
    IN  IF col.index.type \in UnclusteredTypes
        THEN [cols EXCEPT ![c].index = BuildUnclustered(@, col.data, col.size)]
        ELSE [cols EXCEPT ![c].data = data, ![c].index = BuildClustered(@, data, col.size, behind)]
\* db_create_index: a clustered one puts every column in its order.
Built(cols, c, behind) ==
    LET col == cols[c]
        units == SortUnits(col.data, col.size)
        data == SortedValues(units)
    IN  IF col.index.type \in UnclusteredTypes
        THEN [cols EXCEPT ![c].index = BuildUnclustered(@, col.data, col.size)]
        ELSE [d \in Columns |->
                  IF d = c THEN [col EXCEPT !.data = data,
                                            !.index = BuildClustered(@, data, col.size, behind)]
                  ELSE Reordered(cols[d], SortedPositions(units), behind)]

AllBuilt(cols, behind) ==
    LET built[c \in 0..ColCount] ==
            IF c = 0 THEN cols
            ELSE LET b == built[c - 1]
                 IN  IF b[c].index.type = "NONE" THEN b ELSE Built(b, c, behind)
    IN  built[ColCount]

\* A clustered index is alone and on a column before the other indexes, its
\* tree has full leaves only, and the arrays have room.
LoadKept(n, last) ==
    /\ last \/ \A c \in Columns : Has(c, {"NONE"})
    /\ Cardinality(Clusters) <= 1
    /\ \A c \in Clusters, d \in Columns : Has(d, UnclusteredTypes) => c < d
    /\ \A c \in Clusters :
           Has(c, {"CLUSTER_BTREE"}) => (columns[c].size + n) % Half = 0
    /\ \A c \in Columns : columns[c].room = columns[c].capacity
                              \/ columns[c].size = columns[c].capacity

\* The rows of one message of a load; the indexes are built with the last.
\* A file without rows is loaded as a row of a 0 and of unset values.
Load(file, last) ==
    /\ Ready
    /\ \E behind \in Junk :
           LET read == IF file # << >> THEN file
                       ELSE <<[c \in Columns |-> IF c = 1 THEN 0 ELSE behind]>>
               loaded == [c \in Columns |-> Extended(columns[c], [k \in DOMAIN read |-> read[k][c]])]
           IN  /\ columns' = IF last THEN AllBuilt(loaded, behind) ELSE loaded
               /\ table_length' = table_length + Len(read)
    /\ kept' = (kept /\ file # << >> /\ LoadKept(Len(file), last))
    /\ rows' = rows (+) BagOfFile(file)
    /\ Done(Clusters # {})

-------------------------------------------------------------------------------
(* db_insert *)

DefectIncreased(col) == [col EXCEPT !.capacity = 2 * @]
\* db_increase_capacity.
Increased(col) ==
    LET capacity == 2 * col.capacity
    IN  [col EXCEPT !.capacity = capacity, !.room = capacity,
                    !.index = IF @.type \notin {"CLUSTER_SORT", "UNCLUSTER_SORT"} THEN @
                              ELSE IF ~ @.built THEN [@ EXCEPT !.fault = "crash"]
                              ELSE [@ EXCEPT !.room = capacity]]

\* The value goes to place i and the n cells from there on move up.
OpenedAt(col, i, n, value, behind) ==
    WithFault([col EXCEPT !.data = Filled(Opened(Filled(@, n + 1, behind), i, n, value),
                                          col.size + 1, behind),
                          !.size = @ + 1],
              n >= col.room \/ i >= col.room \/ i = Unset)

\* An unclustered index takes the row that the clustered one has placed.
Noted(idx, n, value, i, behind) ==
    IF idx.type \notin UnclusteredTypes THEN idx
    ELSE IF ~ idx.built THEN [idx EXCEPT !.fault = "crash"]
    ELSE IF idx.type = "UNCLUSTER_SORT" THEN SortInsert(idx, n, value, i, behind)
    ELSE TreeInsert(idx, value, i)

\* db_insert_sort_cluster, db_insert_btree_cluster: the place comes from the
\* search in the column, or from the tree, which leaves it unset for a key
\* that it has.
InsertClustered(cols, c, values, behind) ==
    LET col == cols[c]
        opened(i, n(_), idx) ==
            IF i = Unset THEN [cols EXCEPT ![c].fault = "overflow"]
            ELSE [d \in Columns |->
                [OpenedAt(cols[d], i, n(d), values[d], behind) EXCEPT
                    !.index = IF d = c THEN idx
                              ELSE Noted(@, cols[d].size, values[d], i, behind)]]
        treed(t) == opened(t.at, LAMBDA d : cols[d].size, WithTree(col.index, t))
    IN  IF ~ col.index.built THEN [cols EXCEPT ![c].fault = "crash"]
        ELSE IF col.index.type = "CLUSTER_SORT"
        THEN opened(Find(col.data, col.size, values[c], "GREATER_EQUAL", behind), LAMBDA d : col.size,
                    IF col.size >= col.index.room THEN [col.index EXCEPT !.fault = "overflow"]
                    ELSE col.index)
        ELSE treed(Insert(col.index.tree, values[c], Unset))

\* The row goes to the end.  An unclustered sorted index is taken for a tree.
InsertLast(col, n, value, behind) ==
    [OpenedAt(col, n, n, value, behind) EXCEPT
        !.index = IF @.type = "NONE" THEN @
                  ELSE IF @.type = "UNCLUSTER_SORT" \/ ~ @.built THEN [@ EXCEPT !.fault = "crash"]
                  ELSE TreeInsert(@, value, n)]

DefectInserted(cols, values, behind) ==
    [cols EXCEPT ![1] = InsertLast(@, table_length, values[1], behind)]
\* Once for each clustered column.
Inserted(cols, values, behind) ==
    LET ins[c \in 0..ColCount] ==
            IF c = 0 THEN cols
            ELSE LET t == ins[c - 1]
                 IN  IF c \in Clusters THEN InsertClustered(t, c, values, behind) ELSE t
    IN  IF Clusters # {} THEN ins[ColCount]
        ELSE [c \in Columns |-> InsertLast(cols[c], table_length, values[c], behind)]

\* A search that finds no equal value answers with the one before.
SearchFits(a, n, value) ==
    \/ \A i \in Cells(n) : value <= a[i]
    \/ \E i \in Cells(n) : value = a[i]

\* The cell that the key would go to does not hold it already, from before;
\* and no leaf but the one that the search reaches has it, for a tree that
\* has every key once.
TreeTakes(t, key, new) ==
    LET n == IF t.root # Null /\ t.node[t.root].type = "RLEAF" THEN t.root ELSE FindLeaf(t, key)
        i == SearchIndex(t.node[n], key)
        next == t.node[n].right
    IN  \/ n = Null
        \/ t.node[n].keys[i] = key /\ ~ new /\ i < t.node[n].size
        \/ t.node[n].keys[i] # key /\ (new \/ next = Null \/ (next # Null /\ t.node[next].keys[0] # key))

\* With a clustered index: the place of the row is right, and an unclustered
\* tree has to move the positions of greater values only.
ClusterInsertKept(c, values) ==
    LET col == columns[c]
        place == Cardinality({i \in Cells(col.size) : col.data[i] < values[c]})
    IN  /\ IF col.index.type = "CLUSTER_SORT"
           THEN /\ SearchFits(col.data, col.size, values[c])
                /\ col.index.room > col.size \/ col.size = columns[1].capacity
           ELSE TreeTakes(col.index.tree, values[c], TRUE)
        /\ \A d \in Columns \ {c} :
               /\ Has(d, {"UNCLUSTER_SORT"}) =>
                      /\ SearchFits(columns[d].index.copy, col.size, values[d])
                      /\ columns[d].index.room > col.size \/ col.size = columns[1].capacity
               /\ Has(d, {"UNCLUSTER_BTREE"}) =>
                      /\ place = col.size
                      /\ TreeTakes(columns[d].index.tree, values[d], FALSE)

InsertKept(values) ==
    /\ \A c \in Columns : Has(c, {"NONE"}) \/ columns[c].index.built
    /\ \A c \in Columns : columns[c].room > columns[c].size \/ columns[c].size = columns[c].capacity
    /\ Cardinality(Clusters) <= 1
    /\ IF Clusters # {} THEN \A c \in Clusters : ClusterInsertKept(c, values)
       ELSE \A c \in Columns :
                /\ ~ Has(c, {"UNCLUSTER_SORT"})
                /\ Has(c, {"UNCLUSTER_BTREE"}) => TreeTakes(columns[c].index.tree, values[c], FALSE)

InsertRow(values) ==
    /\ Ready
    /\ \E behind \in Junk :
           LET full == table_length = columns[1].capacity
               cols == IF full THEN [c \in Columns |-> Increased(columns[c])] ELSE columns
           IN  columns' = Inserted(cols, values, behind)
    /\ table_length' = table_length + 1
    /\ kept' = (kept /\ InsertKept(values))
    /\ rows' = rows (+) SetToBag({values})
    /\ Done(Clusters # {})

-------------------------------------------------------------------------------
(* db_delete *)

\* The loop over m rows compares its place in the new array with the position
\* of a row in the old one; "count" goes on from the column before.
Removed(data, n, rowseq, m, count0, behind) ==
    LET k == Len(rowseq)
        count[p \in -1..(m - 1)] ==
            IF p = -1 THEN count0
            ELSE LET before == count[p - 1]
                 IN  before + IF (IF before < k THEN rowseq[before + 1] ELSE behind) = p THEN 1 ELSE 0
    IN  [data |-> [p \in Cells(n - k) |->
                       IF p < m THEN Cell(data, p + count[p], behind) ELSE data[p]],
         count |-> count[m - 1]]

DefectShortened(col, m, count0, behind) ==
    LET r == Removed(col.data, col.size, handle.positions, m, count0, behind)
    IN  [count |-> r.count, col |-> [col EXCEPT !.data = r.data]]
\* A column and its unclustered index without the rows; its size wraps when
\* there are more of them than it has.
Shortened(col, m, count0, behind) ==
    LET r == Removed(col.data, col.size, handle.positions, m, count0, behind)
    IN  [count |-> r.count,
         col |-> WithFault([col EXCEPT
             !.index = IF @.type \in UnclusteredTypes
                       THEN DeleteUnclustered(@, col.data, col.size, handle.positions, behind) ELSE @,
             !.data = r.data,
             !.size = @ - Len(handle.positions)],
             Len(handle.positions) > col.size)]

\* The rows that a loop visits which counts its own end down.
Visited(n) == (n + 1) \div 2

\* db_delete_sort_cluster, db_delete_btree_cluster.
DeleteClustered(cols, c, behind) ==
    LET sorted == cols[c].index.type = "CLUSTER_SORT"
        m(d) == IF sorted /\ d # c THEN cols[d].size ELSE Visited(cols[d].size)
        rest(d) == Shortened(cols[d], m(d), 0, behind).col
    IN  IF sorted /\ handle.positions = << >> THEN cols
        ELSE IF ~ cols[c].index.built THEN [cols EXCEPT ![c].fault = "crash"]
        ELSE IF sorted THEN [d \in Columns |-> rest(d)]
        ELSE [d \in Columns |-> IF d # c THEN rest(d)
                  ELSE [rest(d) EXCEPT !.index = TreeDelete(@, cols[c].data, cols[c].size,
                                                            handle.positions, behind)]]

Deleted(behind) ==
    LET del[c \in 0..ColCount] ==
            IF c = 0 THEN columns
            ELSE LET t == del[c - 1]
                 IN  IF c \in Clusters THEN DeleteClustered(t, c, behind) ELSE t
        shift[c \in 0..ColCount] ==
            IF c = 0 THEN [cols |-> columns, count |-> 0]
            ELSE LET s == shift[c - 1]
                     r == Shortened(columns[c], columns[c].size, s.count, behind)
                 IN  [cols |-> [s.cols EXCEPT ![c] = r.col], count |-> r.count]
    IN  IF Clusters # {} THEN del[ColCount] ELSE shift[ColCount].cols

\* A loop over rows looks into the position vector of an empty answer.
FollowsNull ==
    handle.null /\ table_length > 0 /\ \A c \in Clusters : Has(c, {"CLUSTER_BTREE"})

Unique(col, i) == \A j \in Cells(col.size) : col.data[j] = col.data[i] => j = i
AllUnique(col) == \A i \in Cells(col.size) : Unique(col, i)

\* The leaf that the search reaches has the key and another one.
TreeGives(t, key) ==
    LET n == FindLeaf(t, key)
        i == SearchIndex(t.node[n], key)
    IN  n # Null /\ t.node[n].size > 1 /\ i < t.node[n].size /\ t.node[n].keys[i] = key

\* Of the rows only the first may have others behind it; nothing behind the
\* position vector looks like a position; a loop that ends at half of the
\* rows has no more to move; a counter that goes on from column to column is
\* right only at the first row or at all.  An index loses a row by a value
\* that no other row has, and from the second row on what its search meets
\* behind the rows that are left is greater than every value; a tree moves
\* the first position of a value only.
DeleteKept(behind) ==
    LET p == handle.positions
        n == table_length
        k == Len(p)
    IN  /\ handle.fresh /\ k > 0
        /\ \A i \in 2..k : p[i] = n - k + i - 1
        /\ behind \notin Cells(n)
        /\ Cardinality(Clusters) <= 1
        /\ Clusters # {} => n - k <= Visited(n)
        /\ Clusters = {} /\ ColCount > 1 => p = <<0>> \/ k = n
        /\ \A c \in Columns :
               /\ Has(c, {"NONE"}) \/ columns[c].index.built
               /\ Has(c, {"UNCLUSTER_SORT"}) =>
                      \/ k = n
                      \/ /\ \A i \in 1..k : Unique(columns[c], p[i])
                         /\ k = 1 \/ \A i \in Cells(n) : columns[c].data[i] < behind
               /\ Has(c, {"UNCLUSTER_BTREE"}) => AllUnique(columns[c])
               /\ Has(c, {"UNCLUSTER_BTREE", "CLUSTER_BTREE"}) =>
                      k = 1 /\ TreeGives(columns[c].index.tree, columns[c].data[p[1]])

DeleteRows ==
    /\ Ready
    /\ IF FollowsNull
       THEN columns' = [columns EXCEPT ![1].fault = "crash"] /\ UNCHANGED table_length
            /\ kept' = FALSE
       ELSE /\ \E behind \in Junk :
                   /\ columns' = Deleted(behind)
                   /\ kept' = (kept /\ DeleteKept(behind))
            /\ table_length' = table_length - Len(handle.positions)
    /\ rows' = IF kept' THEN rows (-) BagOfRows(columns, HandleRows) ELSE rows
    /\ Done(TRUE)

-------------------------------------------------------------------------------
(* db_update *)

\* The cell at p moves to q, and those between make room.
Moved(a, p, q, behind) ==
    LET cell(i) == Cell(a, i, behind)
    IN  [i \in DOMAIN a |-> IF i = q THEN cell(p)
                            ELSE IF p > q /\ i \in (q + 1)..p THEN cell(i - 1)
                            ELSE IF p < q /\ i \in p..(q - 1) THEN cell(i + 1)
                            ELSE a[i]]
MovedAll(a, places, behind) ==
    LET moved[k \in 0..Len(handle.positions)] ==
            IF k = 0 THEN a
            ELSE LET b == moved[k - 1] IN Moved(b, handle.positions[k], places[k], behind)
    IN  moved[Len(handle.positions)]

\* db_update_sort_cluster: where each row goes in the column, and the column.
SortPlaces(col, value, behind) ==
    LET go[k \in 0..Len(handle.positions)] ==
            IF k = 0 THEN [data |-> col.data, places |-> << >>]
            ELSE LET s == go[k - 1]
                     q == Find(s.data, col.size, value, "GREATER_EQUAL", behind)
                     b == Moved(s.data, handle.positions[k], q, behind)
                 IN  [data |-> [i \in DOMAIN b |-> IF i = q THEN value ELSE b[i]],
                      places |-> Append(s.places, q)]
    IN  go[Len(handle.positions)]

\* db_update_btree_cluster: each key leaves the tree and the new one enters;
\* a new root is lost.
TreePlaces(col, value, behind) ==
    LET next(s, k) ==
            LET t == Exchanged(s.tree, Cell(col.data, handle.positions[k], behind), value, Unset, TRUE)
            IN  [tree |-> t, places |-> Append(s.places, t.at)]
        go[k \in 0..Len(handle.positions)] ==
            IF k = 0 THEN [tree |-> col.index.tree, places |-> << >>] ELSE next(go[k - 1], k)
        keyed(places) ==
            LET cells[k \in 0..Len(handle.positions)] ==
                    IF k = 0 THEN col.data
                    ELSE LET b == Moved(cells[k - 1], handle.positions[k], places[k], behind)
                         IN  [i \in DOMAIN b |-> IF i = places[k] THEN value ELSE b[i]]
            IN  cells[Len(handle.positions)]
        finished(s) == [tree |-> [s.tree EXCEPT !.root = col.index.tree.root], places |-> s.places,
                        data |-> IF s.tree.ok THEN keyed(s.places) ELSE col.data]
    IN  finished(go[Len(handle.positions)])

UpdateClustered(cols, c, value, behind) ==
    LET col == cols[c]
        other(d, places) ==
            LET data == MovedAll(cols[d].data, places, behind)
            IN  [cols[d] EXCEPT
                    !.data = data,
                    !.index = IF @.type \in UnclusteredTypes
                              THEN Refreshed(@, data, cols[d].size, behind) ELSE @]
        placed(u, idx) ==
            IF idx.fault # "none" \/ \E k \in DOMAIN u.places : u.places[k] = Unset
            THEN [cols EXCEPT ![c].fault = "overflow"]
            ELSE [d \in Columns |-> IF d = c THEN [col EXCEPT !.data = u.data, !.index = idx]
                                    ELSE other(d, u.places)]
        replaced(u) == placed(u, WithTree(col.index, u.tree))
    IN  IF ~ col.index.built THEN [cols EXCEPT ![c].fault = "crash"]
        ELSE IF col.index.type = "CLUSTER_SORT" THEN placed(SortPlaces(col, value, behind), col.index)
        ELSE replaced(TreePlaces(col, value, behind))

\* The index first, from the old values, then the column.
UpdateInPlace(col, value, behind) ==
    LET p == handle.positions
    IN  WithFault([col EXCEPT
            !.index = IF @.type = "NONE" THEN @
                      ELSE IF ~ @.built THEN [@ EXCEPT !.fault = "crash"]
                      ELSE IF @.type = "UNCLUSTER_SORT"
                      THEN SortUpdate(@, col.data, col.size, p, value, behind)
                      ELSE TreeUpdate(@, col.data, col.size, p, value, behind),
            !.data = [i \in DOMAIN @ |-> IF i \in HandleRows THEN value ELSE @[i]]],
            \E i \in HandleRows : i >= col.room)

\* The tree gives the old key and takes the new one without a new root.
TreeReplaces(t, key, value, iscluster) ==
    /\ TreeGives(t, key)
    /\ t.node[t.root].size < Order - 1
    /\ TreeTakes(Delete(t, key, iscluster), value, iscluster)

UpdateKept(c, value) ==
    LET col == columns[c]
        p == handle.positions
        old == Cell(col.data, p[1], value)
    IN  /\ handle.fresh
        /\ Has(c, {"NONE"}) \/ col.index.built
        /\ Has(c, {"UNCLUSTER_SORT"}) => p = << >>
        /\ Has(c, {"UNCLUSTER_BTREE"}) =>
               \/ p = << >>
               \/ /\ p = <<table_length - 1>> /\ Unique(col, p[1])
                  /\ TreeReplaces(col.index.tree, old, value, FALSE)
        /\ Has(c, ClusteredTypes) =>
               /\ Len(p) <= 1
               /\ p # << >> =>
                      IF col.index.type = "CLUSTER_SORT"
                      THEN value >= old \/ SearchFits(col.data, col.size, value)
                      ELSE TreeReplaces(col.index.tree, old, value, TRUE)
               /\ \A d \in Columns \ {c} :
                      /\ ~ Has(d, {"UNCLUSTER_BTREE"})
                      /\ Has(d, {"UNCLUSTER_SORT"}) =>
                             columns[d].index.built /\ AllUnique(columns[d])

Update(c, value) ==
    /\ Ready
    /\ \E behind \in Junk :
           columns' = IF Has(c, ClusteredTypes) THEN UpdateClustered(columns, c, value, behind)
                      ELSE [columns EXCEPT ![c] = UpdateInPlace(@, value, behind)]
    /\ kept' = (kept /\ UpdateKept(c, value))
    /\ rows' = IF ~ kept' THEN rows
               ELSE LET changed == [columns EXCEPT ![c].data =
                                        [i \in DOMAIN @ |-> IF i \in HandleRows THEN value ELSE @[i]]]
                    IN  (rows (-) BagOfRows(columns, HandleRows)) (+) BagOfRows(changed, HandleRows)
    /\ Done(Has(c, ClusteredTypes))
    /\ UNCHANGED table_length

-------------------------------------------------------------------------------
Next ==
    \/ \E c \in Columns : \E type \in Types[c] : CreateIndex(c, type)
    \/ \E c \in Columns, b \in Bounds, batched \in BOOLEAN : Select(c, b[1], b[2], batched)
    \/ \E file \in Files, last \in BOOLEAN : Load(file, last)
    \/ \E values \in NewRows : InsertRow(values)
    \/ DeleteRows
    \/ \E c \in Columns, value \in Values : Update(c, value)

Spec == Init /\ [][Next]_vars

-------------------------------------------------------------------------------
(* Properties *)

\* Types: the arrays of a column have a cell for every row, and sizes are
\* natural numbers (an unsigned int that db_delete took below zero is not).
TypeOK ==
    /\ ~ Faulty => table_length \in Nat
    /\ \A c \in Columns :
           /\ ~ Faulty => columns[c].size \in Nat
           /\ columns[c].capacity \in Nat /\ columns[c].room \in Nat
           /\ DOMAIN columns[c].data = Cells(columns[c].size)
           /\ columns[c].index.type \in ClusteredTypes \union UnclusteredTypes \union {"NONE"}
    /\ handle.positions \in Seq(Int)
    /\ handle.null \in BOOLEAN /\ handle.fresh \in BOOLEAN
    /\ kept \in BOOLEAN
    /\ IsABag(rows)
    /\ commands \in 0..MaxCommands

\* Whatever the commands and their order, with at most one clustered index
\* every column has as many values as the table has rows: db_load, db_insert
\* and db_delete reach each column exactly once, through the index or not.
SizesAgree ==
    ~ Faulty /\ Cardinality(Clusters) <= 1 => \A c \in Columns : columns[c].size = table_length

\* The same for any indexes: cs165_api.h says of a table that its length is
\* "the size of the columns in the table".  It is not with two clustered
\* columns, for each of which db_insert adds the row to all columns.
ColumnsHaveTableLength ==
    ~ Faulty => \A c \in Columns : columns[c].size = table_length

\* While the conditions are kept no load, insert, update, delete or select
\* writes behind an array, follows a pointer that nobody set or walks through
\* a freed record of a tree.
KeptIsSafe == kept => ~ Faulty

\* While the conditions are kept the table holds the rows that were loaded
\* and inserted, as updated and without the deleted ones: each row across all
\* columns, in whatever order a clustered index put them.
RowsKept == kept => BagOfRows(columns, Cells(table_length)) = rows

\* The leaves and entries of a tree, from left to right.
LeftLeaf(t) ==
    LET down[n \in 0..Len(t.node)] ==
            IF n = Null \/ (n # Null /\ IsLeaf(t.node[n])) THEN n ELSE down[t.node[n].child[0]]
    IN  down[t.root]
LeavesReached(t) ==
    LET under[n \in 0..Len(t.node)] ==
            IF n = Null THEN {}
            ELSE IF IsLeaf(t.node[n]) THEN {n}
            ELSE UNION {under[t.node[n].child[i]] : i \in 0..t.node[n].size}
    IN  under[t.root]
Entries(t) ==
    LET walk[n \in 0..Len(t.node)] ==
            IF n = Null THEN << >>
            ELSE [i \in 1..t.node[n].size |->
                      <<t.node[n].keys[i - 1], t.rec[t.node[n].values[i - 1]]>>] \o walk[t.node[n].right]
    IN  walk[LeftLeaf(t)]

SortedArray(a, n) == \A i, j \in Cells(n) : i < j => a[i] <= a[j]

\* A search arrives at the leaf of every key but the first, which the search
\* takes to be in the leaf before.
KeysReached(t) ==
    \A n \in LeavesReached(t) : t.node[n].type = "LEAF" =>
        \A i \in Cells(t.node[n].size) :
            t.node[n].keys[i] = t.node[n].keys[0] \/ FindLeaf(t, t.node[n].keys[i]) = n

SortIndexSound(idx, col) ==
    /\ SortedArray(idx.copy, col.size)
    /\ \A i \in Cells(col.size) : idx.positions[i] \in Cells(col.size) /\ col.data[idx.positions[i]] = idx.copy[i]
    /\ \A i, j \in Cells(col.size) : idx.positions[i] = idx.positions[j] => i = j
TreeIndexSound(t, col) ==
    LET e == Entries(t)
    IN  /\ Rightward(t, Leftmost(t, LeftLeaf(t))) = LeavesReached(t)
        /\ KeysReached(t)
        /\ \A i, j \in DOMAIN e : i < j => e[i][1] < e[j][1]
        /\ \A i \in DOMAIN e : \A k \in DOMAIN e[i][2] :
               e[i][2][k] \in Cells(col.size) /\ col.data[e[i][2][k]] = e[i][1]
        /\ \A p \in Cells(col.size) :
               Cardinality({s \in (DOMAIN e) \X (1..col.size) :
                                s[2] <= Len(e[s[1]][2]) /\ e[s[1]][2][s[2]] = p}) = 1
ClusterTreeSound(t, col) ==
    /\ SortedArray(col.data, col.size)
    /\ Entries(t) = [i \in 1..col.size |-> <<col.data[i - 1], <<i - 1>>>>]
    /\ KeysReached(t)

\* While the conditions are kept every index agrees with its column after
\* every command: a sorted copy is the column in order with each position
\* once, a clustered column is in order, and a tree holds every position once,
\* under its value, in leaves that are in order and that a search arrives at.
IndexesSound ==
    kept => \A c \in Columns :
        LET col == columns[c]
            idx == col.index
        IN  idx.built =>
                CASE idx.type = "UNCLUSTER_SORT" -> SortIndexSound(idx, col)
                  [] idx.type = "UNCLUSTER_BTREE" -> TreeIndexSound(idx.tree, col)
                  [] idx.type = "CLUSTER_SORT" -> SortedArray(col.data, col.size)
                  [] idx.type = "CLUSTER_BTREE" -> ClusterTreeSound(idx.tree, col)
===============================================================================
