------------------------------- MODULE Indexes -------------------------------
(***************************************************************************)
(* The index of a column: how it is built over the column, what a select   *)
(* through it answers, and how it follows inserted, updated and deleted    *)
(* rows.  The sorted indexes keep a sorted copy with the position of each  *)
(* value (unclustered) or the column itself in order (clustered), the      *)
(* others a B+ tree.                                                       *)
(*                                                                         *)
(* A cell read behind the end of an array holds anything: "behind" is the  *)
(* value that an operation finds there.  An access that has no outcome to  *)
(* speak of, to memory nobody owns or through a pointer nobody set, is     *)
(* kept in "fault".                                                        *)
(***************************************************************************)
EXTENDS BTree

CONSTANT INVALID_VAL    \* the bound that was not given ("null")

ASSUME InvalidAssumption == INVALID_VAL \in Int

Nothing == [i \in {} |-> 0]     \* an array without cells

ClusteredTypes == {"CLUSTER_SORT", "CLUSTER_BTREE"}
UnclusteredTypes == {"UNCLUSTER_SORT", "UNCLUSTER_BTREE"}

\* copy_data and pv->positions with the room they were allocated, and the
\* tree.  A clustered sorted index never reads its positions: of them only
\* the room is kept.
NewIndex(type) ==
    [type |-> type, built |-> FALSE, copy |-> Nothing, positions |-> Nothing, room |-> 0,
     tree |-> EmptyTree, fault |-> "none"]

Cell(a, i, behind) == IF i \in DOMAIN a THEN a[i] ELSE behind
\* The first n cells of an array, and with those that a search may look at.
Filled(a, n, behind) == [i \in Cells(n) |-> Cell(a, i, behind)]
WithEnd(a, n, behind) == Filled(Filled(a, n, behind), n + 2, behind)

WithTree(idx, t) == [idx EXCEPT !.tree = t, !.fault = IF t.ok THEN @ ELSE "crash"]

\* binary_search_data over n cells of an array.
Find(a, n, key, op, behind) == SearchData(WithEnd(a, n, behind), n - 1, key, op)

(* Building *)

\* btree_insert for each of n keys.
TreeOf(keys, positions, n) ==
    LET tree[i \in 0..n] ==
            IF i = 0 THEN EmptyTree
            ELSE LET t == tree[i - 1] IN Insert(t, keys[i - 1], positions[i - 1])
    IN  tree[n]

\* db_sort_unclustered, db_btree_unclustered.
BuildUnclustered(idx, data, n) ==
    LET units == SortUnits(data, n)
        copy == SortedValues(units)
        positions == SortedPositions(units)
    IN  IF idx.type = "UNCLUSTER_SORT"
        THEN [NewIndex(idx.type) EXCEPT !.built = TRUE, !.room = n,
                                        !.copy = copy, !.positions = positions]
        ELSE WithTree([NewIndex(idx.type) EXCEPT !.built = TRUE], TreeOf(copy, positions, n))

\* The index over a column that is in order now; the tree takes its last
\* leaf from behind both arrays where the rows do not fill it.
BuildClustered(idx, data, n, behind) ==
    IF idx.type = "CLUSTER_SORT"
    THEN [NewIndex(idx.type) EXCEPT !.built = TRUE, !.room = n]
    ELSE WithTree([NewIndex(idx.type) EXCEPT !.built = TRUE],
                  BulkInsert(Filled(data, n + Half, behind),
                             Filled([i \in Cells(n) |-> i], n + Half, behind), n))

(* Selects through an index: [ok, positions], with positions a sequence. *)

Crash == [ok |-> FALSE, positions |-> << >>]
Answered(s) == [ok |-> TRUE, positions |-> s]
\* The positions from..to of an array, or the numbers themselves.
Numbers(from, to) == [k \in 1..(IF to < from THEN 0 ELSE to - from + 1) |-> from + k - 1]

\* A clustered sorted index answers with the places in the column itself,
\* the unclustered one with the positions that stand there.
SortedAnswer(idx, data, n, lo, hi, behind) ==
    LET keys == IF idx.type = "CLUSTER_SORT" THEN data ELSE idx.copy
        first == Find(keys, n, lo, IF hi = INVALID_VAL /\ idx.type = "UNCLUSTER_SORT"
                                   THEN "GREATER" ELSE "GREATER_EQUAL", behind)
        last == Find(keys, n, hi, "LESS", behind)
        places == IF hi = INVALID_VAL THEN Numbers(first, n - 1)
                  ELSE IF last = -1 THEN << >>
                  ELSE IF lo # INVALID_VAL THEN Numbers(first, last)
                  ELSE Numbers(0, IF idx.type = "CLUSTER_SORT" THEN last - 1 ELSE last)
        positions == Filled(idx.positions, n + 1, behind)
    IN  Answered(IF idx.type = "CLUSTER_SORT" THEN places
                 ELSE [k \in DOMAIN places |-> positions[places[k]]])

\* The record in a slot of a leaf, Null where the program would crash.
HeadAt(t, n, i) ==
    LET r == t.node[n].values[i]
    IN  IF r = Null THEN Null ELSE IF t.rec[r] = << >> THEN Null ELSE r

ClusteredTreeAnswer(t, n, lo, hi) ==
    LET leaf(key) == FindLeaf(t, key)
        slot(key, op) == SearchNode(t.node[leaf(key)], key, op)
        head(key, op) == HeadAt(t, leaf(key), slot(key, op))
    IN  IF \/ lo # INVALID_VAL /\ leaf(lo) = Null
           \/ hi # INVALID_VAL /\ leaf(hi) = Null THEN Crash
        ELSE IF hi # INVALID_VAL /\ slot(hi, "LESS") = -1 THEN Answered(<< >>)
        ELSE IF \/ lo # INVALID_VAL /\ head(lo, "GREATER_EQUAL") = Null
                \/ hi # INVALID_VAL /\ head(hi, "LESS") = Null THEN Crash
        ELSE Answered(Numbers(
                 IF lo = INVALID_VAL THEN 0 ELSE t.rec[head(lo, "GREATER_EQUAL")][1],
                 IF hi = INVALID_VAL THEN n - 1 ELSE t.rec[head(hi, "LESS")][1]))

\* The chains in the slots from..to-1 of a leaf.
Chains(t, n, from, to) ==
    LET chain[i \in from..(IF to < from THEN from ELSE to)] ==
            IF i >= to THEN << >>
            ELSE LET r == t.node[n].values[i]
                 IN  (IF r = Null THEN << >> ELSE t.rec[r]) \o chain[i + 1]
    IN  chain[from]

\* From the leaf of lo to the right, up to the leaf of hi when there is one.
\* With no lower bound the walk goes to the left and ends in a NULL leaf.
UnclusteredTreeAnswer(t, lo, hi) ==
    LET start == IF lo = INVALID_VAL THEN FindLeaf(t, hi) ELSE FindLeaf(t, lo)
        stop == IF hi = INVALID_VAL THEN Null ELSE FindLeaf(t, hi)
        first == SearchNode(t.node[start], lo, "GREATER_EQUAL")
        last == SearchNode(t.node[stop], hi, "LESS")
        walk[n \in 0..Len(t.node)] ==
            IF n = Null THEN IF hi = INVALID_VAL THEN Answered(<< >>) ELSE Crash
            ELSE LET from == IF n = start THEN first ELSE 0
                     rest == IF n = stop THEN Answered(Chains(t, n, from, last + 1))
                             ELSE walk[t.node[n].right]
                 IN  IF n = stop THEN rest
                     ELSE [rest EXCEPT !.positions = Chains(t, n, from, t.node[n].size) \o @]
    IN  IF start = Null \/ (hi # INVALID_VAL /\ stop = Null) THEN Crash
        ELSE IF hi # INVALID_VAL /\ last = -1 THEN Answered(<< >>)
        ELSE IF lo = INVALID_VAL THEN Crash
        ELSE walk[start]

\* The positions array of the select has room for one entry per row.
Answer(idx, data, n, lo, hi, behind) ==
    LET fitting(a) == IF Len(a.positions) \in 0..n THEN a ELSE Crash
    IN  IF ~ idx.built THEN Crash
        ELSE fitting(CASE idx.type \in {"CLUSTER_SORT", "UNCLUSTER_SORT"} ->
                              SortedAnswer(idx, data, n, lo, hi, behind)
                       [] idx.type = "CLUSTER_BTREE" -> ClusteredTreeAnswer(idx.tree, n, lo, hi)
                       [] idx.type = "UNCLUSTER_BTREE" -> UnclusteredTreeAnswer(idx.tree, lo, hi))

(* A row enters the column at position pos, where the column has n rows. *)

DefectSortInsert(idx, n, value, pos, behind) ==
    LET place == Find(idx.copy, n, value, "GREATER_EQUAL", behind)
        old == Filled(idx.positions, n, behind)
    IN  IF n >= idx.room THEN [idx EXCEPT !.fault = "overflow"]
        ELSE [idx EXCEPT !.copy = Opened(Filled(@, n + 1, behind), place, n, value),
                         !.positions = Opened(Filled(old, n + 1, behind), place, n, pos)]
\* db_insert_sort_uncluster.
SortInsert(idx, n, value, pos, behind) ==
    LET place == Find(idx.copy, n, value, "GREATER_EQUAL", behind)
        old == Filled(idx.positions, n, behind)
        moved == [j \in Cells(n) |-> IF old[j] >= pos THEN old[j] + 1 ELSE old[j]]
    IN  IF n >= idx.room THEN [idx EXCEPT !.fault = "overflow"]
        ELSE [idx EXCEPT !.copy = Opened(Filled(@, n + 1, behind), place, n, value),
                         !.positions = Opened(Filled(moved, n + 1, behind), place, n, pos)]

\* db_insert_btree_uncluster.
TreeInsert(idx, value, pos) == WithTree(idx, Insert(idx.tree, value, pos))

(* Rows of the column are about to be updated or deleted. *)

\* db_delete_sort_uncluster: the entry that the search finds goes, for each
\* row of the position vector; the search goes on over all n cells.
SortDelete(idx, data, n, rows, behind) ==
    LET k == Len(rows)
        gone[i \in 0..k] ==
            IF i = 0 THEN [copy |-> Filled(idx.copy, n, behind),
                           positions |-> Filled(idx.positions, n, behind)]
            ELSE LET s == gone[i - 1]
                     place == Find(s.copy, n, Cell(data, rows[i], behind), "GREATER_EQUAL", behind)
                     m == n - i + 1
                     copy == [j \in Cells(n) |-> IF j \in place..(m - 1)
                                  THEN IF j + 1 < n THEN s.copy[j + 1] ELSE behind ELSE s.copy[j]]
                     entry == [j \in Cells(n) |-> IF j \in place..(m - 1)
                                  THEN IF j + 1 < n THEN s.positions[j + 1] ELSE behind
                                  ELSE s.positions[j]]
                 IN  [copy |-> copy,
                      positions |-> [j \in Cells(n) |->
                          IF j < (IF m > place THEN m ELSE place) /\ entry[j] > rows[i]
                          THEN entry[j] - 1 ELSE entry[j]]]
        done == gone[k]
    IN  [idx EXCEPT !.copy = Filled(done.copy, n - k, behind),
                    !.positions = Filled(done.positions, n - k, behind),
                    !.room = n - k]

\* db_delete_btree_uncluster, and the deletions from a clustered tree.
TreeDelete(idx, data, n, rows, behind) ==
    LET gone[i \in 0..Len(rows)] ==
            IF i = 0 THEN idx.tree
            ELSE LET t == gone[i - 1]
                 IN  IF t.ok THEN Delete(t, Cell(data, rows[i], behind),
                                         idx.type \in ClusteredTypes) ELSE t
    IN  WithTree(idx, gone[Len(rows)])

DeleteUnclustered(idx, data, n, rows, behind) ==
    IF ~ idx.built THEN [idx EXCEPT !.fault = "crash"]
    ELSE IF idx.type = "UNCLUSTER_SORT" THEN SortDelete(idx, data, n, rows, behind)
    ELSE TreeDelete(idx, data, n, rows, behind)

\* db_update_sort_uncluster: the loops move the entries between the old and
\* the new place, and write the place where the row belongs.
SortUpdate(idx, data, n, rows, value, behind) ==
    LET done[k \in 0..Len(rows)] ==
            IF k = 0 THEN [copy |-> WithEnd(idx.copy, n, behind),
                           positions |-> WithEnd(idx.positions, n, behind),
                           fault |-> idx.fault]
            ELSE LET s == done[k - 1]
                     place == Find(s.copy, n, Cell(data, rows[k], behind), "GREATER_EQUAL", behind)
                     put(u, at) ==
                         IF at \notin Cells(idx.room) THEN [u EXCEPT !.fault = "overflow"]
                         ELSE [u EXCEPT !.copy[at] = value, !.positions[at] = place]
                     take(u, i, from) ==
                         [u EXCEPT !.copy[i] = u.copy[from], !.positions[i] = u.positions[i + 1]]
                     up[i \in (place - 1)..(n - 1)] ==
                         IF i < place THEN s
                         ELSE LET v == up[i - 1]
                              IN  take(IF value <= v.copy[i] THEN put(v, i - 1) ELSE v, i, i + 1)
                     down[i \in 1..(place + 1)] ==
                         IF i > place THEN s
                         ELSE LET v == down[i + 1]
                              IN  take(IF value >= v.copy[i] THEN put(v, i + 1) ELSE v, i, i - 1)
                 IN  IF value > s.copy[place + 1]
                     THEN IF n = 0 THEN s ELSE up[n - 1]
                     ELSE down[1]
    IN  [idx EXCEPT !.copy = Filled(done[Len(rows)].copy, n, behind),
                    !.positions = Filled(done[Len(rows)].positions, n, behind),
                    !.fault = done[Len(rows)].fault]

\* The key leaves the tree and another one enters.
Exchanged(t, key, value, pos, iscluster) ==
    LET entered(s) == IF s.ok THEN Insert(s, value, pos) ELSE s
    IN  IF t.ok THEN entered(Delete(t, key, iscluster)) ELSE t

\* db_update_btree_uncluster, with the root in a variable of its own: a new
\* root is lost when it returns.
TreeUpdate(idx, data, n, rows, value, behind) ==
    LET done[k \in 0..Len(rows)] ==
            IF k = 0 THEN idx.tree
            ELSE Exchanged(done[k - 1], Cell(data, rows[k], behind), value, rows[k], FALSE)
    IN  WithTree(idx, [done[Len(rows)] EXCEPT !.root = idx.tree.root])

\* db_modify_sort_uncluster and db_modify_btree_uncluster: the values of the
\* column are the same, at other positions.
Refreshed(idx, data, n, behind) ==
    LET place(t, key) == SearchNode(t.node[FindLeaf(t, key)], key, "GREATER_EQUAL")
        sort[i \in 0..n] ==
            IF i = 0 THEN Filled(idx.positions, n, behind)
            ELSE LET p == sort[i - 1]
                 IN  [p EXCEPT ![Find(idx.copy, n, data[i - 1], "GREATER_EQUAL", behind)] = i - 1]
        tree[i \in 0..n] ==
            IF i = 0 THEN idx.tree
            ELSE LET t == tree[i - 1]
                     leaf == FindLeaf(t, data[i - 1])
                     r == HeadAt(t, leaf, place(t, data[i - 1]))
                 IN  IF ~ t.ok THEN t
                     ELSE IF leaf = Null \/ (leaf # Null /\ r = Null) THEN [t EXCEPT !.ok = FALSE]
                     ELSE [t EXCEPT !.rec[r] = <<i - 1>> \o Tail(@)]
    IN  IF ~ idx.built THEN [idx EXCEPT !.fault = "crash"]
        ELSE IF idx.type = "UNCLUSTER_SORT" THEN [idx EXCEPT !.positions = sort[n]]
        ELSE WithTree(idx, tree[n])
===============================================================================
