-------------------------------- MODULE Query --------------------------------
(***************************************************************************)
(* A client that asks two tables: selects, selects within fetched values,  *)
(* fetches, sums and differences, aggregates and joins, each on what the   *)
(* ones before left in the variable pool.  The tables do not change.       *)
(*                                                                         *)
(* Beside each vector stands what it should be: the rows that it selects,  *)
(* the rows along which values were fetched and what they mean.  "kept"    *)
(* says that the commands stayed where the code gets them right: the       *)
(* conditions (...Kept) are those that it does not check.                  *)
(***************************************************************************)
EXTENDS Indexes, Joins, FiniteSets

CONSTANTS
    IndexTypes,     \* what column 1 of the first of two tables may have as its index
    Tables,         \* Tables[type]: what the tables may hold, <<R, S>>, sequences of rows <<a, b>>
    Bounds,         \* Bounds[type]: <<lo, hi>> of the selects
    Sums,           \* <<op, x, y>> of add and sub
    Aggregates,     \* <<op, x>> of sum, avg, min and max
    IntMin, IntMax, \* int
    Junk,           \* what an operation may find behind an array
    MaxCommands     \* MaxCommands[type]: bound of the model

VARIABLES
    columns,    \* columns[t][c]
    sel, val,   \* the position vector and the result that the client holds of each table
    out,        \* the answer of its last aggregate or join
    fault, kept, commands

vars == <<columns, sel, val, out, fault, kept, commands>>

Sides == {1, 2}
Places == {1, 2}    \* the columns of a table
Operands == Places \union {0}    \* 0 is the result that the client holds

ASSUME QueryAssumption ==
    /\ IndexTypes \subseteq ClusteredTypes \union UnclusteredTypes \union {"NONE"}
    /\ \A type \in IndexTypes : Tables[type] \subseteq [Sides -> Seq(Int \X Int)]
    \* The load that builds an index takes one row at least: of a file without
    \* rows, one of a 0 and of what was there.
    /\ \A type \in IndexTypes \ {"NONE"} : \A tables \in Tables[type] : tables[1] # << >>
    /\ Junk \subseteq Int
    /\ Bounds \in [IndexTypes -> SUBSET ((Int \X Int) \ {<<INVALID_VAL, INVALID_VAL>>})]
    /\ IntMin \in Int /\ IntMax \in Int /\ IntMin < 0 /\ 0 < IntMax
    /\ Sums \subseteq {"ADD", "SUB"} \X Operands \X Operands
    /\ Aggregates \subseteq {"SUM", "AVG", "MIN", "MAX"} \X Operands
    /\ MaxCommands \in [IndexTypes -> Nat]

\* An int holds a value modulo its width.
Wrap(v) == ((v - IntMin) % (IntMax - IntMin + 1)) + IntMin
FitsInt(v) == IntMin <= v /\ v <= IntMax

NoSelection == [set |-> FALSE, positions |-> << >>, rows |-> {}, asked |-> <<0, 0, 0>>]
NoResult == [set |-> FALSE, type |-> "INT", payload |-> << >>, along |-> << >>, means |-> << >>]
NoAnswer == [kind |-> "none", pairs |-> << >>, wanted |-> {}, op |-> "none", value |-> 0, right |-> 0]

\* The columns after the load of the rows of a file.
Loaded(rows, type, behind) ==
    LET n == Len(rows)
        col(c) == [i \in Cells(n) |-> rows[i + 1][c]]
        units == SortUnits(col(1), n)
        order == SortedPositions(units)
        data(c) == IF type \in ClusteredTypes THEN [i \in Cells(n) |-> col(c)[order[i]]] ELSE col(c)
    IN  [c \in Places |->
            [data |-> data(c), size |-> n,
             index |-> IF c = 2 \/ type = "NONE" THEN NewIndex("NONE")
                       ELSE IF type \in ClusteredTypes
                       THEN BuildClustered(NewIndex(type), data(1), n, behind)
                       ELSE BuildUnclustered(NewIndex(type), data(1), n)]]

Init ==
    /\ \E type \in IndexTypes, behind \in Junk : \E tables \in Tables[type] :
           columns = <<Loaded(tables[1], type, behind), Loaded(tables[2], "NONE", behind)>>
    /\ sel = [t \in Sides |-> NoSelection]
    /\ val = [t \in Sides |-> NoResult]
    /\ out = NoAnswer
    /\ fault = FALSE
    /\ kept = TRUE
    /\ commands = 0

IndexType == columns[1][1].index.type

\* Bound of the model: a command that only a print can follow costs more of it.
Ready(cost) ==
    /\ ~ fault
    /\ commands + cost <= MaxCommands[IndexType]
    /\ commands' = commands + cost

\* A command that the program does not survive leaves nothing to look at.
Done(ok, right) ==
    /\ fault' = ~ ok
    /\ kept' = (kept /\ right)

-------------------------------------------------------------------------------
(* select *)

InRange(v, lo, hi) == (lo # INVALID_VAL => v >= lo) /\ (hi # INVALID_VAL => v < hi)

DefectScan(v, lo, hi) ==
    LET found[n \in 0..Len(v)] ==
            IF n = 0 THEN << >>
            ELSE LET f == found[n - 1] IN IF InRange(v[n], lo, hi) THEN Append(f, n) ELSE f
    IN  found[Len(v)]
\* The places of a scan, in increasing order.
Scan(v, lo, hi) ==
    LET found[n \in 0..Len(v)] ==
            IF n = 0 THEN << >>
            ELSE LET f == found[n - 1] IN IF InRange(v[n], lo, hi) THEN Append(f, n - 1) ELSE f
    IN  found[Len(v)]

AsPayload(col) == [k \in 1..col.size |-> col.data[k - 1]]
RowsWith(t, c, lo, hi) ==
    {p \in Cells(columns[t][c].size) : InRange(columns[t][c].data[p], lo, hi)}

\* The bounds for which an index answers like the scan, of a column whose
\* values differ.  A lower bound must be a value, where the search of a tree
\* arrives, or below all; an upper bound must lie between values or above
\* all.  A sorted index drops an equal value (unclustered) when there is no
\* upper bound, and the last row (clustered) when there is no lower one; an
\* unclustered tree walks off to the left then.
ReachedBy(t, key) ==
    LET n == FindLeaf(t, key)
    IN  n # Null /\ \E i \in Cells(t.node[n].size) : t.node[n].keys[i] = key
IndexAnswers(col, lo, hi) ==
    LET values == {col.data[i] : i \in Cells(col.size)}
        tree == col.index.type \in {"CLUSTER_BTREE", "UNCLUSTER_BTREE"}
    IN  /\ Cardinality(values) = col.size
        /\ hi # INVALID_VAL => hi \notin values /\ \E v \in values : v < hi
        /\ lo # INVALID_VAL =>
               IF col.index.type = "UNCLUSTER_SORT" /\ hi = INVALID_VAL
               THEN lo \notin values /\ \E v \in values : lo < v
               ELSE \/ \A v \in values : lo <= v
                    \/ IF tree THEN ReachedBy(col.index.tree, lo) ELSE lo \in values
        /\ lo = INVALID_VAL => col.index.type \in {"UNCLUSTER_SORT", "CLUSTER_BTREE"}
        /\ tree => \A v \in values : FindLeaf(col.index.tree, v) # Null

\* select(column, lo, hi)
Select(t, c, lo, hi) ==
    /\ Ready(1)
    /\ \E behind \in Junk :
           LET col == columns[t][c]
               a == IF col.index.type = "NONE" THEN Answered(Scan(AsPayload(col), lo, hi))
                    ELSE Answer(col.index, col.data, col.size, lo, hi, behind)
           IN  /\ sel' = [sel EXCEPT ![t] = [set |-> TRUE, positions |-> a.positions,
                                             rows |-> RowsWith(t, c, lo, hi), asked |-> <<c, lo, hi>>]]
               /\ Done(a.ok, col.index.type = "NONE" \/ IndexAnswers(col, lo, hi))
    /\ UNCHANGED <<columns, val, out>>

\* The values were fetched along the position vector that the client holds.
Aligned(t) == val[t].along = sel[t].positions

DefectComposed(source, places, behind) == places
\* db_fetch_select: the places are positions of the vector.
Composed(source, places, behind) == [k \in DOMAIN places |-> At(source, places[k] + 1, behind)]

\* select(positions, values, lo, hi), into the vector that it comes from.
SelectWithin(t, lo, hi) ==
    /\ Ready(1)
    /\ sel[t].set /\ val[t].set
    /\ \E behind \in Junk :
           sel' = [sel EXCEPT ![t] =
               [set |-> TRUE,
                positions |-> Composed(@.positions, Scan(val[t].payload, lo, hi), behind),
                rows |-> {val[t].along[k] : k \in {j \in DOMAIN val[t].means : InRange(val[t].means[j], lo, hi)}},
                asked |-> <<0, lo, hi>>]]
    /\ Done(TRUE, Aligned(t))
    /\ UNCHANGED <<columns, val, out>>

-------------------------------------------------------------------------------
(* fetch *)

\* db_fetch_column, along any position vector.
FetchedAlong(t, c, positions) ==
    LET col == columns[t][c]
        inside == \A k \in DOMAIN positions : positions[k] \in Cells(col.size)
    IN  /\ \E behind \in Junk :
               val' = [val EXCEPT ![t] =
                   [set |-> TRUE, type |-> "INT", along |-> positions,
                    payload |-> [k \in DOMAIN positions |-> Cell(col.data, positions[k], behind)],
                    means |-> [k \in DOMAIN positions |-> Cell(col.data, positions[k], 0)]]]
        /\ Done(TRUE, inside)

Fetch(t, c, from) ==
    /\ Ready(1)
    /\ sel[from].set
    /\ FetchedAlong(t, c, sel[from].positions)
    /\ UNCHANGED <<columns, sel, out>>

\* Along the answer of a join for this table.
FetchJoined(t, c) ==
    /\ Ready(1)
    /\ out.kind = "join"
    /\ FetchedAlong(t, c, [k \in DOMAIN out.pairs |-> out.pairs[k][t]])
    /\ UNCHANGED <<columns, sel, out>>

\* db_fetch_int and db_fetch_long: of a result, as many values as that has.
FetchResult(t) ==
    LET n == Len(val[t].payload)
        p == sel[t].positions
    IN  /\ Ready(1)
        /\ sel[t].set /\ val[t].set
        /\ \E behind \in Junk :
               val' = [val EXCEPT ![t] =
                   [@ EXCEPT !.payload = [k \in DOMAIN p |-> IF k <= n THEN At(val[t].payload, p[k] + 1, behind) ELSE 0],
                             !.along = [k \in DOMAIN p |-> At(val[t].along, p[k] + 1, 0)],
                             !.means = [k \in DOMAIN p |-> At(val[t].means, p[k] + 1, 0)]]]
        /\ Done(n <= Len(p), n = Len(p) /\ \A k \in DOMAIN p : p[k] \in Cells(n))
        /\ UNCHANGED <<columns, sel, out>>

-------------------------------------------------------------------------------
(* db_arithmetic_op *)

Operand(t, x) ==
    IF x = 0 THEN val[t]
    ELSE [set |-> TRUE, type |-> "INT", payload |-> AsPayload(columns[t][x]), means |-> AsPayload(columns[t][x]),
          along |-> [k \in 1..columns[t][x].size |-> k - 1]]

Applied(op, a, b) == IF op = "ADD" THEN a + b ELSE a - b

DefectCalculated(op, x, y) == [k \in DOMAIN x.payload |-> Applied(op, x.payload[k], x.payload[k])]
\* An int is added to an int as an int.
Calculated(op, x, y) ==
    [k \in DOMAIN x.payload |->
        IF x.type = "INT" /\ y.type = "INT" THEN Wrap(Applied(op, x.payload[k], y.payload[k]))
        ELSE Applied(op, x.payload[k], y.payload[k])]

\* A column as the second operand is looked for in the first one, which may
\* be a result; the difference of an int and a long reads through NULL; of
\* different lengths nothing is calculated and the result stays without data.
Arithmetic(t, op, x, y) ==
    LET a == Operand(t, x)
        other == Operand(t, y)
        b == IF y = 0 THEN other ELSE a
        n == Len(a.payload)
        same == n = Len(other.payload)
    IN  /\ Ready(1)
        /\ x = 0 \/ y = 0 => val[t].set
        /\ val' = [val EXCEPT ![t] =
               IF ~ same THEN NoResult
               ELSE [set |-> TRUE, type |-> "LONG", along |-> a.along,
                     payload |-> Calculated(op, a, b),
                     means |-> [k \in DOMAIN a.means |-> Applied(op, a.means[k], other.means[k])]]]
        /\ Done(same => /\ ~ (x = 0 /\ y # 0)
                        /\ op = "SUB" /\ n > 0 => a.type = b.type,
                /\ same
                /\ y # 0 => x = y
                /\ op = "SUB" /\ n > 0 => a.type = b.type
                /\ a.type = "INT" /\ b.type = "INT" =>
                       \A k \in 1..n : FitsInt(Applied(op, a.means[k], b.means[k])))
        /\ UNCHANGED <<columns, sel, out>>

-------------------------------------------------------------------------------
(* db_scalar_op *)

\* The sum of a sequence, its least and greatest value; min and max begin
\* with 0.
Total(s) == LET sum[k \in 0..Len(s)] == IF k = 0 THEN 0 ELSE sum[k - 1] + s[k] IN sum[Len(s)]
Least(set) == CHOOSE m \in set : \A v \in set : m <= v
Greatest(set) == CHOOSE m \in set : \A v \in set : v <= m
ValuesOf(s) == {s[k] : k \in DOMAIN s}

DefectAggregate(op, s) ==
    IF op = "MAX" THEN s[Len(s)] ELSE Total(Tail(s))
\* An average is its sum: the division is by the same count.
Aggregate(op, s) ==
    CASE op \in {"SUM", "AVG"} -> Total(s)
      [] op = "MIN" -> Least(ValuesOf(s) \union {0})
      [] op = "MAX" -> Greatest(ValuesOf(s) \union {0})

TrueAggregate(op, s) ==
    CASE op \in {"SUM", "AVG"} -> Total(s)
      [] op = "MIN" -> Least(ValuesOf(s))
      [] op = "MAX" -> Greatest(ValuesOf(s))

\* Of no value there is no answer.
Scalar(t, op, x) ==
    LET a == Operand(t, x)
        values == ValuesOf(a.means)
    IN  /\ Ready(3)
        /\ a.set
        /\ out' = IF a.payload = << >> THEN [NoAnswer EXCEPT !.kind = "empty", !.op = op]
                  ELSE [NoAnswer EXCEPT !.kind = "scalar", !.op = op, !.value = Aggregate(op, a.payload),
                                        !.right = TrueAggregate(op, a.means)]
        /\ Done(TRUE, a.means # << >> => /\ op = "MIN" => \E v \in values : v <= 0
                                         /\ op = "MAX" => \E v \in values : v >= 0)
        /\ UNCHANGED <<columns, sel, val>>

-------------------------------------------------------------------------------
(* db_join *)

Joined(type, alg, v1, s1, v2, s2, behind) ==
    CASE type = "LONG" /\ alg = "nested-loop" -> NestedJoinLong(v1, s1, v2, s2, behind)
      [] type = "LONG" /\ alg # "nested-loop" -> Lost
      [] type = "INT" /\ alg = "nested-loop" -> NestedJoinInt(v1, s1, v2, s2, behind)
      [] type = "INT" /\ alg = "hash" -> HashJoinInt(v1, s1, v2, s2, behind)
      [] type = "INT" /\ alg = "sort-merge" -> SortJoinInt(v1, s1, v2, s2, behind)
      [] type = "INT" /\ alg = "grace-join" -> GraceJoinInt(v1, s1, v2, s2, behind)

\* What the algorithms need of the two inputs, the bigger one first.
Ascending(v) == \A k \in 2..Len(v) : v[k - 1] < v[k]
Alike(v1, v2) == {p \in (DOMAIN v1) \X (DOMAIN v2) : v1[p[1]] = v2[p[2]]}
JoinKept(alg, v1, v2) ==
    /\ alg = "nested-loop" => Cardinality(Alike(v1, v2)) <= Len(v1)
    /\ alg = "hash" =>
           /\ \A j \in DOMAIN v2 : Cardinality({i \in DOMAIN v1 : v1[i] = v2[j]}) <= 1
           /\ \A j \in DOMAIN v2 : ~ ReadsBefore(v2[j], SlotsFor(Len(v1)))
    /\ alg = "sort-merge" =>
           /\ Ascending(v1) /\ Ascending(v2)
           /\ v1 # << >> => v2 # << >> /\ v1[Len(v1)] = v2[Len(v2)]
\* A partition join answers with other positions than those of the rows.
GraceKept(v1, s1, v2, s2) ==
    LET slot(v) == Abs(v) % Partitions
    IN  /\ \A i \in DOMAIN v1, j \in DOMAIN v2 :
               slot(v1[i]) = slot(v2[j]) => v1[i] = v2[j] /\ s1[i] = 0 /\ s2[j] = 0

\* The vector of the first table is the bigger one only if it is longer.
Join(alg) ==
    LET t1 == IF Len(sel[1].positions) > Len(sel[2].positions) THEN 1 ELSE 2
        t2 == 3 - t1
        turned(pairs) == IF t1 = 1 THEN pairs ELSE [k \in DOMAIN pairs |-> <<pairs[k][2], pairs[k][1]>>]
        right == /\ Aligned(1) /\ Aligned(2)
                 /\ val[1].type = val[2].type
                 /\ val[1].type = "LONG" => alg = "nested-loop"
                 /\ val[1].type = "INT" => JoinKept(alg, val[t1].means, val[t2].means)
                 /\ alg = "grace-join" => GraceKept(val[t1].means, sel[t1].positions,
                                                    val[t2].means, sel[t2].positions)
    IN  /\ Ready(1)
        /\ \A t \in Sides : sel[t].set /\ val[t].set
        /\ \E behind \in Junk :
               LET a == IF val[1].type # val[2].type THEN Lost
                        ELSE Joined(val[1].type, alg, val[t1].payload, sel[t1].positions,
                                    val[t2].payload, sel[t2].positions, behind)
               IN  /\ out' = [NoAnswer EXCEPT
                          !.kind = "join", !.op = alg, !.pairs = turned(a.pairs),
                          !.wanted = {<<val[1].along[m[1]], val[2].along[m[2]]>> : m \in Alike(val[1].means, val[2].means)}]
                   /\ Done(a.ok, right)
        /\ UNCHANGED <<columns, sel, val>>

-------------------------------------------------------------------------------
Next ==
    \/ \E t \in Sides, c \in Places, b \in Bounds[IndexType] : Select(t, c, b[1], b[2])
    \/ \E t \in Sides, b \in Bounds[IndexType] : SelectWithin(t, b[1], b[2])
    \/ \E t, from \in Sides, c \in Places : Fetch(t, c, from)
    \/ \E t \in Sides, c \in Places : FetchJoined(t, c)
    \/ \E t \in Sides : FetchResult(t)
    \/ \E t \in Sides, s \in Sums : Arithmetic(t, s[1], s[2], s[3])
    \/ \E t \in Sides, a \in Aggregates : Scalar(t, a[1], a[2])
    \/ \E alg \in {"nested-loop", "hash", "sort-merge", "grace-join"} : Join(alg)

Spec == Init /\ [][Next]_vars

-------------------------------------------------------------------------------
(* Properties *)

ValueTypeOK(v) ==
    /\ v.set \in BOOLEAN /\ v.type \in {"INT", "LONG"}
    /\ v.payload \in Seq(Int) /\ v.means \in Seq(Int) /\ v.along \in Seq(Int)
\* Types; and while the conditions are kept every position is a row.
TypeOK ==
    /\ \A t \in Sides : sel[t].positions \in Seq(Int) /\ sel[t].rows \subseteq Int /\ ValueTypeOK(val[t])
    /\ kept => \A t \in Sides : ValuesOf(sel[t].positions) \subseteq Cells(columns[t][1].size)
    /\ out.kind \in {"none", "empty", "scalar", "join"}
    /\ out.pairs \in Seq(Int \X Int)
    /\ fault \in BOOLEAN /\ kept \in BOOLEAN
    /\ commands \in Nat

\* While the conditions are kept no select, fetch, aggregate, sum or join
\* crashes, writes behind its answer or runs for ever.
KeptIsSafe == kept => ~ fault

Exactly(s, set) == ValuesOf(s) = set /\ Len(s) = Cardinality(set)

\* While the conditions are kept a position vector holds each row that its
\* select qualifies once and no other: through whichever index, and within
\* values fetched before.
SelectsExact == kept => \A t \in Sides : Exactly(sel[t].positions, sel[t].rows)

\* While the conditions are kept a result has the values, row by row, that
\* the fetches, sums and differences it came from mean.
ValuesExact == kept => \A t \in Sides : val[t].payload = val[t].means

\* While the conditions are kept a join answers with each pair of rows whose
\* values are equal once and with no other, whichever algorithm and whichever
\* side is the bigger one.
JoinsExact == kept /\ out.kind = "join" => Exactly(out.pairs, out.wanted)

\* While the conditions are kept an aggregate is that of the values meant.
ScalarsExact == kept /\ out.kind = "scalar" => out.value = out.right

\* The value is next to a bound in the order of the values.
NextTo(values, v, bound) ==
    \/ v <= bound /\ \A w \in values : w <= v \/ bound <= w
    \/ bound <= v /\ \A w \in values : v <= w \/ w <= bound
\* Whatever the bounds and whether or not the conditions were kept: a select
\* through an index that did not crash is wrong at most about rows whose
\* values are next to one of its bounds.
IndexNearBounds ==
    \A t \in Sides : sel[t].asked[1] # 0 /\ ~ fault =>
        LET col == columns[t][sel[t].asked[1]]
            values == {col.data[i] : i \in Cells(col.size)}
            got == ValuesOf(sel[t].positions)
            wrong == (got \ sel[t].rows) \union (sel[t].rows \ got)
        IN  \A p \in wrong : p \in Cells(col.size) /\ \E i \in {2, 3} :
                sel[t].asked[i] # INVALID_VAL /\ NextTo(values, col.data[p], sel[t].asked[i])
===============================================================================
