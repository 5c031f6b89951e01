------------------------------ MODULE Selection ------------------------------
(***************************************************************************)
(* Columns, range selects over them, and what it means for a position      *)
(* vector to be the answer of a select.                                    *)
(***************************************************************************)
EXTENDS Integers

CONSTANTS
    Columns,       \* base columns
    NumRows,       \* [Columns -> Nat]: col_size
    Data,          \* for each column, a function from 0..NumRows-1 to Int
    Queries,       \* selects a client may send: [col, lo, hi]
    INVALID_VAL    \* the value of a bound that was not given ("null")

ASSUME SelectionAssumption ==
    /\ NumRows \in [Columns -> Nat]
    /\ \A c \in Columns : Data[c] \in [0..(NumRows[c] - 1) -> Int]
    /\ INVALID_VAL \in Int
    /\ Queries \subseteq [col : Columns, lo : Int, hi : Int]

\* A select without any bound (SEL_NONE) has no select function.
ASSUME BoundsAssumption ==
    \A q \in Queries : q.lo # INVALID_VAL \/ q.hi # INVALID_VAL

\* The predicate of the select function that select_type chooses: a bound
\* that was not given does not restrict.
Qualifies(q, r) ==
    /\ q.lo # INVALID_VAL => Data[q.col][r] >= q.lo
    /\ q.hi # INVALID_VAL => Data[q.col][r] < q.hi

Lowest(a, b) == IF a < b THEN a ELSE b

\* The first n cells of arr list, in increasing order, exactly the rows
\* below m that the query selects.
IsSelection(q, arr, n, m) ==
    /\ n <= m
    /\ \A j \in 0..(n - 1) : arr[j] \in 0..(m - 1) /\ Qualifies(q, arr[j])
    /\ \A i, j \in 0..(n - 1) : i < j => arr[i] < arr[j]
    /\ \A r \in 0..(m - 1) : Qualifies(q, r) => \E j \in 0..(n - 1) : arr[j] = r
===============================================================================
