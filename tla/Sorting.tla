------------------------------- MODULE Sorting -------------------------------
(***************************************************************************)
(* Arrays, the merge sort behind every index, and the binary search on     *)
(* sorted arrays.  An array of n cells is a function on 0..n-1, as in C.   *)
(***************************************************************************)
EXTENDS Integers, Sequences

Cells(n) == 0..(n - 1)

(* sort_data *)

\* Two sorted runs of <<value, position>> into one; the left one goes first
\* where values are equal.
Merge(l, r) ==
    LET m[p \in (1..(Len(l) + 1)) \X (1..(Len(r) + 1))] ==
            LET i == p[1]
                j == p[2]
            IN  IF j > Len(r) THEN SubSeq(l, i, Len(l))
                ELSE IF i > Len(l) THEN SubSeq(r, j, Len(r))
                ELSE IF l[i][1] <= r[j][1] THEN <<l[i]>> \o m[<<i + 1, j>>]
                ELSE <<r[j]>> \o m[<<i, j + 1>>]
    IN  m[<<1, 1>>]

\* The sorted cells of the array and where each was, for n > 0.
SortUnits(data, n) ==
    LET run[p \in Cells(n) \X Cells(n)] ==
            LET s == p[1]
                e == p[2]
                mid == s + (e - s) \div 2
            IN  IF s >= e THEN <<<<data[s], s>>>>
                ELSE Merge(run[<<s, mid>>], run[<<mid + 1, e>>])
    IN  run[<<0, n - 1>>]
SortedValues(units) == [i \in Cells(Len(units)) |-> units[i + 1][1]]
SortedPositions(units) == [i \in Cells(Len(units)) |-> units[i + 1][2]]

(* binary_search_data *)

\* What the search answers where keys[mid] <= key < keys[mid + 1].
Hit(keys, mid, key, op) ==
    CASE op \in {"LESS_EQUAL", "GREATER_EQUAL"} -> mid
      [] op = "LESS" -> IF key > keys[mid] THEN mid ELSE mid - 1
      [] op = "GREATER" -> mid + 1

DefectSearchData(data, end, key, op) == end
\* It looks at one cell behind the last; without a hit it answers where the
\* halves met.  With no cell at all, end is -1.
SearchData(data, end, key, op) ==
    LET at[p \in (0..(end + 1)) \X (-1..end)] ==
            LET s == p[1]
                e == p[2]
                mid == IF e < s THEN s ELSE s + (e - s) \div 2
            IN  IF key >= data[mid] /\ key < data[mid + 1] THEN Hit(data, mid, key, op)
                ELSE IF s >= e THEN s
                ELSE IF key <= data[mid] THEN at[<<s, mid>>]
                ELSE at[<<mid + 1, e>>]
    IN  at[<<0, end>>]
===============================================================================
