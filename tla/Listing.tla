------------------------------- MODULE Listing -------------------------------
(***************************************************************************)
(* What a print shows.  Its operands are results of a fixed number of rows *)
(* or the column of a table; a row is what its operands hold at one index. *)
(***************************************************************************)
EXTENDS Naturals, Sequences, FiniteSets

CONSTANTS
    Results,    \* handles of results and scalars
    NumTuples,  \* [Results -> Nat]
    Column,     \* the column of the table
    Junk        \* what memory that was never written holds

ASSUME ListingAssumption ==
    /\ IsFiniteSet(Results)
    /\ NumTuples \in [Results -> Nat]
    /\ Column \notin Results
    /\ Junk \notin Results \cup {Column}

Count(x, table) == IF x = Column THEN Len(table) ELSE NumTuples[x]

\* print_get_num_rows: the longest operand decides.
NumRows(objs, table) ==
    IF objs = {} THEN 0
    ELSE LET longest == CHOOSE x \in objs :
                            \A y \in objs : Count(y, table) <= Count(x, table)
         IN  Count(longest, table)

\* Behind the end of a shorter operand there is junk.
Row(objs, j, table) ==
    IF \E x \in objs : Count(x, table) <= j THEN Junk
    ELSE IF Column \in objs THEN table[j + 1]
    ELSE <<objs, j>>

\* Rows first to next - 1.
Rows(objs, first, next, table) ==
    [k \in 1..(next - first) |-> Row(objs, first + k - 1, table)]
===============================================================================
