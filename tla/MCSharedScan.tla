---------------------------- MODULE MCSharedScan ----------------------------
(* Small instances of SharedScan for TLC. *)
EXTENDS SharedScan, TLC

CONSTANTS c1, c2, s    \* two columns of one table, and a shorter one

MCInvalid == -9

MCNumRows == c1 :> 3 @@ c2 :> 3 @@ s :> 1
MCData == c1 :> [r \in 0..2 |-> <<5, 1, 3>>[r + 1]]
       @@ c2 :> [r \in 0..2 |-> <<2, 2, 7>>[r + 1]]
       @@ s :> [r \in 0..0 |-> 4]

\* Both bounds; only a high one, which every row of c2 is below; and only a
\* low one, on the shorter column.
MCQueries == {[col |-> c1, lo |-> 2, hi |-> 6],
              [col |-> c2, lo |-> MCInvalid, hi |-> 9],
              [col |-> s, lo |-> 0, hi |-> MCInvalid]}
===============================================================================
