----------------------------- MODULE MCProtocol -----------------------------
(* Small instances of Protocol for TLC. *)
EXTENDS Protocol, TLC

CONSTANTS two, three, long, header, empty, other

\* Results of one chunk, and of a chunk and a part; the column is empty at
\* first.  Files of a message and a part, without lines, without a header, and
\* of columns that are not there.
MCResults == {two, three}
MCNumTuples == (two :> 2) @@ (three :> 3)
MCFiles == {long, header, empty, other}
MCLines == (long :> 3) @@ (header :> 0) @@ (empty :> 0) @@ (other :> 1)
MCHeaded == {long, header, other}
MCKnown == {long, header}

Symmetry == Permutations(Clients)
===============================================================================
