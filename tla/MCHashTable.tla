----------------------------- MODULE MCHashTable -----------------------------
(* Small instances of HashTable for TLC. *)
EXTENDS HashTable

\* Two keys of one slot and two of another, for three slots and for one.  The
\* negative one is found in a table of one slot, and missed in one of three.
MCKeys == {-1, 0, 1, 3}
===============================================================================
