---------------------------- MODULE MCPersistence ----------------------------
(* Small instances of Persistence for TLC. *)
EXTENDS Persistence, TLC

\* Names are interchangeable.
Symmetry == Permutations(Tables) \cup Permutations(Columns)

\* Nothing is promised once a file failed or a rule was broken.
RulesKept == kept
===============================================================================
