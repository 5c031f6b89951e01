--------------------------- MODULE MCVariablePool ---------------------------
(* Small instances of VariablePool for TLC. *)
EXTENDS VariablePool, TLC

\* Addresses are interchangeable, and so are column names and handle names.
Symmetry == Permutations(Objects) \cup Permutations(Columns) \cup Permutations(Handles)

\* Every property is about clients that keep the rules: what follows when one
\* was broken is not explored.
RulesKept == kept
===============================================================================
