---------------------------- MODULE MCTableStore ----------------------------
(***************************************************************************)
(* Two columns, every pair of index types: a file with equal values and    *)
(* one that fills two leaves of a tree, rows that go before, between and   *)
(* behind the others.  One column: files up to where the root of a tree is *)
(* full.                                                                   *)
(***************************************************************************)
EXTENDS TableStore, TLC

\* Every property is about behaviours that kept the conditions.
KeptSoFar == kept

AllTypes == ClusteredTypes \union UnclusteredTypes

MCFiles == {<< >>, <<<<2, 7>>, <<1, 9>>, <<2, 8>>>>,
            <<<<6, 1>>, <<1, 3>>, <<4, 2>>, <<2, 5>>, <<3, 4>>, <<5, 6>>>>}
MCNewRows == {<<0, 7>>, <<6, 2>>, <<7, 4>>}
MCBounds == {<<99, 3>>, <<3, 99>>, <<1, 2>>, <<2, 4>>, <<8, 9>>}
MCTypes == <<AllTypes, AllTypes>>

\* 10, 20, ... in n rows, and n rows down to 10
Tens(n) == [i \in 1..n |-> <<10 * i>>]
TensDown(n) == [i \in 1..n |-> <<10 * (n + 1 - i)>>]
TreeFiles == {Tens(9), TensDown(20)}
TreeNewRows == {<<5>>, <<25>>, <<30>>}
TreeBounds == {<<10, 11>>, <<20, 21>>, <<30, 31>>}
TreeTypes == <<{"CLUSTER_SORT", "CLUSTER_BTREE", "UNCLUSTER_BTREE"}>>
===============================================================================
