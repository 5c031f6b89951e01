------------------------------- MODULE MCQuery -------------------------------
(***************************************************************************)
(* Without an index, long sequences of commands on small tables: values    *)
(* that differ, that are equal and that have partners.  With one, every    *)
(* kind of bounds on a table of two leaves, one whose tree stays a single  *)
(* leaf and one with equal values.                                         *)
(***************************************************************************)
EXTENDS Query

\* Every property is about behaviours that kept the conditions, up to the
\* first command that left them.
KeptSoFar == kept

MCIndexTypes == ClusteredTypes \union UnclusteredTypes \union {"NONE"}
ByType(plain, indexed) == [type \in MCIndexTypes |-> IF type = "NONE" THEN plain ELSE indexed]

Six == <<<<4, 1>>, <<12, -1>>, <<2, 3>>, <<10, 2>>, <<6, 1>>, <<8, -1>>>>
Three == <<<<4, 4>>, <<2, -1>>, <<6, 12>>>>
Equal == <<<<4, 4>>, <<2, -1>>, <<4, 12>>>>
Other == <<<<-1, 4>>, <<2, 12>>>>
MCTables == ByType({<<Six, Other>>, <<Equal, Other>>, <<<<<<4, 1>>, <<4, 2>>>>, <<<<4, 4>>, <<4, 4>>>>>>},
                   {<<Six, Other>>, <<Three, Other>>, <<Equal, Other>>})
MCBounds == ByType({<<2, 99>>, <<99, 5>>, <<4, 11>>},
                   {<<1, 99>>, <<2, 99>>, <<20, 99>>, <<99, 1>>, <<99, 5>>, <<99, 6>>,
                    <<4, 10>>, <<4, 11>>, <<8, 11>>, <<9, 11>>})
MCSums == {<<"ADD", 0, 0>>, <<"SUB", 1, 0>>, <<"ADD", 1, 1>>, <<"ADD", 1, 2>>, <<"ADD", 2, 0>>, <<"ADD", 0, 1>>}
MCAggregates == {<<"SUM", 0>>, <<"AVG", 1>>, <<"MIN", 0>>, <<"MIN", 2>>, <<"MAX", 0>>}
MCMaxCommands == [ByType(6, 2) EXCEPT !["UNCLUSTER_SORT"] = 3]
MCJunk == {-9, 50}
MCIntMin == -16
MCIntMax == 15
===============================================================================
