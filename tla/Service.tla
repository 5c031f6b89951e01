------------------------------- MODULE Service -------------------------------
(***************************************************************************)
(* What client and server promise together: a client gives one order at a  *)
(* time; what an order prints appears row by row, once and in order; what  *)
(* it adds is stored line by line, once and in order; and the order is     *)
(* answered when all was shown and stored.  A client may leave or be lost  *)
(* at any time; what it ordered may then have been done in part.           *)
(***************************************************************************)
EXTENDS Listing

CONSTANTS
    Clients,
    Orders,     \* [prints |-> set of operands, adds |-> sequence of lines]
    NoOrder

VARIABLES
    present,    \* clients that are connected
    order,      \* what each client waits for
    shown,      \* the rows its order printed
    stored,     \* how many lines its order added
    table       \* lines of the table

vars == <<present, order, shown, stored, table>>

Init ==
    /\ present = {}
    /\ order = [c \in Clients |-> NoOrder]
    /\ shown = [c \in Clients |-> <<>>]
    /\ stored = [c \in Clients |-> 0]
    /\ table = <<>>

Join(c) ==
    /\ c \notin present
    /\ present' = present \cup {c}
    /\ UNCHANGED <<order, shown, stored, table>>

Quit(c) ==
    /\ c \in present
    /\ present' = present \ {c}
    /\ UNCHANGED <<order, shown, stored, table>>

Ask(c) ==
    /\ c \in present
    /\ order[c] = NoOrder
    /\ \E k \in Orders : order' = [order EXCEPT ![c] = k]
    /\ shown' = [shown EXCEPT ![c] = <<>>]
    /\ stored' = [stored EXCEPT ![c] = 0]
    /\ UNCHANGED <<present, table>>

\* The next rows; the last ones may come with the answer.
Show(c) ==
    /\ c \in present
    /\ order[c] # NoOrder
    /\ \E n \in Len(shown[c])..NumRows(order[c].prints, table) :
           shown' = [shown EXCEPT ![c] =
                        @ \o Rows(order[c].prints, Len(@), n, table)]

Answer(c) ==
    /\ Show(c)
    /\ Len(shown'[c]) = NumRows(order[c].prints, table)
    /\ stored[c] = Len(order[c].adds)
    /\ order' = [order EXCEPT ![c] = NoOrder]
    /\ UNCHANGED <<present, stored, table>>

Store(c) ==
    /\ order[c] # NoOrder
    /\ \E n \in stored[c]..Len(order[c].adds) :
           /\ table' = table \o SubSeq(order[c].adds, stored[c] + 1, n)
           /\ stored' = [stored EXCEPT ![c] = n]
    /\ UNCHANGED <<present, order, shown>>

Next ==
    \E c \in Clients :
        \/ Join(c) \/ Quit(c) \/ Ask(c) \/ Store(c) \/ Answer(c)
        \/ Show(c) /\ UNCHANGED <<present, order, stored, table>>

Spec == Init /\ [][Next]_vars
===============================================================================
