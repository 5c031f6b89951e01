----------------------------- MODULE BatchSelect -----------------------------
(***************************************************************************)
(* What a batch of selects promises its client, with no threads in it: the *)
(* selects are collected, and when the batch runs every handle receives,   *)
(* in the order of the batch and in one step each, the answer of its       *)
(* select.  The answer covers the whole column or, when the columns of the *)
(* batch differ in length, at least as many rows as some column of the     *)
(* batch has.                                                              *)
(***************************************************************************)
EXTENDS Selection

CONSTANTS Handles, MaxTasks

VARIABLES
    collecting,    \* selects are being collected
    opened,        \* a batch exists
    size, queue,   \* its selects: [0..size-1 -> [query, res_name]]
    pool,          \* what each handle stands for
    phase,         \* "command", "running" or "crashed"
    published      \* answers handed out so far

vars == <<collecting, opened, size, queue, pool, phase, published>>

Kinds == {"none", "pending", "posvec"}
Empty == [i \in {} |-> 0]
Unset == [kind |-> "none", num_tuples |-> 0, positions |-> Empty]
Pending == [kind |-> "pending", num_tuples |-> 0, positions |-> Empty]

Init ==
    /\ collecting = FALSE
    /\ opened = FALSE
    /\ size = 0
    /\ queue = Empty
    /\ pool = [h \in Handles |-> Unset]
    /\ phase = "command"
    /\ published = 0

Open ==
    /\ phase = "command"
    /\ collecting' = TRUE
    /\ opened' = TRUE
    /\ size' = 0
    /\ queue' = Empty
    /\ UNCHANGED <<pool, phase, published>>

Collect(q, h) ==
    /\ phase = "command"
    /\ collecting
    /\ size < MaxTasks
    /\ size' = size + 1
    /\ queue' = [i \in 0..size |->
                    IF i = size THEN [query |-> q, res_name |-> h] ELSE queue[i]]
    /\ pool' = [pool EXCEPT ![h] = Pending]
    /\ UNCHANGED <<collecting, opened, phase, published>>

Run ==
    /\ phase = "command"
    /\ opened
    /\ collecting' = FALSE
    /\ phase' = "running"
    /\ UNCHANGED <<opened, size, queue, pool, published>>

\* A server that was asked for what it cannot do may stop.
Crash ==
    /\ phase = "command"
    /\ \/ ~opened
       \/ collecting /\ \E h \in Handles : pool[h].kind = "pending"
    /\ phase' = "crashed"
    /\ collecting' \in {collecting, FALSE}
    /\ UNCHANGED <<opened, size, queue, pool, published>>

\* v answers query q, covering at least as many rows as the column of q or
\* some other column of the batch has.
Answers(v, q) ==
    \E m \in 0..NumRows[q.col] :
        /\ \E i \in 0..(size - 1) :
               m >= Lowest(NumRows[q.col], NumRows[queue[i].query.col])
        /\ v.kind = "posvec"
        /\ IsSelection(q, v.positions, v.num_tuples, m)

Publish ==
    /\ phase = "running"
    /\ published < size
    /\ Answers(pool'[queue[published].res_name], queue[published].query)
    /\ \A h \in Handles \ {queue[published].res_name} : pool'[h] = pool[h]
    /\ published' = published + 1
    /\ UNCHANGED <<collecting, opened, size, queue, phase>>

Finish ==
    /\ phase = "running"
    /\ published = size
    /\ phase' = "command"
    /\ published' = 0
    /\ opened' = FALSE
    /\ size' = 0
    /\ queue' = Empty
    /\ UNCHANGED <<collecting, pool>>

Next ==
    \/ Open
    \/ \E q \in Queries, h \in Handles : Collect(q, h)
    \/ Run
    \/ Crash
    \/ Publish
    \/ Finish

Spec == Init /\ [][Next]_vars
===============================================================================
