------------------------------- MODULE MultiMap -------------------------------
(***************************************************************************)
(* What a hash table promises its user: a bag of key-value pairs that      *)
(* remembers the order of insertion.  A lookup reports every pair of a key *)
(* and copies them out, oldest first, if the caller's buffer holds them    *)
(* all; a removal takes the oldest pair of a key.  Of negative keys there  *)
(* is no such promise: they may be missed, or be the end of the program.   *)
(***************************************************************************)
EXTENDS Integers, Sequences, FiniteSets

CONSTANTS Keys, Vals, MaxPuts, Buffers

VARIABLES
    store,      \* the pairs in the table: [id, key, val], id in order of insertion
    puts,       \* pairs inserted so far
    useless,    \* the table was made for no element at all
    ptr,        \* the caller's pointer: "null", "live", "dangling", "crashed"
    out         \* what the last call returned

vars == <<store, puts, useless, ptr, out>>

Matching(key) == {x \in store : x.key = key}

\* s lists the pairs in S, oldest first.
Lists(s, S) ==
    /\ {s[i] : i \in DOMAIN s} = S
    /\ \A i, j \in DOMAIN s : i < j => s[i].id < s[j].id

Answer(op, key, ret, n, found) ==
    [op |-> op, key |-> key, ret |-> ret, num_results |-> n, values |-> found]

Init ==
    /\ store = {}
    /\ puts = 0
    /\ useless = FALSE
    /\ ptr = "null"
    /\ \E k \in Keys : out = Answer("none", k, 0, 0, <<>>)

Create ==
    /\ ptr = "null"
    /\ ptr' = "live"
    /\ store' = {}
    /\ useless' \in BOOLEAN
    /\ out' = Answer("allocate", out.key, 0, 0, <<>>)
    /\ UNCHANGED puts

Refuse(op) ==
    /\ op = "allocate" => ptr \in {"live", "dangling"}
    /\ op \in {"get", "deallocate"} => ptr = "null"
    /\ \E k \in Keys : out' = Answer(op, k, -1, 0, <<>>)
    /\ UNCHANGED <<store, puts, useless, ptr>>

Insert(key, val) ==
    /\ ptr = "live"
    /\ puts < MaxPuts
    /\ puts' = puts + 1
    /\ store' = store \cup {[id |-> puts, key |-> key, val |-> val]}
    /\ out' = Answer("put", key, 0, 0, <<>>)
    /\ UNCHANGED <<useless, ptr>>

\* The pairs of a key are counted, and copied if num_values is enough.
Lookup(key, num_values) ==
    LET n == Cardinality(Matching(key))
    IN /\ ptr = "live"
       /\ \E found \in [1..n -> Matching(key)] :
              /\ Lists(found, Matching(key))
              /\ out' = Answer("get", key, IF n = 0 THEN -1 ELSE 0, n,
                               IF num_values < n THEN <<>> ELSE found)
       /\ UNCHANGED <<store, puts, useless, ptr>>

\* The oldest pair of the key goes.
Remove(key) ==
    /\ ptr = "live"
    /\ store' = {x \in store : x.key = key => \E y \in Matching(key) : y.id < x.id}
    /\ out' = Answer("erase", key, 0, 0, <<>>)
    /\ UNCHANGED <<puts, useless, ptr>>

Destroy ==
    /\ ptr = "live"
    /\ ptr' = "dangling"
    /\ store' = {}
    /\ useless' = FALSE
    /\ out' = Answer("deallocate", out.key, 0, 0, <<>>)
    /\ UNCHANGED puts

\* The caller sets its pointer to NULL.
Forget ==
    /\ ptr = "dangling"
    /\ ptr' = "null"
    /\ UNCHANGED <<store, puts, useless, out>>

\* A table for no element has no slot to look in.
Crash ==
    /\ ptr = "live"
    /\ useless
    /\ ptr' = "crashed"
    /\ useless' = FALSE
    /\ UNCHANGED <<store, puts, out>>

\* A negative key may be looked for where no pair is.
Miss(key, op) ==
    /\ ptr = "live"
    /\ key < 0
    /\ \/ ptr' = "crashed" /\ useless' = FALSE /\ UNCHANGED out
       \/ /\ out' = Answer(op, key, IF op = "get" THEN -1 ELSE 0, 0, <<>>)
          /\ UNCHANGED <<ptr, useless>>
    /\ UNCHANGED <<store, puts>>

Next ==
    \/ Create
    \/ \E op \in {"allocate", "get", "deallocate"} : Refuse(op)
    \/ \E key \in Keys : \/ \E val \in Vals : Insert(key, val)
                         \/ \E n \in Buffers : Lookup(key, n)
                         \/ Remove(key)
                         \/ \E op \in {"get", "erase"} : Miss(key, op)
    \/ Destroy
    \/ Forget
    \/ Crash

Spec == Init /\ [][Next]_vars
===============================================================================
