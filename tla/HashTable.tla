------------------------------ MODULE HashTable ------------------------------
(***************************************************************************)
(* The hash table the joins build: slots with chains of nodes.  A put goes *)
(* to the tail of the chain of its key's slot, a get walks the chain, an   *)
(* erase unlinks the first node of its key, and deallocate frees as many   *)
(* nodes of every slot as the slot's counter says.                         *)
(*                                                                         *)
(* put looks for the slot of |key|, get and erase for the slot of key: for *)
(* a negative key C's remainder is negative or zero, and a negative one is *)
(* a read before the array.                                                *)
(***************************************************************************)
EXTENDS Integers, Sequences, FiniteSets

CONSTANTS
    Keys, Vals,    \* keyType and valType
    Sizes,         \* expected numbers of elements a caller allocates for
    Buffers,       \* sizes of the buffer a caller passes to get
    MaxPuts        \* bound of the model: nodes ever inserted

\* Shifts until the size is zero, and the slots made from them.
Exp[size \in Nat] == IF size = 0 THEN 0 ELSE Exp[size \div 2] + 1
NSlots(size) == 2 ^ Exp[size] - 1

ASSUME TableAssumption ==
    /\ Keys \subseteq Int
    /\ Sizes \subseteq Nat
    /\ \A size \in Sizes : NSlots(size) \in Nat
    /\ Buffers \subseteq Nat
    /\ MaxPuts \in Nat

VARIABLES
    ptr,           \* the caller's pointer: "null", "live", "dangling", "crashed"
    nslots,        \* ht->nslots
    table,         \* [0..nslots-1 -> chain], a chain being a sequence of nodes
    nitems,        \* what each slot believes its chain to hold
    nassigned,     \* slots that got their first node
    heap,          \* nodes malloc'ed and not freed
    puts,          \* nodes ever inserted: the next node's identity
    out            \* what the last call returned

tableVars == <<nslots, table, nitems, nassigned, heap, puts>>
vars == <<ptr, tableVars, out>>

Answer(op, key, ret, n, found) ==
    [op |-> op, key |-> key, ret |-> ret, num_results |-> n, values |-> found]

Slots == 0..(nslots - 1)
Nodes(chain) == {chain[i] : i \in DOMAIN chain}
AllNodes == UNION {Nodes(table[s]) : s \in Slots}

(* Slots *)

Abs(n) == IF n < 0 THEN -n ELSE n
\* C's remainder takes the sign of its left operand.
Rem(a, n) == IF a < 0 THEN -((-a) % n) ELSE a % n

DefectPutSlotShifted(key) == (Abs(key) + 1) % nslots
PutSlot(key) == Abs(key) % nslots
GetSlot(key) == Rem(key, nslots)

(* Chains *)

AppendTo(chain, node) == Append(chain, node)

\* The chain without its first node of the key; all of it without one.
First(chain, key) == {i \in DOMAIN chain : /\ chain[i].key = key
                                           /\ \A j \in 1..(i - 1) : chain[j].key # key}
DefectUnlinkTail(chain, i) == SubSeq(chain, 1, i - 1)
Unlink(chain, i) == SubSeq(chain, 1, i - 1) \o SubSeq(chain, i + 1, Len(chain))

\* The nodes of the key, as the walk comes to them.
Found(chain, key) ==
    LET found[i \in 0..Len(chain)] ==
            IF i = 0 THEN << >>
            ELSE LET f == found[i - 1]
                 IN  IF chain[i].key = key THEN Append(f, chain[i]) ELSE f
    IN  found[Len(chain)]

DefectCountFirstOnly(n) == IF n = 0 THEN 1 ELSE n
Counted(n) == n + 1

DefectUncountAlways(n, found) == n - 1
Uncounted(n, found) == IF found = {} THEN n ELSE n - 1
-------------------------------------------------------------------------------
Init ==
    /\ ptr = "null"
    /\ nslots = 0
    /\ table = <<>>
    /\ nitems = <<>>
    /\ nassigned = 0
    /\ heap = {}
    /\ puts = 0
    /\ \E k \in Keys : out = Answer("none", k, 0, 0, <<>>)

Allocate(size) ==
    /\ ptr = "null"
    /\ ptr' = "live"
    /\ nslots' = NSlots(size)
    /\ table' = [s \in 0..(nslots' - 1) |-> <<>>]
    /\ nitems' = [s \in 0..(nslots' - 1) |-> 0]
    /\ nassigned' = 0
    /\ out' = Answer("allocate", out.key, 0, 0, <<>>)
    /\ UNCHANGED <<heap, puts>>

\* allocate over a pointer that is not NULL; get and deallocate of NULL.
Refuse(op) ==
    /\ op = "allocate" => ptr \in {"live", "dangling"}
    /\ op \in {"get", "deallocate"} => ptr = "null"
    /\ \E k \in Keys : out' = Answer(op, k, -1, 0, <<>>)
    /\ UNCHANGED <<ptr, tableVars>>

\* Any key: a table with no slots has no remainder.
DivideByZero ==
    /\ ptr = "live"
    /\ nslots = 0
    /\ ptr' = "crashed"
    /\ UNCHANGED <<tableVars, out>>

Put(key, val) ==
    LET s == PutSlot(key)
        node == [id |-> puts, key |-> key, val |-> val]
    IN /\ ptr = "live"
       /\ nslots > 0
       /\ puts < MaxPuts
       /\ table' = [table EXCEPT ![s] = AppendTo(@, node)]
       /\ nitems' = [nitems EXCEPT ![s] = Counted(@)]
       /\ nassigned' = nassigned + (IF table[s] = <<>> THEN 1 ELSE 0)
       /\ heap' = heap \cup {node}
       /\ puts' = puts + 1
       /\ out' = Answer("put", key, 0, 0, <<>>)
       /\ UNCHANGED <<ptr, nslots>>

Get(key, num_values) ==
    LET found == Found(table[GetSlot(key)], key)
        n == Len(found)
    IN /\ ptr = "live"
       /\ nslots > 0
       /\ GetSlot(key) >= 0
       /\ out' = Answer("get", key, IF n = 0 THEN -1 ELSE 0, n,
                        IF num_values < n THEN <<>> ELSE found)
       /\ UNCHANGED <<ptr, tableVars>>

Erase(key) ==
    LET s == GetSlot(key)
        first == First(table[s], key)
    IN /\ ptr = "live"
       /\ nslots > 0
       /\ GetSlot(key) >= 0
       /\ \/ /\ first = {}
             /\ UNCHANGED <<table, heap>>
          \/ \E i \in first :
                 /\ table' = [table EXCEPT ![s] = Unlink(@, i)]
                 /\ heap' = heap \ {table[s][i]}
       /\ nitems' = [nitems EXCEPT ![s] = Uncounted(@, first)]
       /\ out' = Answer("erase", key, 0, 0, <<>>)
       /\ UNCHANGED <<ptr, nslots, nassigned, puts>>

\* A slot before the array: what lies there is no chain of this table.  The
\* walk fails or, when the memory is zero, finds nothing.
BeforeArray(key, op) ==
    /\ ptr = "live"
    /\ nslots > 0
    /\ GetSlot(key) < 0
    /\ \/ /\ ptr' = "crashed"
          /\ out' = out
       \/ /\ ptr' = ptr
          /\ out' = Answer(op, key, IF op = "get" THEN -1 ELSE 0, 0, <<>>)
    /\ UNCHANGED tableVars

\* nitems nodes of every slot are popped and freed; popping an empty chain
\* would read through NULL.
Popped(s) == {table[s][i] : i \in 1..nitems[s] \cap DOMAIN table[s]}

Deallocate ==
    /\ ptr = "live"
    /\ ptr' = IF \E s \in Slots : nitems[s] > Len(table[s]) THEN "crashed" ELSE "dangling"
    /\ heap' = heap \ UNION {Popped(s) : s \in Slots}
    /\ nslots' = 0
    /\ table' = <<>>
    /\ nitems' = <<>>
    /\ nassigned' = 0
    /\ out' = Answer("deallocate", out.key, 0, 0, <<>>)
    /\ UNCHANGED puts

\* The caller sets its pointer to NULL before it allocates again.
Forget ==
    /\ ptr = "dangling"
    /\ ptr' = "null"
    /\ UNCHANGED <<tableVars, out>>

Next ==
    \/ \E size \in Sizes : Allocate(size)
    \/ \E op \in {"allocate", "get", "deallocate"} : Refuse(op)
    \/ DivideByZero
    \/ \E key \in Keys : \/ \E val \in Vals : Put(key, val)
                         \/ \E n \in Buffers : Get(key, n)
                         \/ Erase(key)
                         \/ \E op \in {"get", "erase"} : BeforeArray(key, op)
    \/ Deallocate
    \/ Forget

Spec == Init /\ [][Next]_vars
-------------------------------------------------------------------------------
(* Properties *)

Node == [id : Nat, key : Keys, val : Vals]

\* Every variable has its type, and a table has a chain and a counter for
\* every slot.
TypeOK ==
    /\ ptr \in {"null", "live", "dangling", "crashed"}
    /\ nslots \in Nat
    /\ table \in [Slots -> Seq(Node)]
    /\ nitems \in [Slots -> Nat]
    /\ nassigned \in Nat
    /\ heap \subseteq Node
    /\ puts \in 0..MaxPuts
    /\ out.key \in Keys /\ out.ret \in {0, -1}

\* A pair whose key is not negative lies in the chain that get and erase walk
\* for its key, although put computes the slot from the key's absolute value.
FoundWherePut ==
    \A s \in Slots : \A i \in DOMAIN table[s] :
        table[s][i].key >= 0 => GetSlot(table[s][i].key) = s

\* deallocate frees by the slots' counters: through every sequence of puts and
\* erases they count the chains exactly, so that no node outlives the table.
NothingLeaks == ptr \in {"null", "dangling"} => heap = {}

\* The table implements the insertion-ordered multimap.
Abstract == INSTANCE MultiMap WITH
    store <- AllNodes,
    useless <- ptr = "live" /\ nslots = 0

ImplementsMultiMap == Abstract!Spec

-------------------------------------------------------------------------------
(* The inductive invariant behind them *)

\* Chains hold nodes of their own slot, oldest first; a node is in one place.
ChainsSound ==
    \A s \in Slots : \A i \in DOMAIN table[s] :
        /\ PutSlot(table[s][i].key) = s
        /\ table[s][i].id < puts
        /\ \A j \in DOMAIN table[s] : j < i => table[s][j].id < table[s][i].id

\* The counters count, and what was malloc'ed is what the chains hold.
HeapSound ==
    /\ \A s \in Slots : nitems[s] = Len(table[s])
    /\ ptr # "crashed" => heap = AllNodes
    /\ ptr \in {"null", "dangling"} => nslots = 0

IInv == TypeOK /\ ChainsSound /\ HeapSound
===============================================================================
