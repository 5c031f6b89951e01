--------------------------- MODULE HashTableProofs ---------------------------
(***************************************************************************)
(* Proofs about HashTable, for all keys, values and sizes: pairs are found *)
(* where they were put, deallocate frees every node, and the table is the  *)
(* multimap that remembers the order of insertion.                         *)
(***************************************************************************)
EXTENDS HashTable, SequenceTheorems, FiniteSetTheorems, WellFoundedInduction, TLAPS

(* Slots *)

\* C's remainder of an absolute value is a slot.
LEMMA ModRange ==
  ASSUME NEW n \in Nat \ {0}, NEW a \in Nat
  PROVE  a % n \in 0..(n - 1)
  OBVIOUS

\* put's slot exists; get's slot, when it exists, is put's.
LEMMA SlotFacts ==
  ASSUME nslots \in Nat \ {0}, NEW key \in Int
  PROVE  /\ PutSlot(key) \in Slots
         /\ GetSlot(key) >= 0 => GetSlot(key) = PutSlot(key)
         /\ key >= 0 => GetSlot(key) = PutSlot(key)
<1>1. Abs(key) \in Nat
  BY DEF Abs
<1>2. PutSlot(key) \in 0..(nslots - 1)
  BY <1>1, ModRange DEF PutSlot
<1>3. CASE key < 0
  <2>1. Abs(key) = -key
    BY <1>3 DEF Abs
  <2>2. GetSlot(key) = -PutSlot(key)
    BY <1>3, <2>1 DEF GetSlot, PutSlot, Rem
  <2> QED
    BY <1>2, <1>3, <2>2 DEF Slots
<1>4. CASE key >= 0
  <2>1. Abs(key) = key
    BY <1>4 DEF Abs
  <2>2. GetSlot(key) = PutSlot(key)
    BY <1>4, <2>1 DEF GetSlot, PutSlot, Rem
  <2> QED
    BY <1>2, <2>2 DEF Slots
<1> QED
  BY <1>3, <1>4
-------------------------------------------------------------------------------
(* Chains *)

Ascending(chain) ==
    \A i, j \in DOMAIN chain : j < i => chain[j].id < chain[i].id

\* A longer chain.
LEMMA AppendFacts ==
  ASSUME NEW chain \in Seq(Node), NEW node \in Node
  PROVE  /\ AppendTo(chain, node) \in Seq(Node)
         /\ Len(AppendTo(chain, node)) = Len(chain) + 1
         /\ DOMAIN AppendTo(chain, node) = 1..(Len(chain) + 1)
         /\ \A i \in 1..Len(chain) : AppendTo(chain, node)[i] = chain[i]
         /\ AppendTo(chain, node)[Len(chain) + 1] = node
         /\ DOMAIN chain = 1..Len(chain)
         /\ Len(chain) \in Nat
BY AppendProperties, LenProperties DEF AppendTo

\* A chain without its i-th node.
LEMMA UnlinkFacts ==
  ASSUME NEW chain \in Seq(Node), NEW i \in DOMAIN chain
  PROVE  /\ Unlink(chain, i) \in Seq(Node)
         /\ Len(Unlink(chain, i)) = Len(chain) - 1
         /\ DOMAIN Unlink(chain, i) = 1..(Len(chain) - 1)
         /\ DOMAIN chain = 1..Len(chain)
         /\ Len(chain) \in Nat
         /\ \A j \in 1..(Len(chain) - 1) :
               Unlink(chain, i)[j] = IF j < i THEN chain[j] ELSE chain[j + 1]
<1> DEFINE a == SubSeq(chain, 1, i - 1)
           b == SubSeq(chain, i + 1, Len(chain))
<1>1. i \in 1..Len(chain) /\ Len(chain) \in Nat /\ DOMAIN chain = 1..Len(chain)
  BY LenProperties
<1>2. /\ a \in Seq(Node)
      /\ Len(a) = i - 1
      /\ \A j \in 1..(i - 1) : a[j] = chain[j]
  <2>1. \A j \in 1..(i - 1) : j \in 1..Len(chain)
    BY <1>1
  <2> QED
    BY <1>1, <2>1, SubSeqProperties
<1>3. /\ b \in Seq(Node)
      /\ Len(b) = Len(chain) - i
      /\ \A j \in 1..(Len(chain) - i) : b[j] = chain[j + i]
  <2>1. i + 1 \in 1..(Len(chain) + 1) /\ Len(chain) \in 0..Len(chain)
    BY <1>1
  <2>2. \A j \in (i + 1)..Len(chain) : j \in 1..Len(chain)
    BY <1>1
  <2>3. /\ b \in Seq(Node)
        /\ Len(b) = IF i + 1 <= Len(chain) THEN Len(chain) - (i + 1) + 1 ELSE 0
        /\ \A j \in 1..(Len(chain) - (i + 1) + 1) : b[j] = chain[(i + 1) + j - 1]
    BY <1>1, <2>1, <2>2, SubSeqProperties
  <2> QED
    BY <1>1, <2>3
<1>4. Unlink(chain, i) = a \o b
  BY DEF Unlink
<1> HIDE DEF a, b
<1>5. /\ a \o b \in Seq(Node)
      /\ Len(a \o b) = Len(chain) - 1
      /\ DOMAIN (a \o b) = 1..(Len(chain) - 1)
  <2>1. a \o b \in Seq(Node) /\ Len(a \o b) = Len(a) + Len(b)
    BY <1>2, <1>3, ConcatProperties
  <2>2. DOMAIN (a \o b) = 1..Len(a \o b)
    BY <2>1, LenProperties
  <2>3. Len(a) + Len(b) = Len(chain) - 1
    BY <1>1, <1>2, <1>3
  <2> QED
    BY <2>1, <2>2, <2>3
<1>6. ASSUME NEW j \in 1..(Len(chain) - 1)
      PROVE  (a \o b)[j] = IF j < i THEN chain[j] ELSE chain[j + 1]
  <2>1. Len(a) + Len(b) = Len(chain) - 1
    BY <1>1, <1>2, <1>3
  <2>2. (a \o b)[j] = IF j <= Len(a) THEN a[j] ELSE b[j - Len(a)]
    <3>1. j \in 1..(Len(a) + Len(b))
      BY <1>6, <2>1
    <3> QED
      BY <1>2, <1>3, <3>1, ConcatProperties
  <2>3. CASE j < i
    BY <1>1, <1>2, <1>6, <2>2, <2>3
  <2>4. CASE j >= i
    <3>1. (a \o b)[j] = b[j - (i - 1)]
      BY <1>1, <1>2, <1>6, <2>2, <2>4
    <3>2. j - (i - 1) \in 1..(Len(chain) - i)
      BY <1>1, <1>6, <2>4
    <3>3. b[j - (i - 1)] = chain[(j - (i - 1)) + i]
      BY <1>3, <3>2
    <3>4. (j - (i - 1)) + i = j + 1
      BY <1>1, <1>6
    <3> QED
      BY <1>1, <1>6, <2>4, <3>1, <3>3, <3>4
  <2>5. j < i \/ j >= i
    BY <1>1, <1>6
  <2> QED
    BY <2>3, <2>4, <2>5
<1> QED
  BY <1>1, <1>4, <1>5, <1>6

\* The nodes of a longer chain, and its order.
LEMMA AppendNodes ==
  ASSUME NEW chain \in Seq(Node), NEW node \in Node, Ascending(chain),
         \A i \in DOMAIN chain : chain[i].id < node.id
  PROVE  /\ Nodes(AppendTo(chain, node)) = Nodes(chain) \cup {node}
         /\ Ascending(AppendTo(chain, node))
<1> DEFINE new == AppendTo(chain, node)
<1>1. /\ DOMAIN new = 1..(Len(chain) + 1)
      /\ \A i \in 1..Len(chain) : new[i] = chain[i]
      /\ new[Len(chain) + 1] = node
      /\ DOMAIN chain = 1..Len(chain)
      /\ Len(chain) \in Nat
  BY AppendFacts
<1> HIDE DEF new
<1>2. Nodes(new) = Nodes(chain) \cup {node}
  <2>1. \A i \in 1..(Len(chain) + 1) : i \in 1..Len(chain) \/ i = Len(chain) + 1
    BY <1>1
  <2>2. \A i \in 1..Len(chain) : i \in 1..(Len(chain) + 1)
    BY <1>1
  <2>3. Len(chain) + 1 \in 1..(Len(chain) + 1)
    BY <1>1
  <2> QED
    BY <1>1, <2>1, <2>2, <2>3 DEF Nodes
<1>3. ASSUME NEW i \in DOMAIN new, NEW j \in DOMAIN new, j < i
      PROVE  new[j].id < new[i].id
  <2>1. j \in 1..Len(chain)
    BY <1>1, <1>3
  <2>2. CASE i \in 1..Len(chain)
    BY <1>1, <1>3, <2>1, <2>2 DEF Ascending
  <2>3. CASE i = Len(chain) + 1
    BY <1>1, <2>1, <2>3
  <2> QED
    BY <1>1, <2>2, <2>3
<1> QED
  BY <1>2, <1>3 DEF Ascending, new

\* The nodes of a chain that lost one, and its order.
LEMMA UnlinkNodes ==
  ASSUME NEW chain \in Seq(Node), NEW i \in DOMAIN chain, Ascending(chain)
  PROVE  /\ Nodes(Unlink(chain, i)) = Nodes(chain) \ {chain[i]}
         /\ Ascending(Unlink(chain, i))
<1> DEFINE new == Unlink(chain, i)
           n == Len(chain)
<1>1. /\ DOMAIN new = 1..(n - 1)
      /\ DOMAIN chain = 1..n
      /\ n \in Nat
      /\ \A j \in 1..(n - 1) : new[j] = IF j < i THEN chain[j] ELSE chain[j + 1]
      /\ i \in 1..n
  BY UnlinkFacts
<1>2. \A j \in DOMAIN chain : chain[j].id \in Nat
  <2>1. \A j \in 1..Len(chain) : chain[j] \in Node
    BY ElementOfSeq
  <2> QED
    BY <1>1, <2>1 DEF Node
<1> HIDE DEF new, n
<1>3. ASSUME NEW j \in 1..n, j # i
      PROVE  chain[j] # chain[i]
  BY <1>1, <1>2, <1>3 DEF Ascending
<1>4. Nodes(new) \subseteq Nodes(chain) \ {chain[i]}
  <2> SUFFICES ASSUME NEW j \in 1..(n - 1)
               PROVE  new[j] \in Nodes(chain) \ {chain[i]}
    BY <1>1 DEF Nodes
  <2>1. CASE j < i
    <3>1. new[j] = chain[j] /\ j \in 1..n /\ j # i
      BY <1>1, <2>1
    <3> QED
      BY <1>1, <1>3, <3>1 DEF Nodes
  <2>2. CASE ~(j < i)
    <3>1. new[j] = chain[j + 1] /\ j + 1 \in 1..n /\ j + 1 # i
      BY <1>1, <2>2
    <3> QED
      BY <1>1, <1>3, <3>1 DEF Nodes
  <2> QED
    BY <2>1, <2>2
<1>5. Nodes(chain) \ {chain[i]} \subseteq Nodes(new)
  <2> SUFFICES ASSUME NEW j \in 1..n, j # i
               PROVE  chain[j] \in Nodes(new)
    BY <1>1 DEF Nodes
  <2>1. CASE j < i
    <3>1. new[j] = chain[j] /\ j \in 1..(n - 1)
      BY <1>1, <2>1
    <3> QED
      BY <1>1, <3>1 DEF Nodes
  <2>2. CASE j > i
    <3>1. j - 1 \in 1..(n - 1) /\ ~(j - 1 < i) /\ (j - 1) + 1 = j
      BY <1>1, <2>2
    <3>2. new[j - 1] = chain[j]
      BY <1>1, <3>1
    <3> QED
      BY <1>1, <3>1, <3>2 DEF Nodes
  <2> QED
    BY <1>1, <2>1, <2>2
<1>6. ASSUME NEW x \in 1..(n - 1), NEW y \in 1..(n - 1), y < x
      PROVE  new[y].id < new[x].id
  <2> DEFINE At(z) == IF z < i THEN z ELSE z + 1
  <2>1. new[x] = chain[At(x)] /\ new[y] = chain[At(y)]
    BY <1>1
  <2>2. At(x) \in 1..n /\ At(y) \in 1..n /\ At(y) < At(x)
    BY <1>1, <1>6
  <2> HIDE DEF At
  <2> QED
    BY <1>1, <2>1, <2>2 DEF Ascending
<1> QED
  BY <1>1, <1>4, <1>5, <1>6 DEF Ascending, new
-------------------------------------------------------------------------------
(* The invariant *)

\* The chains of an invariant state.
LEMMA ChainFacts ==
  ASSUME IInv, NEW s \in Slots
  PROVE  /\ table[s] \in Seq(Node)
         /\ Ascending(table[s])
         /\ \A x \in Nodes(table[s]) : x \in Node /\ PutSlot(x.key) = s /\ x.id < puts
         /\ DOMAIN table[s] = 1..Len(table[s])
         /\ nitems[s] = Len(table[s])
<1>1. table[s] \in Seq(Node)
  BY DEF IInv, TypeOK
<1>2. \A i \in DOMAIN table[s] : table[s][i] \in Node
  BY <1>1, ElementOfSeq, LenProperties
<1> QED
  BY <1>1, <1>2, LenProperties DEF IInv, ChainsSound, HeapSound, Ascending, Nodes

\* No table yet: nothing to say.
LEMMA InitIInv == Init => IInv
<1> SUFFICES ASSUME Init PROVE IInv
  OBVIOUS
<1>1. Slots = {}
  BY DEF Init, Slots
<1>2. AllNodes = {}
  BY <1>1 DEF AllNodes
<1>3. TypeOK
  <2>1. table = [s \in Slots |-> <<>>] /\ nitems = [s \in Slots |-> 0]
    BY <1>1 DEF Init
  <2>2. table \in [Slots -> Seq(Node)] /\ nitems \in [Slots -> Nat]
    BY <2>1, EmptySeq
  <2>3. out.key \in Keys /\ out.ret \in {0, -1}
    BY DEF Init, Answer
  <2>4. puts \in 0..MaxPuts
    BY TableAssumption DEF Init
  <2> QED
    BY <2>2, <2>3, <2>4 DEF Init, TypeOK
<1> QED
  BY <1>1, <1>2, <1>3 DEF Init, IInv, ChainsSound, HeapSound

\* The caller gets a table of empty chains.
LEMMA AllocateIInv ==
  ASSUME IInv, NEW size \in Sizes, Allocate(size)
  PROVE  IInv'
<1>1. heap = {}
  <2>1. nslots = 0 /\ heap = AllNodes
    BY DEF Allocate, IInv, HeapSound
  <2>2. Slots = {}
    BY <2>1 DEF Slots
  <2> QED
    BY <2>1, <2>2 DEF AllNodes
<1>2. /\ nslots' \in Nat
      /\ table' = [s \in Slots' |-> <<>>]
      /\ nitems' = [s \in Slots' |-> 0]
      /\ heap' = heap /\ puts' = puts /\ ptr' = "live" /\ nassigned' = 0
  BY TableAssumption DEF Allocate, Slots
<1>3. TypeOK'
  <2>1. table' \in [Slots' -> Seq(Node)] /\ nitems' \in [Slots' -> Nat]
    BY <1>2, EmptySeq
  <2>2. out'.key \in Keys /\ out'.ret \in {0, -1}
    BY DEF Allocate, Answer, IInv, TypeOK
  <2> QED
    BY <1>2, <2>1, <2>2 DEF IInv, TypeOK
<1>4. \A s \in Slots' : table'[s] = <<>> /\ nitems'[s] = 0
  BY <1>2
<1>5. ChainsSound'
  BY <1>4 DEF ChainsSound
<1>6. HeapSound'
  <2>1. AllNodes' = {}
    BY <1>4 DEF AllNodes, Nodes
  <2> QED
    BY <1>1, <1>2, <1>4, <2>1 DEF HeapSound
<1> QED
  BY <1>3, <1>5, <1>6 DEF IInv

\* Steps that leave the table alone.
LEMMA KeptTable ==
  ASSUME IInv, UNCHANGED tableVars,
         out'.key \in Keys, out'.ret \in {0, -1},
         \/ ptr' = ptr
         \/ ptr = "live" /\ ptr' = "crashed"
         \/ ptr = "dangling" /\ ptr' = "null"
  PROVE  IInv'
<1> USE DEF tableVars
<1>1. TypeOK'
  BY DEF IInv, TypeOK, Slots
<1>2. ChainsSound'
  BY DEF IInv, ChainsSound, Slots, PutSlot
<1>3. HeapSound'
  BY DEF IInv, HeapSound, AllNodes, Slots
<1> QED
  BY <1>1, <1>2, <1>3 DEF IInv

\* A step that changes the chain of one slot, its counter and the heap.
LEMMA OneChain ==
  ASSUME IInv, nslots' = nslots, ptr = "live", ptr' = "live", puts' \in 0..MaxPuts, puts <= puts',
         nassigned' \in Nat, out'.key \in Keys, out'.ret \in {0, -1},
         NEW s0 \in Slots, NEW chain \in Seq(Node), NEW n \in Nat,
         table' = [table EXCEPT ![s0] = chain],
         nitems' = [nitems EXCEPT ![s0] = n],
         n = Len(chain),
         Ascending(chain),
         \A x \in Nodes(chain) : PutSlot(x.key) = s0 /\ x.id < puts',
         \A x \in heap' : x \in Nodes(chain) \/ x \in heap \ Nodes(table[s0]),
         Nodes(chain) \subseteq heap', heap \ Nodes(table[s0]) \subseteq heap'
  PROVE  IInv'
<1>1. Slots' = Slots
  BY DEF Slots
<1>2. /\ table'[s0] = chain /\ nitems'[s0] = n
      /\ \A s \in Slots \ {s0} : table'[s] = table[s] /\ nitems'[s] = nitems[s]
      /\ table' \in [Slots -> Seq(Node)]
      /\ nitems' \in [Slots -> Nat]
  BY DEF IInv, TypeOK
<1>3. /\ \A x \in Nodes(chain) : x \in Node
      /\ puts \in Nat /\ puts' \in Nat
  <2>1. \A i \in DOMAIN chain : chain[i] \in Node
    BY LenProperties, ElementOfSeq
  <2>2. puts \in 0..MaxPuts
    BY DEF IInv, TypeOK
  <2> QED
    BY <2>1, <2>2, TableAssumption DEF Nodes
<1>4. TypeOK'
  <2>1. heap' \subseteq Node
    BY <1>3 DEF IInv, TypeOK
  <2> QED
    BY <1>1, <1>2, <2>1 DEF IInv, TypeOK
<1>5. ASSUME NEW s \in Slots
      PROVE  /\ Ascending(table'[s])
             /\ \A x \in Nodes(table'[s]) : PutSlot(x.key)' = s /\ x.id < puts'
  <2>1. \A k : PutSlot(k)' = PutSlot(k)
    BY DEF PutSlot
  <2>2. CASE s = s0
    BY <1>2, <2>1, <2>2
  <2>3. CASE s # s0
    <3>1. table'[s] = table[s]
      BY <1>2, <2>3
    <3>2. \A x \in Nodes(table[s]) : x \in Node /\ PutSlot(x.key) = s /\ x.id < puts
      BY ChainFacts
    <3>3. \A x \in Nodes(table[s]) : x.id \in Nat
      BY <3>2 DEF Node
    <3>4. \A x \in Nodes(table[s]) : x.id < puts'
      BY <1>3, <3>2, <3>3
    <3> QED
      BY <2>1, <3>1, <3>2, <3>4, ChainFacts
  <2> QED
    BY <2>2, <2>3
<1>6. ChainsSound'
  BY <1>1, <1>5 DEF ChainsSound, Ascending, Nodes
<1>7. HeapSound'
  <2>1. \A s \in Slots : nitems'[s] = Len(table'[s])
    BY <1>2 DEF IInv, HeapSound
  <2>2. heap = AllNodes
    BY DEF IInv, HeapSound
  <2>3. ASSUME NEW s \in Slots \ {s0}, NEW x \in Nodes(table[s])
        PROVE  x \in heap \ Nodes(table[s0])
    <3>1. x \in heap
      BY <2>2, <2>3 DEF AllNodes
    <3>2. PutSlot(x.key) = s
      BY <2>3, ChainFacts
    <3>3. x \notin Nodes(table[s0])
      BY <2>3, <3>2, ChainFacts
    <3> QED
      BY <3>1, <3>3
  <2>4. AllNodes' \subseteq heap'
    <3> SUFFICES ASSUME NEW s \in Slots, NEW x \in Nodes(table'[s])
                 PROVE  x \in heap'
      BY <1>1 DEF AllNodes
    <3>1. CASE s = s0
      BY <1>2, <3>1
    <3>2. CASE s # s0
      BY <1>2, <2>3, <3>2
    <3> QED
      BY <3>1, <3>2
  <2>5. heap' \subseteq AllNodes'
    <3> SUFFICES ASSUME NEW x \in heap' PROVE x \in AllNodes'
      OBVIOUS
    <3>1. CASE x \in Nodes(chain)
      BY <1>1, <1>2, <3>1 DEF AllNodes
    <3>2. CASE x \in heap \ Nodes(table[s0])
      <4>1. PICK s \in Slots : x \in Nodes(table[s])
        BY <2>2, <3>2 DEF AllNodes
      <4>2. table'[s] = table[s]
        BY <1>2, <3>2, <4>1
      <4> QED
        BY <1>1, <4>1, <4>2 DEF AllNodes
    <3> QED
      BY <3>1, <3>2
  <2> QED
    BY <1>1, <2>1, <2>4, <2>5 DEF HeapSound
<1> QED
  BY <1>4, <1>6, <1>7 DEF IInv

\* The new node is the youngest of the chain it is appended to.
LEMMA PutIInv ==
  ASSUME IInv, NEW key \in Keys, NEW val \in Vals, Put(key, val)
  PROVE  IInv'
<1> DEFINE s0 == PutSlot(key)
           node == [id |-> puts, key |-> key, val |-> val]
           chain == AppendTo(table[s0], node)
<1>1. /\ nslots \in Nat \ {0} /\ key \in Int /\ s0 \in Slots
      /\ puts \in Nat /\ puts' = puts + 1 /\ puts' \in 0..MaxPuts
  <2>1. nslots \in Nat \ {0} /\ key \in Int
    BY TableAssumption DEF Put, IInv, TypeOK
  <2>2. puts \in 0..MaxPuts /\ puts < MaxPuts /\ puts' = puts + 1
    BY DEF Put, IInv, TypeOK
  <2> QED
    BY <2>1, <2>2, SlotFacts, TableAssumption
<1>2. node \in Node
  BY <1>1 DEF Node
<1>3. /\ table[s0] \in Seq(Node)
      /\ Ascending(table[s0])
      /\ \A x \in Nodes(table[s0]) : x \in Node /\ PutSlot(x.key) = s0 /\ x.id < puts
      /\ nitems[s0] = Len(table[s0])
      /\ nitems[s0] \in Nat
  BY <1>1, ChainFacts, LenProperties
<1>4. \A i \in DOMAIN table[s0] : table[s0][i].id < node.id
  BY <1>3 DEF Nodes
<1>5. /\ chain \in Seq(Node) /\ Len(chain) = nitems[s0] + 1
      /\ Nodes(chain) = Nodes(table[s0]) \cup {node}
      /\ Ascending(chain)
  <2>1. chain \in Seq(Node) /\ Len(chain) = Len(table[s0]) + 1
    BY <1>2, <1>3, AppendFacts
  <2>2. Nodes(chain) = Nodes(table[s0]) \cup {node} /\ Ascending(chain)
    <3> HIDE DEF node, s0
    <3> QED
      BY <1>2, <1>3, <1>4, AppendNodes
  <2> QED
    BY <1>3, <2>1, <2>2
<1>6. \A x \in Nodes(chain) : PutSlot(x.key) = s0 /\ x.id < puts'
  <2>1. PutSlot(node.key) = s0 /\ node.id < puts'
    BY <1>1
  <2>2. ASSUME NEW x \in Nodes(table[s0])
        PROVE  PutSlot(x.key) = s0 /\ x.id < puts'
    <3>1. x \in Node /\ PutSlot(x.key) = s0 /\ x.id < puts
      BY <1>3
    <3>2. x.id \in Nat
      BY <3>1 DEF Node
    <3> QED
      BY <1>1, <3>1, <3>2
  <2> QED
    BY <1>5, <2>1, <2>2
<1>7. Nodes(table[s0]) \subseteq heap
  BY <1>1 DEF Put, IInv, HeapSound, AllNodes
<1>8. /\ nslots' = nslots /\ ptr = "live" /\ ptr' = "live"
      /\ table' = [table EXCEPT ![s0] = chain]
      /\ nitems' = [nitems EXCEPT ![s0] = nitems[s0] + 1]
      /\ heap' = heap \cup {node}
      /\ out'.key \in Keys /\ out'.ret \in {0, -1}
  BY DEF Put, Counted, Answer
<1>9. nassigned' \in Nat
  BY DEF Put, IInv, TypeOK
<1> HIDE DEF node, chain, s0
<1>10. nitems[s0] + 1 \in Nat /\ puts <= puts'
  BY <1>1, <1>3
<1>11. \A x \in heap' : x \in Nodes(chain) \/ x \in heap \ Nodes(table[s0])
  BY <1>5, <1>8
<1>12. Nodes(chain) \subseteq heap' /\ heap \ Nodes(table[s0]) \subseteq heap'
  BY <1>5, <1>7, <1>8
<1> QED
  BY <1>1, <1>5, <1>6, <1>8, <1>9, <1>10, <1>11, <1>12, OneChain

\* The first node of the key leaves its chain, or nothing happens.
LEMMA EraseIInv ==
  ASSUME IInv, NEW key \in Keys, Erase(key)
  PROVE  IInv'
<1> DEFINE s0 == GetSlot(key)
<1>1. /\ nslots \in Nat \ {0} /\ key \in Int /\ s0 \in Slots /\ s0 = PutSlot(key)
      /\ puts \in Nat /\ puts' = puts /\ puts' \in 0..MaxPuts
      /\ nassigned' = nassigned /\ nassigned \in Nat
      /\ nslots' = nslots /\ ptr = "live" /\ ptr' = "live"
      /\ out'.key \in Keys /\ out'.ret \in {0, -1}
  <2>1. nslots \in Nat \ {0} /\ key \in Int /\ s0 >= 0
    BY TableAssumption DEF Erase, IInv, TypeOK
  <2>2. puts \in 0..MaxPuts /\ puts' = puts /\ nassigned' = nassigned /\ nassigned \in Nat
    BY DEF Erase, IInv, TypeOK
  <2>3. nslots' = nslots /\ ptr = "live" /\ ptr' = "live" /\ out'.key \in Keys /\ out'.ret \in {0, -1}
    BY DEF Erase, Answer
  <2> QED
    BY <2>1, <2>2, <2>3, SlotFacts, TableAssumption
<1> DEFINE first == First(table[s0], key)
<1>2. /\ table[s0] \in Seq(Node)
      /\ Ascending(table[s0])
      /\ \A x \in Nodes(table[s0]) : x \in Node /\ PutSlot(x.key) = s0 /\ x.id < puts
      /\ nitems[s0] = Len(table[s0])
      /\ nitems[s0] \in Nat
  BY <1>1, ChainFacts, LenProperties
<1>3. Nodes(table[s0]) \subseteq heap
  BY <1>1 DEF IInv, HeapSound, AllNodes
<1>4. CASE first = {}
  <2>1. table' = table /\ heap' = heap
    BY <1>4 DEF Erase
  <2>2. nitems' = [nitems EXCEPT ![s0] = nitems[s0]]
    BY <1>4 DEF Erase, Uncounted
  <2>3. table' = [table EXCEPT ![s0] = table[s0]]
    BY <2>1 DEF IInv, TypeOK
  <2> HIDE DEF s0
  <2>4. puts <= puts'
    BY <1>1
  <2> QED
    BY <1>1, <1>2, <1>3, <2>1, <2>2, <2>3, <2>4, OneChain
<1>5. CASE first # {}
  <2>1. PICK i \in first : /\ table' = [table EXCEPT ![s0] = Unlink(table[s0], i)]
                           /\ heap' = heap \ {table[s0][i]}
    BY <1>5 DEF Erase
  <2>2. nitems' = [nitems EXCEPT ![s0] = nitems[s0] - 1]
    BY <1>5 DEF Erase, Uncounted
  <2>3. i \in DOMAIN table[s0]
    BY DEF First
  <2>4. table[s0][i] \in Nodes(table[s0])
    BY <2>3 DEF Nodes
  <2> DEFINE chain == Unlink(table[s0], i)
  <2>5. /\ chain \in Seq(Node) /\ Len(chain) = nitems[s0] - 1
        /\ Nodes(chain) = Nodes(table[s0]) \ {table[s0][i]}
        /\ Ascending(chain)
    BY <1>2, <2>3, UnlinkFacts, UnlinkNodes
  <2>6. nitems[s0] - 1 \in Nat
    BY <2>5, LenProperties
  <2> HIDE DEF chain, s0, first
  <2>7. \A x \in Nodes(chain) : PutSlot(x.key) = s0 /\ x.id < puts'
    BY <1>1, <1>2, <2>5
  <2>8. \A x \in heap' : x \in Nodes(chain) \/ x \in heap \ Nodes(table[s0])
    BY <2>1, <2>5
  <2>9. Nodes(chain) \subseteq heap' /\ heap \ Nodes(table[s0]) \subseteq heap'
    BY <1>3, <2>1, <2>4, <2>5
  <2>10. table' = [table EXCEPT ![s0] = chain]
    BY <2>1 DEF chain
  <2>11. puts <= puts'
    BY <1>1
  <2> QED
    BY <1>1, <2>2, <2>5, <2>6, <2>7, <2>8, <2>9, <2>10, <2>11, OneChain
<1> QED
  BY <1>4, <1>5

\* The counters count: popping nitems nodes empties every chain.
LEMMA DeallocateEmpties ==
  ASSUME IInv, Deallocate
  PROVE  heap' = {} /\ ptr' = "dangling"
<1>1. \A s \in Slots : nitems[s] = Len(table[s]) /\ Len(table[s]) \in Nat
  BY ChainFacts DEF IInv, TypeOK
<1>2. ptr' = "dangling"
  <2>1. ~\E s \in Slots : nitems[s] > Len(table[s])
    BY <1>1
  <2> QED
    BY <2>1 DEF Deallocate
<1>3. \A s \in Slots : Popped(s) = Nodes(table[s])
  <2> SUFFICES ASSUME NEW s \in Slots PROVE Popped(s) = Nodes(table[s])
    OBVIOUS
  <2>1. 1..nitems[s] \cap DOMAIN table[s] = DOMAIN table[s]
    BY ChainFacts
  <2> QED
    BY <2>1 DEF Popped, Nodes
<1>4. UNION {Popped(s) : s \in Slots} = AllNodes
  BY <1>3 DEF AllNodes
<1>5. heap = AllNodes
  BY DEF Deallocate, IInv, HeapSound
<1> QED
  BY <1>2, <1>4, <1>5 DEF Deallocate

\* Nothing is left.
LEMMA DeallocateIInv ==
  ASSUME IInv, Deallocate
  PROVE  IInv'
<1>1. heap' = {} /\ ptr' = "dangling"
  BY DeallocateEmpties
<1>2. /\ nslots' = 0 /\ Slots' = {} /\ table' = [s \in Slots' |-> <<>>]
      /\ nitems' = [s \in Slots' |-> 0] /\ nassigned' = 0 /\ puts' = puts
  BY DEF Deallocate, Slots
<1>3. out'.key \in Keys /\ out'.ret \in {0, -1}
  BY DEF Deallocate, Answer, IInv, TypeOK
<1>4. TypeOK'
  BY <1>1, <1>2, <1>3, EmptySeq DEF IInv, TypeOK
<1> QED
  BY <1>1, <1>2, <1>4 DEF IInv, ChainsSound, HeapSound, AllNodes

\* The invariant is inductive.
LEMMA StepIInv == IInv /\ [Next]_vars => IInv'
<1> SUFFICES ASSUME IInv, [Next]_vars PROVE IInv'
  OBVIOUS
<1>1. ASSUME NEW size \in Sizes, Allocate(size) PROVE IInv'
  BY <1>1, AllocateIInv
<1>2. ASSUME NEW op \in {"allocate", "get", "deallocate"}, Refuse(op) PROVE IInv'
  BY <1>2, KeptTable DEF Refuse, Answer
<1>3. CASE DivideByZero
  BY <1>3, KeptTable DEF DivideByZero, IInv, TypeOK
<1>4. ASSUME NEW key \in Keys, NEW val \in Vals, Put(key, val) PROVE IInv'
  BY <1>4, PutIInv
<1>5. ASSUME NEW key \in Keys, NEW n \in Buffers, Get(key, n) PROVE IInv'
  <2>1. out'.key \in Keys /\ out'.ret \in {0, -1}
    BY <1>5 DEF Get, Answer
  <2> QED
    BY <1>5, <2>1, KeptTable DEF Get
<1>6. ASSUME NEW key \in Keys, Erase(key) PROVE IInv'
  BY <1>6, EraseIInv
<1>7. ASSUME NEW key \in Keys, NEW op \in {"get", "erase"}, BeforeArray(key, op) PROVE IInv'
  <2>1. out'.key \in Keys /\ out'.ret \in {0, -1}
    BY <1>7 DEF BeforeArray, Answer, IInv, TypeOK
  <2> QED
    BY <1>7, <2>1, KeptTable DEF BeforeArray
<1>8. CASE Deallocate
  BY <1>8, DeallocateIInv
<1>9. CASE Forget
  BY <1>9, KeptTable DEF Forget, IInv, TypeOK
<1>10. CASE UNCHANGED vars
  BY <1>10, KeptTable DEF vars, IInv, TypeOK
<1> QED
  BY <1>1, <1>2, <1>3, <1>4, <1>5, <1>6, <1>7, <1>8, <1>9, <1>10 DEF Next
-------------------------------------------------------------------------------
(* Theorems *)

\* The inductive invariant holds in every reachable state.
THEOREM Invariance == Spec => []IInv
<1>1. Init => IInv
  BY InitIInv
<1>2. IInv /\ [Next]_vars => IInv'
  BY StepIInv
<1> QED
  BY <1>1, <1>2, PTL DEF Spec

\* Every variable keeps its type (put, erase, allocate, deallocate).
THEOREM TypeCorrect == Spec => []TypeOK
<1>1. IInv => TypeOK
  BY DEF IInv
<1> QED
  BY <1>1, Invariance, PTL

\* A pair whose key is not negative is in the chain get walks: put's |key| and
\* get's key agree on the slot.
THEOREM FoundThere == Spec => []FoundWherePut
<1>1. IInv => FoundWherePut
  <2> SUFFICES ASSUME IInv, NEW s \in Slots, NEW i \in DOMAIN table[s], table[s][i].key >= 0
               PROVE  GetSlot(table[s][i].key) = s
    BY DEF FoundWherePut
  <2>1. table[s][i] \in Nodes(table[s])
    BY DEF Nodes
  <2>2. table[s][i] \in Node /\ PutSlot(table[s][i].key) = s
    BY <2>1, ChainFacts
  <2>3. nslots \in Nat \ {0}
    BY DEF IInv, TypeOK, Slots
  <2>4. table[s][i].key \in Int
    BY <2>2, TableAssumption DEF Node
  <2> QED
    BY <2>2, <2>3, <2>4, SlotFacts
<1> QED
  BY <1>1, Invariance, PTL

\* When the table is gone every node was freed (deallocate).
THEOREM NoLeak == Spec => []NothingLeaks
<1>1. IInv => NothingLeaks
  <2> SUFFICES ASSUME IInv, ptr \in {"null", "dangling"} PROVE heap = {}
    BY DEF NothingLeaks
  <2>1. heap = AllNodes /\ Slots = {}
    BY DEF IInv, HeapSound, Slots
  <2> QED
    BY <2>1 DEF AllNodes
<1> QED
  BY <1>1, Invariance, PTL
-------------------------------------------------------------------------------
(* The walk of get *)

\* Every set of natural numbers that is not empty has a least one.
LEMMA Least ==
  ASSUME NEW T, T \subseteq Nat, T # {}
  PROVE  \E m \in T : \A k \in T : m <= k
<1>1. PICK m \in T : \A y \in T : ~ (<<y, m>> \in OpToRel(<, Nat))
  BY NatLessThanWellFounded, WFMin
<1>2. ASSUME NEW k \in T PROVE m <= k
  <2>1. ~ (<<k, m>> \in OpToRel(<, Nat))
    BY <1>1
  <2> QED
    BY <2>1 DEF OpToRel
<1> QED
  BY <1>2

\* Induction up to a bound, for a set.
LEMMA UpTo ==
  ASSUME NEW n \in Nat, NEW S, 0 \in S, \A m \in 1..n : m - 1 \in S => m \in S
  PROVE  0..n \subseteq S
<1> DEFINE T == (0..n) \ S
<1> SUFFICES ASSUME T # {} PROVE FALSE
  OBVIOUS
<1>1. PICK m \in T : \A k \in T : m <= k
  <2>1. T \subseteq Nat
    OBVIOUS
  <2> HIDE DEF T
  <2> QED
    BY <2>1, Least
<1>2. m \in 1..n /\ m - 1 \in 0..n
  BY <1>1
<1>3. m - 1 \in S
  BY <1>1, <1>2
<1> QED
  BY <1>1, <1>2, <1>3

\* The places of a chain.
LEMMA ChainPlaces ==
  ASSUME NEW s \in Seq(Node)
  PROVE  /\ Len(s) \in Nat /\ DOMAIN s = 1..Len(s)
         /\ \A i \in 1..Len(s) : s[i] \in Node /\ s[i].id \in Nat
<1>1. Len(s) \in Nat /\ DOMAIN s = 1..Len(s)
  BY LenProperties
<1>2. \A i \in 1..Len(s) : s[i] \in Node
  BY <1>1, ElementOfSeq
<1> QED
  BY <1>1, <1>2 DEF Node

\* f holds the nodes of the key among the first i of a chain, for every i.
Walks(chain, key, n, f) ==
    f = [i \in 0..n |->
            IF i = 0 THEN << >>
            ELSE IF chain[i].key = key THEN Append(f[i - 1], chain[i]) ELSE f[i - 1]]

\* There is such a function, so the recursive one of Found is it.
LEMMA WalkExists ==
  ASSUME NEW chain, NEW key, NEW n \in Nat
  PROVE  \E f : Walks(chain, key, n, f)
<1> DEFINE S == {m \in 0..n : \E f : Walks(chain, key, m, f)}
           Next1(s, i) == IF chain[i].key = key THEN Append(s, chain[i]) ELSE s
           With(f, m) == [i \in 0..m |-> IF i < m THEN f[i] ELSE Next1(f[i - 1], i)]
<1>1. \A m, f : Walks(chain, key, m, f)
                  <=> f = [i \in 0..m |-> IF i = 0 THEN << >> ELSE Next1(f[i - 1], i)]
  BY DEF Walks
<1> HIDE DEF Next1
<1>2. 0 \in S
  <2>1. [i \in 0..0 |-> << >>]
            = [i \in 0..0 |-> IF i = 0 THEN << >> ELSE Next1([j \in 0..0 |-> << >>][i - 1], i)]
    OBVIOUS
  <2>2. Walks(chain, key, 0, [i \in 0..0 |-> << >>])
    BY <1>1, <2>1, Zenon
  <2> QED
    BY <2>2
<1>3. ASSUME NEW m \in 1..n, m - 1 \in S PROVE m \in S
  <2>1. PICK f : Walks(chain, key, m - 1, f)
    BY <1>3
  <2> DEFINE g == With(f, m)
  <2>2. f = [i \in 0..(m - 1) |-> IF i = 0 THEN << >> ELSE Next1(f[i - 1], i)]
    BY <1>1, <2>1
  <2>3. \A i \in 0..m : g[i] = IF i = 0 THEN << >> ELSE Next1(g[i - 1], i)
    <3>1. g[0] = << >>
      BY <2>2
    <3>2. \A i \in 1..m : g[i] = Next1(f[i - 1], i)
      BY <2>2
    <3>3. \A i \in 1..m : g[i - 1] = f[i - 1]
      OBVIOUS
    <3>4. \A i \in 0..m : i = 0 \/ (i \in 1..m /\ i # 0)
      OBVIOUS
    <3> HIDE DEF With
    <3> QED
      BY <3>1, <3>2, <3>3, <3>4, Zenon
  <2>4. g = [i \in 0..m |-> g[i]]
    OBVIOUS
  <2> HIDE DEF With
  <2>5. g = [i \in 0..m |-> IF i = 0 THEN << >> ELSE Next1(g[i - 1], i)]
    BY <2>3, <2>4
  <2>6. Walks(chain, key, m, g)
    BY <1>1, <2>5, Zenon
  <2>7. m \in 0..n
    OBVIOUS
  <2> QED
    BY <2>6, <2>7
<1>4. 0..n \subseteq S
  <2> HIDE DEF S
  <2> QED
    BY <1>2, <1>3, UpTo
<1> QED
  BY <1>4

\* get finds the nodes of the key, each once and oldest first.
LEMMA FoundFacts ==
  ASSUME NEW chain \in Seq(Node), Ascending(chain), NEW key
  PROVE  /\ Found(chain, key) \in Seq(Node)
         /\ Nodes(Found(chain, key)) = {x \in Nodes(chain) : x.key = key}
         /\ Ascending(Found(chain, key))
<1>1. PICK n \in Nat : n = Len(chain)
  BY LenProperties
<1>2. DOMAIN chain = 1..n /\ \A i \in 1..n : chain[i] \in Node /\ chain[i].id \in Nat
  BY <1>1, ChainPlaces
<1> DEFINE F == CHOOSE f : Walks(chain, key, n, f)
<1>3. Walks(chain, key, n, F)
  BY WalkExists
<1>4. Found(chain, key) = F[n]
  BY <1>1 DEF Found, Walks
<1> HIDE DEF F
<1>5. F[0] = << >>
  BY <1>3 DEF Walks
<1>6. \A i \in 1..n : F[i] = IF chain[i].key = key THEN Append(F[i - 1], chain[i]) ELSE F[i - 1]
  <2>1. \A i \in 1..n : i \in 0..n /\ i # 0
    OBVIOUS
  <2>2. \A i \in 0..n : F[i] = IF i = 0 THEN << >>
                               ELSE IF chain[i].key = key THEN Append(F[i - 1], chain[i]) ELSE F[i - 1]
    BY <1>3, Zenon DEF Walks
  <2> QED
    BY <2>1, <2>2, Zenon
<1> DEFINE Some(m) == {chain[i] : i \in {j \in 1..m : chain[j].key = key}}
           S == {m \in 0..n : F[m] \in Seq(Node) /\ Nodes(F[m]) = Some(m) /\ Ascending(F[m])}
<1>7. 0 \in S
  <2>1. << >> \in Seq(Node) /\ DOMAIN << >> = {}
    BY EmptySeq
  <2>2. Nodes(F[0]) = {} /\ Ascending(F[0])
    BY <1>5, <2>1 DEF Nodes, Ascending
  <2>3. Some(0) = {}
    OBVIOUS
  <2>4. F[0] \in Seq(Node) /\ 0 \in 0..n
    BY <1>5, <2>1
  <2> HIDE DEF Some
  <2> QED
    BY <2>2, <2>3, <2>4
<1>8. ASSUME NEW m \in 1..n, m - 1 \in S PROVE m \in S
  <2>1. PICK f \in Seq(Node) : f = F[m - 1]
    BY <1>8
  <2>2. Nodes(f) = Some(m - 1) /\ Ascending(f)
    BY <1>8, <2>1
  <2>3. \A j \in 1..m : j \in 1..(m - 1) \/ j = m
    OBVIOUS
  <2>4. \A j \in 1..(m - 1) : j \in 1..m /\ j < m
    OBVIOUS
  <2>5. m \in 0..n
    OBVIOUS
  <2>6. CASE chain[m].key = key
    <3>1. F[m] = AppendTo(f, chain[m])
      BY <1>6, <2>1, <2>6 DEF AppendTo
    <3>2. \A x \in Some(m - 1) : x.id < chain[m].id
      BY <1>2, <2>4, SMTT(30) DEF Ascending
    <3>3. \A i \in DOMAIN f : f[i].id < chain[m].id
      BY <2>2, <3>2 DEF Nodes
    <3>4. /\ AppendTo(f, chain[m]) \in Seq(Node)
          /\ Nodes(AppendTo(f, chain[m])) = Nodes(f) \cup {chain[m]}
          /\ Ascending(AppendTo(f, chain[m]))
      <4>1. chain[m] \in Node
        BY <1>2
      <4> QED
        BY <2>2, <3>3, <4>1, AppendFacts, AppendNodes
    <3>5. Some(m) = Some(m - 1) \cup {chain[m]}
      BY <2>3, <2>4, <2>6
    <3> HIDE DEF Some
    <3> QED
      BY <2>2, <2>5, <3>1, <3>4, <3>5
  <2>7. CASE chain[m].key # key
    <3>1. F[m] = f
      BY <1>6, <2>1, <2>7
    <3>2. Some(m) = Some(m - 1)
      BY <2>3, <2>4, <2>7
    <3> HIDE DEF Some
    <3> QED
      BY <2>2, <2>5, <3>1, <3>2
  <2> QED
    BY <2>6, <2>7
<1>9. n \in S
  <2> HIDE DEF S
  <2>1. 0..n \subseteq S
    BY <1>7, <1>8, UpTo
  <2> QED
    BY <2>1
<1>10. Some(n) = {x \in Nodes(chain) : x.key = key}
  BY <1>2 DEF Nodes
<1> QED
  BY <1>4, <1>9, <1>10

\* A chain has as many nodes as places.
LEMMA CountNodes ==
  ASSUME NEW s \in Seq(Node), Ascending(s)
  PROVE  Cardinality(Nodes(s)) = Len(s)
<1>1. PICK n \in Nat : n = Len(s)
  BY LenProperties
<1>2. DOMAIN s = 1..n /\ \A i \in 1..n : s[i].id \in Nat
  BY <1>1, ChainPlaces
<1>3. s \in Bijection(1..n, Nodes(s))
  <2>1. s \in [1..n -> Nodes(s)]
    BY <1>1, <1>2 DEF Nodes
  <2>2. \A i, j \in 1..n : s[i] = s[j] => i = j
    BY <1>2 DEF Ascending
  <2>3. \A x \in Nodes(s) : \E i \in 1..n : s[i] = x
    BY <1>2 DEF Nodes
  <2> QED
    BY <2>1, <2>2, <2>3 DEF Bijection, Injection, Surjection, IsInjective
<1>4. IsFiniteSet(1..n) /\ Cardinality(1..n) = n
  BY FS_Interval
<1> QED
  BY <1>1, <1>3, <1>4, FS_Bijection DEF ExistsBijection
-------------------------------------------------------------------------------
(* The multimap *)

\* All pairs of a key that has a slot are in the chain that get walks.
LEMMA MatchingIs ==
  ASSUME IInv, nslots > 0, NEW key \in Keys, GetSlot(key) >= 0
  PROVE  /\ GetSlot(key) \in Slots
         /\ Abstract!Matching(key) = {x \in Nodes(table[GetSlot(key)]) : x.key = key}
<1>1. nslots \in Nat \ {0} /\ key \in Int
  BY TableAssumption DEF IInv, TypeOK
<1>2. GetSlot(key) = PutSlot(key) /\ PutSlot(key) \in Slots
  BY <1>1, SlotFacts
<1>3. ASSUME NEW s \in Slots, NEW x \in Nodes(table[s]), x.key = key
      PROVE  s = GetSlot(key)
  BY <1>2, <1>3, ChainFacts
<1> QED
  BY <1>2, <1>3 DEF Abstract!Matching, AllNodes

\* A table that the caller does not have is not useless.
LEMMA InitCreated == Init => Abstract!Init
<1> SUFFICES ASSUME Init PROVE Abstract!Init
  OBVIOUS
<1>1. AllNodes = {}
  BY DEF Init, AllNodes, Slots
<1> QED
  BY <1>1 DEF Init, Abstract!Init, Answer, Abstract!Answer

\* What the table holds depends on its chains only.
LEMMA SameStore ==
  ASSUME UNCHANGED tableVars
  PROVE  AllNodes' = AllNodes
BY DEF tableVars, AllNodes, Slots

\* The slots are empty.
LEMMA AllocateCreates ==
  ASSUME IInv, NEW size \in Sizes, Allocate(size)
  PROVE  Abstract!Create
<1>1. AllNodes' = {}
  <2>1. \A s \in Slots' : Nodes(table'[s]) = {}
    BY DEF Allocate, Slots, Nodes
  <2> QED
    BY <2>1 DEF AllNodes
<1> QED
  BY <1>1 DEF Allocate, Abstract!Create, Answer, Abstract!Answer

\* The node joins the chain of its slot.
LEMMA PutInserts ==
  ASSUME IInv, IInv', NEW key \in Keys, NEW val \in Vals, Put(key, val)
  PROVE  Abstract!Insert(key, val)
<1>1. heap = AllNodes /\ heap' = AllNodes'
  BY DEF Put, IInv, HeapSound
<1>2. nslots # 0 /\ nslots' = nslots
  BY DEF Put, IInv, TypeOK
<1> QED
  BY <1>1, <1>2 DEF Put, Abstract!Insert, Answer, Abstract!Answer

\* get counts and copies the pairs of the key, oldest first.
LEMMA GetLooksUp ==
  ASSUME IInv, NEW key \in Keys, NEW num_values \in Buffers, Get(key, num_values)
  PROVE  Abstract!Lookup(key, num_values)
<1>1. nslots > 0 /\ GetSlot(key) >= 0 /\ ptr = "live" /\ UNCHANGED <<ptr, tableVars>>
  BY DEF Get
<1>2. PICK chain \in Seq(Node) : /\ chain = table[GetSlot(key)]
                                 /\ Ascending(chain)
                                 /\ Abstract!Matching(key) = {x \in Nodes(chain) : x.key = key}
  BY <1>1, MatchingIs, ChainFacts
<1>3. PICK found \in Seq(Node) : /\ found = Found(chain, key)
                                 /\ Nodes(found) = Abstract!Matching(key)
                                 /\ Ascending(found)
  BY <1>2, FoundFacts
<1>4. Cardinality(Abstract!Matching(key)) = Len(found)
  BY <1>3, CountNodes
<1>5. found \in [1..Len(found) -> Abstract!Matching(key)] /\ DOMAIN found = 1..Len(found)
  BY <1>3, LenProperties DEF Nodes
<1>6. Abstract!Lists(found, Abstract!Matching(key))
  BY <1>3 DEF Abstract!Lists, Nodes, Ascending
<1>7. out' = Abstract!Answer("get", key, IF Len(found) = 0 THEN -1 ELSE 0, Len(found),
                             IF num_values < Len(found) THEN << >> ELSE found)
  BY <1>2, <1>3 DEF Get, Answer, Abstract!Answer
<1>8. AllNodes' = AllNodes /\ nslots' = nslots /\ puts' = puts /\ ptr' = ptr
  BY <1>1, SameStore DEF tableVars
<1>9. Abstract!Cardinality(Abstract!Matching(key)) = Len(found)
  BY <1>4 DEF Cardinality, Abstract!Cardinality
<1> QED
  BY <1>1, <1>5, <1>6, <1>7, <1>8, <1>9 DEF Abstract!Lookup

\* A chain with a node of the key has a first one.
LEMMA FirstExists ==
  ASSUME NEW chain \in Seq(Node), NEW key, NEW i \in DOMAIN chain, chain[i].key = key
  PROVE  First(chain, key) # {}
<1> DEFINE T == {j \in DOMAIN chain : chain[j].key = key}
<1>1. PICK n \in Nat : DOMAIN chain = 1..n
  BY LenProperties
<1>2. T \subseteq Nat /\ T # {}
  BY <1>1
<1>3. PICK m \in T : \A k \in T : m <= k
  <2> HIDE DEF T
  <2> QED
    BY <1>2, Least
<1>4. ASSUME NEW j \in 1..(m - 1) PROVE chain[j].key # key
  <2>1. j \in 1..n /\ ~ (m <= j)
    BY <1>1, <1>3
  <2> QED
    BY <1>1, <1>3, <2>1
<1>5. m \in First(chain, key)
  BY <1>3, <1>4 DEF First
<1> QED
  BY <1>5

\* The first node of the key in its chain is the oldest pair of the key.
LEMMA EraseRemoves ==
  ASSUME IInv, IInv', NEW key \in Keys, Erase(key)
  PROVE  Abstract!Remove(key)
<1>1. nslots > 0 /\ GetSlot(key) >= 0 /\ ptr = "live" /\ UNCHANGED <<ptr, nslots, puts>>
  BY DEF Erase
<1>2. PICK chain \in Seq(Node) : /\ chain = table[GetSlot(key)]
                                 /\ Ascending(chain)
                                 /\ Abstract!Matching(key) = {x \in Nodes(chain) : x.key = key}
  BY <1>1, MatchingIs, ChainFacts
<1>3. heap = AllNodes /\ heap' = AllNodes'
  BY <1>1 DEF IInv, HeapSound
<1>4. AllNodes' = {x \in AllNodes : x.key = key => \E y \in Abstract!Matching(key) : y.id < x.id}
  <2>1. CASE First(chain, key) = {}
    <3>1. AllNodes' = AllNodes
      BY <1>2, <1>3, <2>1 DEF Erase
    <3>2. Abstract!Matching(key) = {}
      BY <1>2, <2>1, FirstExists DEF Nodes
    <3>3. \A x \in AllNodes : x.key # key
      BY <3>2 DEF Abstract!Matching
    <3> QED
      BY <3>1, <3>3
  <2>2. CASE First(chain, key) # {}
    <3>1. PICK i \in First(chain, key) : heap' = heap \ {chain[i]}
      BY <1>2, <2>2 DEF Erase
    <3>2. PICK n \in Nat : DOMAIN chain = 1..n /\ \A j \in 1..n : chain[j].id \in Nat
      BY ChainPlaces
    <3>3. /\ i \in 1..n /\ chain[i].key = key
          /\ \A j \in 1..(i - 1) : chain[j].key # key
      BY <3>2 DEF First
    <3>4. ASSUME NEW x \in Abstract!Matching(key)
          PROVE  x # chain[i] <=> \E y \in Abstract!Matching(key) : y.id < x.id
      <4>1. \A z \in Abstract!Matching(key) : \E j \in 1..n : z = chain[j] /\ (j = i \/ i < j)
        <5>1. ASSUME NEW j \in 1..n, chain[j].key = key PROVE j = i \/ i < j
          <6>1. j \notin 1..(i - 1)
            BY <3>3, <5>1
          <6> QED
            BY <3>3, <6>1
        <5> QED
          BY <1>2, <3>2, <5>1 DEF Nodes
      <4>2. \A z \in Abstract!Matching(key) : z = chain[i] \/ chain[i].id < z.id
        BY <1>2, <3>2, <3>3, <4>1 DEF Ascending
      <4>3. \A z \in Abstract!Matching(key) : z.id \in Nat
        BY <3>2, <4>1
      <4>4. chain[i] \in Abstract!Matching(key)
        BY <1>2, <3>2, <3>3 DEF Nodes
      <4> QED
        BY <4>2, <4>3, <4>4
    <3>5. \A x \in AllNodes : x.key = key <=> x \in Abstract!Matching(key)
      BY DEF Abstract!Matching
    <3>6. chain[i] \in Abstract!Matching(key)
      BY <1>2, <3>2, <3>3 DEF Nodes
    <3>7. \A x \in AllNodes : x.key # key => x # chain[i]
      BY <3>3
    <3> QED
      BY <1>3, <3>1, <3>4, <3>5, <3>7
  <2> QED
    BY <2>1, <2>2
<1> QED
  BY <1>1, <1>4 DEF Erase, Abstract!Remove, Answer, Abstract!Answer

\* Only a negative key has no slot.
LEMMA BeforeArrayMisses ==
  ASSUME IInv, NEW key \in Keys, NEW op, BeforeArray(key, op)
  PROVE  Abstract!Miss(key, op)
<1>1. key < 0
  <2>1. nslots \in Nat \ {0} /\ key \in Int
    BY TableAssumption DEF BeforeArray, IInv, TypeOK
  <2>2. key >= 0 => GetSlot(key) \in Slots
    BY <2>1, SlotFacts
  <2>3. ~ (key >= 0)
    BY <2>1, <2>2 DEF BeforeArray, Slots
  <2> QED
    BY <2>1, <2>3
<1>2. nslots # 0 /\ nslots' = nslots /\ puts' = puts /\ AllNodes' = AllNodes
  BY SameStore DEF BeforeArray, tableVars, IInv, TypeOK
<1> QED
  BY <1>1, <1>2 DEF BeforeArray, Abstract!Miss, Answer, Abstract!Answer

\* Nothing is left of the table.
LEMMA DeallocateDestroys ==
  ASSUME IInv, Deallocate
  PROVE  Abstract!Destroy
<1>1. ptr' = "dangling"
  BY DeallocateEmpties
<1>2. AllNodes' = {}
  BY DEF Deallocate, AllNodes, Slots
<1> QED
  BY <1>1, <1>2 DEF Deallocate, Abstract!Destroy, Answer, Abstract!Answer

\* Every step of the table is one of the multimap, or changes nothing of it.
LEMMA StepImplements ==
  ASSUME IInv, IInv', [Next]_vars
  PROVE  [Abstract!Next]_(Abstract!vars)
<1>1. ASSUME NEW size \in Sizes, Allocate(size) PROVE Abstract!Next
  BY <1>1, AllocateCreates DEF Abstract!Next
<1>2. ASSUME NEW op \in {"allocate", "get", "deallocate"}, Refuse(op) PROVE Abstract!Next
  <2>1. AllNodes' = AllNodes /\ nslots' = nslots /\ puts' = puts /\ ptr' = ptr
    BY <1>2, SameStore DEF Refuse, tableVars
  <2>2. Abstract!Refuse(op)
    BY <1>2, <2>1 DEF Refuse, Abstract!Refuse, Answer, Abstract!Answer
  <2> QED
    BY <2>2 DEF Abstract!Next
<1>3. ASSUME DivideByZero PROVE Abstract!Next
  <2>1. AllNodes' = AllNodes /\ puts' = puts
    BY <1>3, SameStore DEF DivideByZero, tableVars
  <2>2. Abstract!Crash
    BY <1>3, <2>1 DEF DivideByZero, Abstract!Crash
  <2> QED
    BY <2>2 DEF Abstract!Next
<1>4. ASSUME NEW key \in Keys, NEW val \in Vals, Put(key, val) PROVE Abstract!Next
  BY <1>4, PutInserts DEF Abstract!Next
<1>5. ASSUME NEW key \in Keys, NEW n \in Buffers, Get(key, n) PROVE Abstract!Next
  BY <1>5, GetLooksUp DEF Abstract!Next
<1>6. ASSUME NEW key \in Keys, Erase(key) PROVE Abstract!Next
  BY <1>6, EraseRemoves DEF Abstract!Next
<1>7. ASSUME NEW key \in Keys, NEW op \in {"get", "erase"}, BeforeArray(key, op) PROVE Abstract!Next
  BY <1>7, BeforeArrayMisses DEF Abstract!Next
<1>8. ASSUME Deallocate PROVE Abstract!Next
  BY <1>8, DeallocateDestroys DEF Abstract!Next
<1>9. ASSUME Forget PROVE Abstract!Next
  <2>1. AllNodes' = AllNodes /\ puts' = puts
    BY <1>9, SameStore DEF Forget, tableVars
  <2>2. Abstract!Forget
    BY <1>9, <2>1 DEF Forget, Abstract!Forget
  <2> QED
    BY <2>2 DEF Abstract!Next
<1>10. CASE UNCHANGED vars
  <2>1. AllNodes' = AllNodes
    BY <1>10, SameStore DEF vars
  <2> QED
    BY <1>10, <2>1 DEF vars, tableVars, Abstract!vars
<1> QED
  BY <1>1, <1>2, <1>3, <1>4, <1>5, <1>6, <1>7, <1>8, <1>9, <1>10 DEF Next

\* The hash table is the insertion-ordered multimap that its comments describe:
\* put, get and erase find, count and unlink the pairs of a key in the order of
\* their insertion, through every sequence of calls.
THEOREM Implements == Spec => ImplementsMultiMap
<1>1. Init => Abstract!Init
  BY InitCreated
<1>2. IInv /\ IInv' /\ [Next]_vars => [Abstract!Next]_(Abstract!vars)
  BY StepImplements
<1> QED
  BY <1>1, <1>2, Invariance, PTL DEF Spec, ImplementsMultiMap, Abstract!Spec
===============================================================================
