-------------------------------- MODULE BTree --------------------------------
(***************************************************************************)
(* The B+ tree as the functions of btree.c leave it: nodes and records in  *)
(* a heap.  A node has the fixed arrays of the code, so that the cells     *)
(* behind its size hold what was there before: the insertion looks at one. *)
(*                                                                         *)
(* A tree is [root, node, rec, at, ok].  A record is a chain of positions, *)
(* empty when it was freed; node and record 0 is NULL.  "at" is the        *)
(* position the caller passes by reference; Unset is UINT_MAX.  A tree     *)
(* that is not ok led the program through NULL or a freed record.          *)
(***************************************************************************)
EXTENDS Sorting

CONSTANT Order      \* BTREE_ORDER

ASSUME OrderAssumption == Order \in Nat /\ Order >= 6 /\ Order % 2 = 0

Null == 0
Unset == -1
Half == Order \div 2

NewNode(type) ==
    [type |-> type, size |-> 0, left |-> Null, right |-> Null,
     keys |-> [i \in Cells(Order) |-> 0],
     values |-> [i \in Cells(Order) |-> Null],
     child |-> [i \in 0..Order |-> Null]]

EmptyTree == [root |-> Null, node |-> << >>, rec |-> << >>, at |-> Unset, ok |-> TRUE]

IsLeaf(nd) == nd.type \in {"LEAF", "RLEAF"}

\* A function on 1..n is a sequence; TLC wants to build it as one.
AsSeq(f) == << >> \o f

\* Adds a node and names it.
WithNode(t, nd) == [t EXCEPT !.node = Append(@, nd)]
Newest(t) == Len(t.node)

\* Opens and closes a gap in an array at i; n is the cells in use.
Opened(a, i, n, x) == [j \in DOMAIN a |-> IF j = i THEN x
                                          ELSE IF j \in (i + 1)..n THEN a[j - 1] ELSE a[j]]
Closed(a, i, n) == [j \in DOMAIN a |-> IF j \in i..(n - 2) THEN a[j + 1] ELSE a[j]]

(* Search *)

\* The child or slot of a key: behind the keys that are less.
SearchIndex(nd, key) ==
    LET less == {i \in Cells(nd.size) : key > nd.keys[i]}
    IN  IF key < nd.keys[0] \/ less = {} THEN 0
        ELSE (CHOOSE i \in less : \A j \in less : j <= i) + 1

\* The leaf a key leads to.  A root that is still a leaf (RLEAF) is not one
\* to the search, which goes on to children that it does not have.
FindLeaf(t, key) ==
    LET down[n \in 0..Len(t.node)] ==
            IF n = Null THEN Null
            ELSE IF t.node[n].type = "LEAF" THEN n
            ELSE IF IsLeaf(t.node[n]) THEN Null
            ELSE down[t.node[n].child[SearchIndex(t.node[n], key)]]
    IN  down[t.root]

\* binary_search_node.
SearchNode(nd, key, op) ==
    LET at[s \in 0..Order, e \in -1..Order] ==
            LET mid == IF e < s THEN s ELSE s + (e - s) \div 2
            IN  IF key >= nd.keys[mid] /\ key < nd.keys[mid + 1] THEN Hit(nd.keys, mid, key, op)
                ELSE IF s >= e THEN s
                ELSE IF key < nd.keys[mid] THEN at[s, mid]
                ELSE at[mid + 1, e]
    IN  at[0, nd.size - 1]

(* Records *)

\* The node and those to its right; from the leftmost to its left.
Rightward(t, n) ==
    LET right[m \in 0..Len(t.node)] ==
            IF m = Null THEN {} ELSE {m} \union right[t.node[m].right]
    IN  right[n]
Leftmost(t, n) ==
    LET left[m \in 0..Len(t.node)] ==
            IF t.node[m].left = Null THEN m ELSE left[t.node[m].left]
    IN  left[n]

RecordsOf(t, nodes) == UNION {{t.node[n].values[i] : i \in Cells(t.node[n].size)} : n \in nodes}

\* Adds d to the positions from first on that head one of the chains.
Renumbered(t, recs, first, d) ==
    IF \E r \in recs : r = Null \/ t.rec[r] = << >> THEN [t EXCEPT !.ok = FALSE]
    ELSE LET moved(c) == IF c[1] >= first THEN <<c[1] + d>> \o Tail(c) ELSE c
         IN  [t EXCEPT !.rec = AsSeq([r \in DOMAIN @ |-> IF r \in recs THEN moved(@[r]) ELSE @[r]])]

\* The key is taken to be there when its cell holds it, used or not.
Present(nd, key, index) == nd.size > 0 /\ nd.keys[index] = key

\* A new record in a slot of a node; the positions behind it move down.
NewRecord(t, n, index, pos) ==
    LET nd == t.node[n]
        later == {nd.values[i] : i \in (index + 1)..(nd.size - 1)}
                     \union RecordsOf(t, Rightward(t, nd.right))
    IN  Renumbered([t EXCEPT !.node[n].values[index] = Len(t.rec) + 1,
                             !.rec = Append(@, <<pos>>), !.at = pos],
                   later, pos, 1)

\* The key is in its slot.  Without a position it gets the one of a
\* neighbour, or the one behind it.
Recorded(t, n, index) ==
    LET slot == t.node[n].values[index]
        near == t.node[n].values[IF index = 0 THEN 1 ELSE index - 1]
    IN  IF slot # Null
        THEN IF t.rec[slot] = << >> THEN [t EXCEPT !.ok = FALSE]
             ELSE [t EXCEPT !.rec[slot] = Append(@, t.at)]
        ELSE IF t.at # Unset THEN NewRecord(t, n, index, t.at)
        ELSE IF near = Null \/ (near # Null /\ t.rec[near] = << >>) THEN [t EXCEPT !.ok = FALSE]
        ELSE NewRecord(t, n, index, IF index = 0 THEN t.rec[near][1] ELSE t.rec[near][1] + 1)

\* Puts the key and the position t.at into a leaf that has room.
InsertRecord(t, n, key, index) ==
    Recorded([t EXCEPT !.node[n] =
                  IF Present(@, key, index) THEN @
                  ELSE [@ EXCEPT !.keys = Opened(@, index, t.node[n].size, key),
                                 !.values = Opened(@, index, t.node[n].size, Null),
                                 !.size = @ + 1]],
             n, index)

(* Insertion *)

DefectSplitLeaf(t, n) ==
    LET nd == t.node[n]
        new == [NewNode("LEAF") EXCEPT
                    !.keys = [i \in Cells(Order) |-> IF Half + i < nd.size THEN nd.keys[Half + i] ELSE 0],
                    !.values = [i \in Cells(Order) |-> IF Half + i < nd.size THEN nd.values[Half + i] ELSE Null],
                    !.size = nd.size - Half, !.left = n]
    IN  [WithNode(t, new) EXCEPT
            !.node[n] = [nd EXCEPT !.size = Half, !.type = "LEAF", !.right = Newest(t) + 1]]
\* The upper half of a full leaf moves to a new one on its right, whose
\* other neighbour goes on to call this one its left.
SplitLeaf(t, n) ==
    LET nd == t.node[n]
        new == [NewNode("LEAF") EXCEPT
                    !.keys = [i \in Cells(Order) |-> IF Half + i < nd.size THEN nd.keys[Half + i] ELSE 0],
                    !.values = [i \in Cells(Order) |-> IF Half + i < nd.size THEN nd.values[Half + i] ELSE Null],
                    !.size = nd.size - Half, !.left = n, !.right = nd.right]
    IN  [WithNode(t, new) EXCEPT
            !.node[n] = [nd EXCEPT !.size = Half, !.type = "LEAF", !.right = Newest(t) + 1]]

\* The same for an inner node.  Its middle key and child are in both halves
\* until RemoveKey takes them from the right one.
SplitNode(nd, split) ==
    [left |-> [nd EXCEPT !.size = split,
                         !.child = [i \in 0..Order |-> IF i \in (split + 1)..nd.size THEN Null ELSE @[i]]],
     right |-> [NewNode("INTERNAL") EXCEPT
                    !.keys = [i \in Cells(Order) |-> IF split + i < nd.size THEN nd.keys[split + i] ELSE 0],
                    !.child = [i \in 0..Order |-> IF split + i <= nd.size THEN nd.child[split + i] ELSE Null],
                    !.size = nd.size - split]]

RemoveKey(nd) ==
    IF nd.type # "INTERNAL" THEN nd
    ELSE [nd EXCEPT !.keys = Closed(@, 0, nd.size), !.size = @ - 1,
                    !.child = [i \in 0..Order |-> IF i < nd.size THEN @[i + 1] ELSE @[i]]]

\* btree_make_root.
MakeRoot(t, l, r) ==
    LET root == [NewNode("ROOT") EXCEPT !.size = 1, !.keys[0] = t.node[r].keys[0],
                                        !.child[0] = l, !.child[1] = r]
        s == IF t.node[r].type = "INTERNAL"
             THEN [t EXCEPT !.node[r] = RemoveKey(@), !.node[l].type = "INTERNAL"]
             ELSE t
    IN  [WithNode(s, root) EXCEPT !.root = Newest(s) + 1]

\* Each insertion answers with the tree and the node that a split added.
InsertAtHalf(t, n, key, index) ==
    LET r == Newest(t)
    IN  [new |-> r,
         t |-> IF key < t.node[r].keys[0] THEN InsertRecord(t, n, key, index)
               ELSE InsertRecord(t, r, key, index - Half)]
InsertAtLeaf(t, n, key, index) ==
    IF t.node[n].size < Order - 1 THEN [t |-> InsertRecord(t, n, key, index), new |-> Null]
    ELSE InsertAtHalf(SplitLeaf(t, n), n, key, index)

InsertKey(t, n, c, index) ==
    LET nd == t.node[n]
    IN  [t EXCEPT !.node[n] = [nd EXCEPT !.keys = Opened(@, index, nd.size, t.node[c].keys[0]),
                                         !.child = Opened(@, index + 1, nd.size + 1, c),
                                         !.size = @ + 1],
                  !.node[c] = RemoveKey(@)]

InsertKeyAtHalf(t, n, c, index) ==
    IF t.node[c].keys[0] < t.node[Newest(t)].keys[0] THEN InsertKey(t, n, c, index)
    ELSE InsertKey(t, Newest(t), c, index - Half)
InsertAtInternal(t, n, c, index) ==
    IF t.node[n].size < Order - 1 THEN [t |-> InsertKey(t, n, c, index), new |-> Null]
    ELSE LET half == SplitNode(t.node[n], Half)
             u == InsertKeyAtHalf(WithNode([t EXCEPT !.node[n] = half.left], half.right), n, c, index)
         IN  IF t.node[n].type = "ROOT" THEN [t |-> MakeRoot(u, n, Newest(t) + 1), new |-> Null]
             ELSE [t |-> u, new |-> Newest(t) + 1]

\* btree_insert and btree_insert_at: down to a leaf and back.
Insert(t, key, pos) ==
    LET s == [t EXCEPT !.at = pos]
        at[n \in 0..Len(t.node)] ==
            LET index == SearchIndex(t.node[n], key)
                c == t.node[n].child[index]
                below == at[c]
            IN  IF IsLeaf(t.node[n]) THEN InsertAtLeaf(s, n, key, index)
                ELSE IF c = Null THEN [t |-> s, new |-> Null]
                ELSE IF below.new = Null THEN below
                ELSE InsertAtInternal(below.t, n, below.new, index)
        grown(top) == IF top.new = Null THEN top.t ELSE MakeRoot(top.t, t.root, top.new)
    IN  IF t.root = Null
        THEN InsertRecord([WithNode(s, NewNode("RLEAF")) EXCEPT !.root = Newest(t) + 1],
                          Newest(t) + 1, key, 0)
        ELSE grown(at[t.root])

(* Deletion *)

Parent(t, n, key) ==
    LET up[p \in 0..Len(t.node)] ==
            IF p = Null \/ p = n \/ (p # Null /\ IsLeaf(t.node[p])) THEN Null
            ELSE LET c == t.node[p].child[SearchIndex(t.node[p], key)]
                 IN  IF c = n THEN p ELSE up[c]
    IN  up[t.root]

\* A node that lost its last key is taken from its parent, with the child
\* that it may still have; and so on up.  A root has no parent to ask.
Unlinked(s, p, key) ==
    LET i == SearchIndex(s.t.node[p], key)
        size == s.t.node[p].size
    IN  IF p = Null THEN [s EXCEPT !.t.ok = FALSE]
        ELSE [n |-> p,
              t |-> [s.t EXCEPT
                  !.node[s.n].type = "FREED",
                  !.node[p] = [@ EXCEPT
                      !.keys = Closed(@, i, size + 1),
                      !.child = [Closed(@, i, size + 1) EXCEPT ![size] = Null],
                      !.size = @ - 1]]]
Unlink(t, n, key) ==
    LET step(s) == IF ~ s.t.ok \/ s.t.node[s.n].size > 0 THEN s
                   ELSE Unlinked(s, Parent(s.t, s.n, key), key)
        steps[k \in 0..Len(t.node)] == IF k = 0 THEN [t |-> t, n |-> n] ELSE step(steps[k - 1])
    IN  steps[Len(t.node)].t

\* The positions behind one that has gone move up: in the leaves to the right
\* when the rows are in the order of the keys, else in all that the pointers
\* reach.
MovedUp(t, n, index, pos, iscluster) ==
    LET nd == t.node[n]
        others == IF iscluster
                  THEN {nd.values[i] : i \in index..(nd.size - 1)}
                           \union RecordsOf(t, Rightward(t, nd.right))
                  ELSE RecordsOf(t, Rightward(t, Leftmost(t, n)))
    IN  Renumbered(t, others, pos, -1)

DefectDeleteAt(t, n, key, index, iscluster) ==
    LET slot == t.node[n].values[index]
        size == t.node[n].size
        left(nd) == [nd EXCEPT !.keys = Closed(@, index, size), !.size = @ - 1]
    IN  MovedUp([t EXCEPT !.rec[slot] = << >>, !.node[n] = left(@)], n, index, t.rec[slot][1], iscluster)
\* The key in a slot of a leaf goes, with its whole chain.
DeleteAt(t, n, key, index, iscluster) ==
    LET slot == t.node[n].values[index]
        size == t.node[n].size
        left(nd) == [nd EXCEPT
            !.keys = Closed(@, index, size),
            !.values = [Closed([@ EXCEPT ![index] = Null], index, size) EXCEPT ![size - 1] = Null],
            !.size = @ - 1]
    IN  IF slot = Null \/ (slot # Null /\ t.rec[slot] = << >>) THEN [t EXCEPT !.ok = FALSE]
        ELSE Unlink(MovedUp([t EXCEPT !.rec[slot] = << >>, !.node[n] = left(@)],
                            n, index, t.rec[slot][1], iscluster),
                    n, key)

\* btree_delete.
Delete(t, key, iscluster) ==
    LET from(n) == IF n = Null THEN [t EXCEPT !.ok = FALSE]
                   ELSE DeleteAt(t, n, key, SearchIndex(t.node[n], key), iscluster)
    IN  IF t.root = Null THEN t ELSE from(FindLeaf(t, key))

(* Bulk loading *)

\* The leaves of n rows, Half in each: the last one is filled with what lies
\* behind the end of both arrays.
Leaves(data, positions, n) ==
    LET count == (n + Half - 1) \div Half
    IN  [EmptyTree EXCEPT
            !.rec = AsSeq([j \in 1..(count * Half) |-> <<positions[j - 1]>>]),
            !.node = AsSeq([m \in 1..count |->
                [NewNode("LEAF") EXCEPT
                    !.keys = [i \in Cells(Order) |-> IF i < Half THEN data[(m - 1) * Half + i] ELSE 0],
                    !.values = [i \in Cells(Order) |-> IF i < Half THEN (m - 1) * Half + i + 1 ELSE Null],
                    !.size = Half, !.left = m - 1, !.right = IF m < count THEN m + 1 ELSE Null]])]

\* The newest node gets a child; a full one is split before.
AddChild(t, c) ==
    LET n == Newest(t)
        k == t.node[n].size
    IN  [t EXCEPT !.node[n].keys[k] = t.node[c].keys[0],
                  !.node[n].child[k + 1] = c,
                  !.node[n].size = k + 1,
                  !.node[c] = RemoveKey(@)]
SplitNewest(t, split) ==
    LET n == Newest(t)
        half == SplitNode(t.node[n], split)
    IN  WithNode([t EXCEPT !.node[n] = [half.left EXCEPT !.right = n + 1]], [half.right EXCEPT !.left = n])

\* A level of inner nodes over the nodes first..last.
InnerLevel(t, first, last) ==
    LET start == WithNode(t, [NewNode("INTERNAL") EXCEPT !.child[0] = IF first > last THEN Null ELSE first])
        more(p, c) ==
            IF p.t.node[Newest(p.t)].size < Order - 1 THEN [p EXCEPT !.t = AddChild(p.t, c)]
            ELSE [split |-> Half + 1, t |-> AddChild(SplitNewest(p.t, p.split), c)]
        add[c \in first..last] ==
            IF c = first THEN [t |-> start, split |-> Half] ELSE more(add[c - 1], c)
    IN  IF first > last THEN start ELSE add[last].t

\* btree_bulk_insert.
BulkInsert(data, positions, n) ==
    LET higher(l) == [first |-> Newest(l.t) + 1, t |-> InnerLevel(l.t, l.first, Newest(l.t))]
        leaves == [first |-> 1, t |-> Leaves(data, positions, n)]
        levels[k \in 1..n] ==
            IF k = 1 THEN higher(leaves)
            ELSE LET l == levels[k - 1] IN IF l.first = Newest(l.t) THEN l ELSE higher(l)
        rooted(t) == [t EXCEPT !.root = Newest(t), !.node[Newest(t)].type = "ROOT"]
    IN  rooted(IF n = 0 THEN InnerLevel(leaves.t, 1, 0) ELSE levels[n].t)
===============================================================================
