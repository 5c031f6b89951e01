----------------------------- MODULE SortingProofs ----------------------------
(***************************************************************************)
(* Arrays in order as the model has them.  binary_search_data, merge_data  *)
(* and sort_data: that their recursions end, where a search comes to its   *)
(* end in any array, and that a sort gives each cell of any array once and *)
(* in order.  Then what a sorted index is over its column (Mirrors), and   *)
(* what becomes of it when the column gets a row, loses rows or has its    *)
(* rows in another order.                                                  *)
(*                                                                         *)
(* A recursive function of the model is the solution of an equation, if it *)
(* has one: Recursion shows that it has when every call descends in a      *)
(* rank, Downward and Upward are the inductions that say what it is.       *)
(***************************************************************************)
EXTENDS Indexes, TLAPS, SequenceTheorems, FiniteSetTheorems, WellFoundedInduction

-------------------------------------------------------------------------------
(* Recursive functions *)

\* Every set of natural numbers that is not empty has a least one.
LEMMA LeastNumber ==
    ASSUME NEW T, T \subseteq Nat, T # {}
    PROVE  \E m \in T : \A k \in T : m <= k
<1>1. PICK m \in T : \A y \in T : ~ (<<y, m>> \in OpToRel(<, Nat))
    BY NatLessThanWellFounded, WFMin
<1>2. ASSUME NEW k \in T PROVE m <= k
    <2>1. ~ (<<k, m>> \in OpToRel(<, Nat))
        BY <1>1
    <2>2. ~ (k < m)
        BY <2>1 DEF OpToRel
    <2> QED
        BY <2>2
<1> QED
    BY <1>2

\* Induction up to a bound, for a set.
LEMMA Upward ==
    ASSUME NEW n \in Nat, NEW S, 0 \in S, \A m \in 1..n : m - 1 \in S => m \in S
    PROVE  0..n \subseteq S
<1> DEFINE T == (0..n) \ S
<1> SUFFICES ASSUME T # {} PROVE FALSE
    OBVIOUS
<1>1. T \subseteq Nat
    OBVIOUS
<1>2. PICK m \in T : \A k \in T : m <= k
    <2> HIDE DEF T
    <2> QED BY <1>1, LeastNumber
<1>3. m \in 1..n /\ m - 1 \in 0..n
    BY <1>2
<1>4. m - 1 \in S
    BY <1>2, <1>3
<1> QED
    BY <1>3, <1>4, <1>2

\* r gives the arguments of a recursive function ranks from 0 to N.
Ranks(r, D, N) == r \in [D -> 0..N]
\* G says what a function is at d, from what it is at lower ranks.
Descends(G, D, X, r) ==
    /\ G \in [D \X [D -> X] -> X]
    /\ \A d \in D : \A f, g \in [D -> X] :
           (\A e \in D : r[e] < r[d] => f[e] = g[e]) => G[<<d, f>>] = G[<<d, g>>]
\* f is the recursive function that G describes.
Solves(f, G, D, X) == f \in [D -> X] /\ \A d \in D : f[d] = G[<<d, f>>]
\* A set that holds every argument whose lower ranks it holds.
Inherited(S, D, r) == \A d \in D : (\A e \in D : r[e] < r[d] => e \in S) => d \in S

\* A recursive function whose calls descend in rank exists.
LEMMA Recursion ==
    ASSUME NEW D, NEW X, NEW x0 \in X, NEW N \in Nat, NEW r, Ranks(r, D, N),
           NEW G, Descends(G, D, X, r)
    PROVE  \E f : Solves(f, G, D, X)
<1> USE DEF Ranks, Descends, Solves
<1> DEFINE Upto(f, k) == \A d \in D : r[d] < k => f[d] = G[<<d, f>>]
           S == {k \in 0..(N + 1) : \E f \in [D -> X] : Upto(f, k)}
<1>1. 0 \in S
    <2>1. [d \in D |-> x0] \in [D -> X]
        OBVIOUS
    <2>2. Upto([d \in D |-> x0], 0)
        OBVIOUS
    <2>3. \E f \in [D -> X] : Upto(f, 0)
        BY <2>1, <2>2
    <2> QED
        BY <2>3
<1>2. ASSUME NEW k \in 1..(N + 1), k - 1 \in S PROVE k \in S
    <2>1. PICK f \in [D -> X] : Upto(f, k - 1)
        BY <1>2
    <2> DEFINE g == [d \in D |-> G[<<d, f>>]]
    <2>2. g \in [D -> X]
        OBVIOUS
    <2>3. ASSUME NEW d \in D, r[d] < k PROVE g[d] = G[<<d, g>>]
        <3>1. \A e \in D : r[e] < r[d] => r[e] < k - 1
            BY <2>3
        <3>2. \A e \in D : r[e] < r[d] => g[e] = f[e]
            BY <3>1, <2>1
        <3> HIDE DEF g
        <3>3. G[<<d, g>>] = G[<<d, f>>]
            BY <3>2, <2>2
        <3> QED
            BY <3>3 DEF g
    <2>4. \E h \in [D -> X] : Upto(h, k)
        <3> HIDE DEF g
        <3> QED BY <2>2, <2>3
    <2>5. k \in 0..(N + 1)
        OBVIOUS
    <2> QED
        BY <2>4, <2>5
<1>3. 0..(N + 1) \subseteq S
    <2> HIDE DEF S
    <2>1. N + 1 \in Nat
        OBVIOUS
    <2> QED BY <1>1, <1>2, <2>1, Upward
<1>4. N + 1 \in S
    <2> HIDE DEF S
    <2>1. N + 1 \in 0..(N + 1)
        OBVIOUS
    <2> QED
        BY <1>3, <2>1
<1>5. PICK f \in [D -> X] : Upto(f, N + 1)
    BY <1>4
<1>6. \A d \in D : r[d] < N + 1
    OBVIOUS
<1> QED
    BY <1>5, <1>6

\* Every number, if every number is right whenever all smaller ones are.
LEMMA Downward ==
    ASSUME NEW D, NEW N \in Nat, NEW r, Ranks(r, D, N), NEW S, Inherited(S, D, r)
    PROVE  D \subseteq S
<1> USE DEF Ranks, Inherited
<1> DEFINE T == {r[d] : d \in D \ S}
<1> SUFFICES ASSUME T # {} PROVE FALSE
    OBVIOUS
<1>1. T \subseteq Nat
    OBVIOUS
<1>2. PICK m \in T : \A k \in T : m <= k
    <2> HIDE DEF T
    <2> QED BY <1>1, LeastNumber
<1>3. PICK d \in D \ S : r[d] = m
    BY <1>2
<1>4. ASSUME NEW e \in D, r[e] < r[d] PROVE e \in S
    <2>1. CASE e \in D \ S
        <3>1. r[e] \in T
            BY <2>1
        <3>2. r[d] <= r[e]
            BY <3>1, <1>2, <1>3
        <3>3. r[e] \in Nat /\ r[d] \in Nat
            OBVIOUS
        <3> QED
            BY <3>2, <3>3, <1>4
    <2> QED
        BY <2>1
<1> QED
    BY <1>3, <1>4
-------------------------------------------------------------------------------
(* Binary search *)

\* The comparisons that a search is made with (ComparatorType).
Ops == {"LESS", "LESS_EQUAL", "GREATER", "GREATER_EQUAL"}
\* The ranges <<s, e>> that a binary search may come to.
SearchRanges(end) == (0..(end + 1)) \X (-1..end)
\* One call of binary_search_data, given the function f of the others.
SearchStep(data, key, op, f, p) ==
    LET s == p[1]
        e == p[2]
        mid == IF e < s THEN s ELSE s + (e - s) \div 2
    IN  IF key >= data[mid] /\ key < data[mid + 1] THEN Hit(data, mid, key, op)
        ELSE IF s >= e THEN s
        ELSE IF key <= data[mid] THEN f[<<s, mid>>]
        ELSE f[<<mid + 1, e>>]
\* f is the recursive function of SearchData.
Searches(data, end, key, op, f) ==
    f = [p \in SearchRanges(end) |-> SearchStep(data, key, op, f, p)]

\* The middle of a range of two cells or more leaves cells on both sides.
LEMMA Halves ==
    ASSUME NEW s \in Int, NEW e \in Int, s < e
    PROVE  LET mid == s + (e - s) \div 2 IN mid \in Int /\ s <= mid /\ mid < e
OBVIOUS

\* The search ends: its recursive function exists.
LEMMA SearchSome ==
    ASSUME NEW data, NEW end \in Nat, NEW key, NEW op \in Ops
    PROVE  \E f : Searches(data, end, key, op, f)
<1> DEFINE D == SearchRanges(end)
           rank(p) == IF p[1] < p[2] THEN p[2] - p[1] ELSE 0
           r == [p \in D |-> rank(p)]
           G == [q \in D \X [D -> Int] |-> SearchStep(data, key, op, q[2], q[1])]
<1>1. \A p \in D : p[1] \in 0..(end + 1) /\ p[2] \in -1..end /\ p = <<p[1], p[2]>>
    BY DEF SearchRanges
<1>2. r \in [D -> 0..(end + 1)]
    <2>1. \A p \in D : rank(p) \in 0..(end + 1)
        BY <1>1
    <2> HIDE DEF rank, D
    <2> QED
        BY <2>1
<1>3. ASSUME NEW p \in D, p[1] < p[2]
      PROVE  LET mid == p[1] + (p[2] - p[1]) \div 2
             IN  /\ mid \in Int /\ p[1] <= mid /\ mid < p[2]
                 /\ <<p[1], mid>> \in D /\ r[<<p[1], mid>>] < r[p]
                 /\ <<mid + 1, p[2]>> \in D /\ r[<<mid + 1, p[2]>>] < r[p]
    <2> DEFINE mid == p[1] + (p[2] - p[1]) \div 2
    <2>1. mid \in Int /\ p[1] <= mid /\ mid < p[2]
        BY <1>1, <1>3, Halves
    <2> HIDE DEF mid
    <2>2. <<p[1], mid>> \in D /\ <<mid + 1, p[2]>> \in D
        BY <1>1, <2>1 DEF SearchRanges
    <2>3. r[<<p[1], mid>>] = rank(<<p[1], mid>>) /\ r[<<mid + 1, p[2]>>] = rank(<<mid + 1, p[2]>>)
          /\ r[p] = rank(p)
        BY <2>2
    <2>4. rank(<<p[1], mid>>) < rank(p) /\ rank(<<mid + 1, p[2]>>) < rank(p)
        BY <1>1, <1>3, <2>1
    <2> QED
        BY <2>1, <2>2, <2>3, <2>4 DEF mid
<1>4. G \in [D \X [D -> Int] -> Int]
    <2> SUFFICES ASSUME NEW p \in D, NEW f \in [D -> Int]
                 PROVE  SearchStep(data, key, op, f, p) \in Int
        OBVIOUS
    <2>1. ASSUME NEW mid \in Int PROVE Hit(data, mid, key, op) \in Int
        BY DEF Hit, Ops
    <2>2. CASE p[1] < p[2]
        <3> DEFINE mid == p[1] + (p[2] - p[1]) \div 2
        <3>1. /\ mid \in Int /\ <<p[1], mid>> \in D /\ <<mid + 1, p[2]>> \in D
            BY <1>3, <2>2
        <3>2. SearchStep(data, key, op, f, p) \in
                  {Hit(data, mid, key, op), p[1], f[<<p[1], mid>>], f[<<mid + 1, p[2]>>]}
            BY <1>1, <2>2 DEF SearchStep
        <3> HIDE DEF mid, D
        <3> QED
            BY <3>1, <3>2, <2>1, <1>1
    <2>3. CASE ~ (p[1] < p[2])
        <3>1. SearchStep(data, key, op, f, p) \in {Hit(data, p[1], key, op), p[1]}
            BY <1>1, <2>3 DEF SearchStep
        <3> QED
            BY <3>1, <2>1, <1>1
    <2> QED
        BY <2>2, <2>3
<1>5. ASSUME NEW p \in D, NEW f \in [D -> Int], NEW g \in [D -> Int],
             \A e \in D : r[e] < r[p] => f[e] = g[e]
      PROVE  G[<<p, f>>] = G[<<p, g>>]
    <2>1. G[<<p, f>>] = SearchStep(data, key, op, f, p) /\ G[<<p, g>>] = SearchStep(data, key, op, g, p)
        OBVIOUS
    <2>2. CASE p[1] < p[2]
        <3> DEFINE mid == p[1] + (p[2] - p[1]) \div 2
        <3>1. f[<<p[1], mid>>] = g[<<p[1], mid>>] /\ f[<<mid + 1, p[2]>>] = g[<<mid + 1, p[2]>>]
            BY <1>3, <2>2, <1>5
        <3>2. ~ (p[2] < p[1]) /\ ~ (p[1] >= p[2])
            BY <1>1, <2>2
        <3>3. ASSUME NEW h
              PROVE  SearchStep(data, key, op, h, p) =
                  IF key >= data[mid] /\ key < data[mid + 1] THEN Hit(data, mid, key, op)
                  ELSE IF key <= data[mid] THEN h[<<p[1], mid>>] ELSE h[<<mid + 1, p[2]>>]
            BY <3>2, Zenon DEF SearchStep
        <3>4. SearchStep(data, key, op, f, p) = SearchStep(data, key, op, g, p)
            BY <3>1, <3>3
        <3> HIDE DEF mid, G
        <3> QED
            BY <2>1, <3>4
    <2>3. CASE ~ (p[1] < p[2])
        <3>1. p[1] >= p[2]
            BY <1>1, <2>3
        <3>2. SearchStep(data, key, op, f, p) = SearchStep(data, key, op, g, p)
            BY <3>1 DEF SearchStep
        <3> HIDE DEF G
        <3> QED
            BY <2>1, <3>2
    <2> QED
        BY <2>2, <2>3
<1>6. \E f : Solves(f, G, D, Int)
    <2> DEFINE N == end + 1
    <2>1. N \in Nat /\ 0 \in Int
        OBVIOUS
    <2>2. Descends(G, D, Int, r)
        <3> HIDE DEF D, r, G
        <3> QED BY <1>4, <1>5 DEF Descends
    <2>3. Ranks(r, D, N)
        BY <1>2 DEF Ranks
    <2> HIDE DEF D, r, G, N
    <2> QED
        BY <2>1, <2>2, <2>3, Recursion
<1>7. PICK f \in [D -> Int] : \A p \in D : f[p] = G[<<p, f>>]
    BY <1>6 DEF Solves
<1>8. f = [p \in D |-> SearchStep(data, key, op, f, p)]
    BY <1>7
<1> QED
    BY <1>8 DEF Searches

\* binary_search_data ends, in order or not: at a hit, or where the halves met,
\* which is a cell of the array.
THEOREM SearchResult ==
    ASSUME NEW end \in Nat, NEW data \in [0..(end + 2) -> Int], NEW key \in Int, NEW op \in Ops
    PROVE  LET v == SearchData(data, end, key, op)
           IN  \/ \E mid \in 0..end :
                      data[mid] <= key /\ key < data[mid + 1] /\ v = Hit(data, mid, key, op)
               \/ /\ v \in 0..end
                  /\ v = 0 \/ data[v] <= key
                  /\ v = end \/ key <= data[v]
<1> DEFINE D == SearchRanges(end)
           rank(p) == IF p[1] < p[2] THEN p[2] - p[1] ELSE 0
           r == [p \in D |-> rank(p)]
<1>1. \E f : Searches(data, end, key, op, f)
    BY SearchSome
<1>2. SearchData(data, end, key, op) = (CHOOSE f : Searches(data, end, key, op, f))[<<0, end>>]
    BY DEF SearchData, Searches, SearchStep, SearchRanges
<1>3. PICK f : Searches(data, end, key, op, f) /\ SearchData(data, end, key, op) = f[<<0, end>>]
    BY <1>1, <1>2
<1> DEFINE Right(v) ==
               \/ \E mid \in 0..end :
                      data[mid] <= key /\ key < data[mid + 1] /\ v = Hit(data, mid, key, op)
               \/ /\ v \in 0..end
                  /\ v = 0 \/ data[v] <= key
                  /\ v = end \/ key <= data[v]
           Within(p) == /\ p[1] <= p[2]
                        /\ p[1] = 0 \/ data[p[1]] <= key
                        /\ p[2] = end \/ key <= data[p[2]]
           S == {p \in D : Within(p) => Right(f[p])}
<1>4. \A p \in D : p[1] \in 0..(end + 1) /\ p[2] \in -1..end /\ p = <<p[1], p[2]>>
    BY DEF SearchRanges
<1>5. r \in [D -> 0..(end + 1)]
    <2>1. \A p \in D : rank(p) \in 0..(end + 1)
        BY <1>4
    <2> HIDE DEF rank, D
    <2> QED
        BY <2>1
<1>6. ASSUME NEW p \in D, \A q \in D : r[q] < r[p] => q \in S PROVE p \in S
    <2> SUFFICES ASSUME Within(p) PROVE Right(f[p])
        OBVIOUS
    <2> DEFINE mid == p[1] + (p[2] - p[1]) \div 2
    <2>1. f[p] = IF key >= data[mid] /\ key < data[mid + 1] THEN Hit(data, mid, key, op)
                 ELSE IF p[1] >= p[2] THEN p[1]
                 ELSE IF key <= data[mid] THEN f[<<p[1], mid>>]
                 ELSE f[<<mid + 1, p[2]>>]
        <3>1. f[p] = SearchStep(data, key, op, f, p)
            BY <1>3 DEF Searches
        <3>2. ~ (p[2] < p[1])
            BY <1>4
        <3> QED
            BY <3>1, <3>2 DEF SearchStep
    <2>2. mid \in 0..end
        <3>1. CASE p[1] < p[2]
            <4>1. p[1] \in Int /\ p[2] \in Int /\ 0 <= p[1] /\ p[2] <= end
                BY <1>4
            <4>2. mid \in Int /\ p[1] <= mid /\ mid < p[2]
                BY <3>1, <4>1, Halves
            <4> HIDE DEF mid
            <4> QED
                BY <4>1, <4>2, SMTT(60)
        <3>2. CASE p[1] = p[2]
            BY <3>2, <1>4
        <3> QED
            BY <3>1, <3>2, <1>4
    <2>3. p[1] < p[2] => p[1] <= mid /\ mid < p[2]
        BY <1>4, Halves
    <2> HIDE DEF mid
    <2>4. data[mid] \in Int /\ data[mid + 1] \in Int
        BY <2>2
    <2>5. CASE key >= data[mid] /\ key < data[mid + 1]
        BY <2>1, <2>2, <2>4, <2>5
    <2>6. CASE ~ (key >= data[mid] /\ key < data[mid + 1]) /\ p[1] >= p[2]
        <3>1. f[p] = p[1] /\ p[1] = p[2]
            BY <2>1, <2>6, <1>4
        <3> QED
            BY <3>1, <1>4
    <2>7. CASE ~ (key >= data[mid] /\ key < data[mid + 1]) /\ ~ (p[1] >= p[2])
        <3>1. p[1] < p[2]
            BY <2>7, <1>4
        <3>2. CASE key <= data[mid]
            <4> DEFINE q == <<p[1], mid>>
            <4>1. q \in D /\ q[1] = p[1] /\ q[2] = mid
                <5>1. mid \in -1..end /\ mid + 1 \in 0..(end + 1) /\ p[1] \in 0..(end + 1) /\ p[2] \in -1..end
                    BY <1>4, <2>2, SMTT(60)
                <5> QED
                    BY <5>1 DEF SearchRanges
            <4>2. Within(q)
                BY <4>1, <3>1, <2>3, <3>2
            <4>3. rank(q) < rank(p)
                BY <1>4, <2>2, <2>3, <3>1, <4>1, SMTT(60)
            <4>4. r[q] < r[p]
                BY <4>1, <4>3
            <4>5. f[p] = f[q]
                BY <2>1, <2>7, <3>2
            <4>6. q \in S
                BY <4>1, <4>4, <1>6
            <4> QED
                BY <4>6, <4>2, <4>5
        <3>3. CASE ~ (key <= data[mid])
            <4> DEFINE q == <<mid + 1, p[2]>>
            <4>1. q \in D /\ q[1] = mid + 1 /\ q[2] = p[2]
                <5>1. mid \in -1..end /\ mid + 1 \in 0..(end + 1) /\ p[1] \in 0..(end + 1) /\ p[2] \in -1..end
                    BY <1>4, <2>2
                <5> QED
                    BY <5>1 DEF SearchRanges
            <4>2. Within(q)
                BY <4>1, <3>1, <2>3, <3>3, <2>7, <2>4, <1>4, <2>2, SMTT(60)
            <4>3. rank(q) < rank(p)
                BY <1>4, <2>2, <2>3, <3>1, <4>1, SMTT(60)
            <4>4. r[q] < r[p]
                BY <4>1, <4>3
            <4>5. f[p] = f[q]
                BY <2>1, <2>7, <3>3
            <4>6. q \in S
                BY <4>1, <4>4, <1>6
            <4> QED
                BY <4>6, <4>2, <4>5
        <3> QED
            BY <3>2, <3>3
    <2> QED
        BY <2>5, <2>6, <2>7
<1>7. D \subseteq S
    <2> DEFINE N == end + 1
    <2>1. N \in Nat
        OBVIOUS
    <2>2. Ranks(r, D, N)
        BY <1>5 DEF Ranks
    <2>3. Inherited(S, D, r)
        <3> HIDE DEF D, r, S
        <3> QED BY <1>6 DEF Inherited
    <2> HIDE DEF D, r, S, N
    <2> QED
        BY <2>1, <2>2, <2>3, Downward
<1>8. <<0, end>> \in D /\ Within(<<0, end>>)
    BY DEF SearchRanges
<1>9. Right(f[<<0, end>>])
    BY <1>7, <1>8
<1> QED
    BY <1>3, <1>9
-------------------------------------------------------------------------------
(* Merging two runs *)

\* A value and the cell it came from (sort_data).
Unit == Int \X Int
\* A sorted run: the values do not fall and each cell comes once.
Run(u) ==
    /\ u \in Seq(Unit)
    /\ \A a, b \in 1..Len(u) : a < b => u[a][1] <= u[b][1] /\ u[a][2] # u[b][2]
\* The units of a run from its i-th on.
From(u, i) == {u[a] : a \in i..Len(u)}
\* Two runs with no cell in common.
Apart(l, r) == \A a \in 1..Len(l), b \in 1..Len(r) : l[a][2] # r[b][2]

\* The rest of a run is a run.
LEMMA SuffixRun ==
    ASSUME NEW u, Run(u), NEW i \in 1..(Len(u) + 1)
    PROVE  LET w == SubSeq(u, i, Len(u))
           IN  Run(w) /\ Len(w) = Len(u) + 1 - i /\ From(w, 1) = From(u, i)
<1> DEFINE w == SubSeq(u, i, Len(u))
<1>1. u \in Seq(Unit) /\ Len(u) \in Nat /\ \A a \in 1..Len(u) : u[a] \in Unit
    BY LenProperties, ElementOfSeq DEF Run
<1>2. /\ w \in Seq(Unit)
      /\ Len(w) = IF i <= Len(u) THEN Len(u) - i + 1 ELSE 0
      /\ \A k \in 1..(Len(u) - i + 1) : w[k] = u[i + k - 1]
    <2>1. \A k \in i..Len(u) : u[k] \in Unit
        BY <1>1
    <2>2. i \in Int /\ Len(u) \in Int
        BY <1>1
    <2> QED
        BY <2>1, <2>2, SubSeqProperties
<1> HIDE DEF w
<1>3. Len(w) = Len(u) + 1 - i
    BY <1>1, <1>2
<1>4. \A k \in 1..Len(w) : w[k] = u[i + k - 1] /\ i + k - 1 \in i..Len(u)
    BY <1>1, <1>2, <1>3
<1>5. Run(w)
    <2> SUFFICES ASSUME NEW a \in 1..Len(w), NEW b \in 1..Len(w), a < b
                 PROVE  w[a][1] <= w[b][1] /\ w[a][2] # w[b][2]
        BY <1>2 DEF Run
    <2>1. i + a - 1 \in 1..Len(u) /\ i + b - 1 \in 1..Len(u) /\ i + a - 1 < i + b - 1
        BY <1>1, <1>3
    <2>2. w[a] = u[i + a - 1] /\ w[b] = u[i + b - 1]
        BY <1>4
    <2> DEFINE c == i + a - 1
               d == i + b - 1
    <2>3. u[c][1] <= u[d][1] /\ u[c][2] # u[d][2]
        <3>1. c \in 1..Len(u) /\ d \in 1..Len(u) /\ c < d
            BY <2>1
        <3> HIDE DEF c, d
        <3> QED
            BY <3>1 DEF Run
    <2> QED
        BY <2>2, <2>3
<1>6. From(w, 1) = From(u, i)
    <2>1. ASSUME NEW a \in i..Len(u) PROVE u[a] \in From(w, 1)
        <3>1. a - i + 1 \in 1..Len(w) /\ i + (a - i + 1) - 1 = a
            BY <1>1, <1>3
        <3>2. w[a - i + 1] = u[a]
            BY <1>4, <3>1
        <3> QED
            BY <3>1, <3>2 DEF From
    <2>2. \A k \in 1..Len(w) : w[k] \in From(u, i)
        BY <1>4 DEF From
    <2> QED
        BY <2>1, <2>2 DEF From
<1> QED
    BY <1>3, <1>5, <1>6 DEF w

\* What a sequence is with one more element in front.
LEMMA Prepended ==
    ASSUME NEW S, NEW x \in S, NEW w \in Seq(S)
    PROVE  LET v == <<x>> \o w
           IN  /\ v \in Seq(S) /\ Len(v) = Len(w) + 1 /\ Len(w) \in Nat
               /\ v[1] = x
               /\ \A k \in 1..Len(w) : v[k + 1] = w[k]
<1>1. <<x>> \in Seq(S) /\ Len(<<x>>) = 1 /\ <<x>>[1] = x
    OBVIOUS
<1>2. Len(w) \in Nat
    BY LenProperties
<1> DEFINE o == <<x>>
<1>3. o \in Seq(S) /\ Len(o) = 1 /\ o[1] = x
    BY <1>1
<1> HIDE DEF o
<1>4. /\ o \o w \in Seq(S)
      /\ Len(o \o w) = Len(o) + Len(w)
      /\ \A i \in 1..(Len(o) + Len(w)) : (o \o w)[i] = IF i <= Len(o) THEN o[i] ELSE w[i - Len(o)]
    BY <1>3, ConcatProperties
<1> DEFINE v == o \o w
<1>5. v \in Seq(S) /\ Len(v) = Len(w) + 1 /\ v[1] = x
    BY <1>2, <1>3, <1>4
<1>6. ASSUME NEW k \in 1..Len(w) PROVE v[k + 1] = w[k]
    <2>1. k + 1 \in 1..(Len(o) + Len(w)) /\ ~ (k + 1 <= Len(o)) /\ k + 1 - Len(o) = k
        BY <1>2, <1>3
    <2> QED
        BY <2>1, <1>4
<1> QED
    BY <1>2, <1>5, <1>6 DEF o

\* A unit that is least and of a new cell goes before a run.
LEMMA PrependRun ==
    ASSUME NEW w, Run(w), NEW x \in Unit, \A y \in From(w, 1) : x[1] <= y[1] /\ x[2] # y[2]
    PROVE  LET v == <<x>> \o w
           IN  Run(v) /\ Len(v) = Len(w) + 1 /\ From(v, 1) = From(w, 1) \union {x}
<1> DEFINE v == <<x>> \o w
<1>1. /\ v \in Seq(Unit) /\ Len(v) = Len(w) + 1 /\ Len(w) \in Nat
      /\ v[1] = x
      /\ \A k \in 1..Len(w) : v[k + 1] = w[k]
    BY Prepended DEF Run
<1> HIDE DEF v
<1>2. \A k \in 1..Len(v) : k = 1 \/ (k - 1 \in 1..Len(w) /\ v[k] = w[k - 1])
    <2> SUFFICES ASSUME NEW k \in 1..Len(v), k # 1 PROVE k - 1 \in 1..Len(w) /\ v[k] = w[k - 1]
        OBVIOUS
    <2>1. k - 1 \in 1..Len(w) /\ (k - 1) + 1 = k
        BY <1>1
    <2>2. v[(k - 1) + 1] = w[k - 1]
        BY <1>1, <2>1
    <2> QED
        BY <2>1, <2>2
<1>3. Run(v)
    <2> SUFFICES ASSUME NEW a \in 1..Len(v), NEW b \in 1..Len(v), a < b
                 PROVE  v[a][1] <= v[b][1] /\ v[a][2] # v[b][2]
        BY <1>1 DEF Run
    <2>1. b # 1 /\ b - 1 \in 1..Len(w) /\ v[b] = w[b - 1]
        BY <1>1, <1>2
    <2>2. v[b] \in From(w, 1)
        BY <2>1 DEF From
    <2>3. CASE a = 1
        BY <1>1, <2>2, <2>3
    <2>4. CASE a # 1
        <3>1. a - 1 \in 1..Len(w) /\ v[a] = w[a - 1] /\ a - 1 < b - 1
            BY <1>2, <2>4
        <3> QED
            BY <2>1, <3>1 DEF Run
    <2> QED
        BY <2>3, <2>4
<1>4. From(v, 1) = From(w, 1) \union {x}
    <2>1. \A k \in 1..Len(v) : v[k] \in From(w, 1) \union {x}
        BY <1>1, <1>2 DEF From
    <2>2. 1 \in 1..Len(v) /\ \A k \in 1..Len(w) : k + 1 \in 1..Len(v)
        BY <1>1
    <2>3. x \in From(v, 1) /\ \A k \in 1..Len(w) : w[k] \in From(v, 1)
        BY <1>1, <2>2 DEF From
    <2> QED
        BY <2>1, <2>3 DEF From
<1> QED
    BY <1>1, <1>3, <1>4 DEF v

\* The pairs of places up to which a merge may have come.
MergeFronts(l, r) == (1..(Len(l) + 1)) \X (1..(Len(r) + 1))
\* One step of a merge, given the function f of the rest.
MergeStep(l, r, f, p) ==
    LET i == p[1]
        j == p[2]
    IN  IF j > Len(r) THEN SubSeq(l, i, Len(l))
        ELSE IF i > Len(l) THEN SubSeq(r, j, Len(r))
        ELSE IF l[i][1] <= r[j][1] THEN <<l[i]>> \o f[<<i + 1, j>>]
        ELSE <<r[j]>> \o f[<<i, j + 1>>]
\* f is the recursive function of Merge.
Merges(l, r, f) == f = [p \in MergeFronts(l, r) |-> MergeStep(l, r, f, p)]

\* The fronts move on, and there are so many rows behind them.
MergeRank(l, r) == [p \in MergeFronts(l, r) |-> Len(l) + 1 - p[1] + Len(r) + 1 - p[2]]
\* Each step of a merge leaves fewer units to take.
LEMMA Fronts ==
    ASSUME NEW l, NEW r, Len(l) \in Nat, Len(r) \in Nat
    PROVE  /\ Ranks(MergeRank(l, r), MergeFronts(l, r), Len(l) + Len(r))
           /\ \A p \in MergeFronts(l, r) :
                  /\ p[1] \in 1..(Len(l) + 1) /\ p[2] \in 1..(Len(r) + 1) /\ p = <<p[1], p[2]>>
                  /\ p[1] <= Len(l) =>
                         /\ <<p[1] + 1, p[2]>> \in MergeFronts(l, r)
                         /\ MergeRank(l, r)[<<p[1] + 1, p[2]>>] < MergeRank(l, r)[p]
                  /\ p[2] <= Len(r) =>
                         /\ <<p[1], p[2] + 1>> \in MergeFronts(l, r)
                         /\ MergeRank(l, r)[<<p[1], p[2] + 1>>] < MergeRank(l, r)[p]
<1> DEFINE D == MergeFronts(l, r)
           rank(p) == Len(l) + 1 - p[1] + Len(r) + 1 - p[2]
<1>1. \A p \in D : p[1] \in 1..(Len(l) + 1) /\ p[2] \in 1..(Len(r) + 1) /\ p = <<p[1], p[2]>>
    BY DEF MergeFronts
<1>2. \A p \in D : rank(p) \in 0..(Len(l) + Len(r))
    BY <1>1, SMTT(60)
<1>3. MergeRank(l, r) = [p \in D |-> rank(p)]
    BY DEF MergeRank
<1>4. Ranks(MergeRank(l, r), D, Len(l) + Len(r))
    <2> HIDE DEF rank, D
    <2> QED
        BY <1>2, <1>3 DEF Ranks
<1>5. ASSUME NEW p \in D, p[1] <= Len(l)
      PROVE  <<p[1] + 1, p[2]>> \in D /\ MergeRank(l, r)[<<p[1] + 1, p[2]>>] < MergeRank(l, r)[p]
    <2>1. p[1] + 1 \in 1..(Len(l) + 1)
        BY <1>1, <1>5
    <2>2. <<p[1] + 1, p[2]>> \in D
        BY <1>1, <2>1 DEF MergeFronts
    <2>3. rank(<<p[1] + 1, p[2]>>) < rank(p)
        BY <1>1, SMTT(60)
    <2> QED
        BY <2>2, <2>3, <1>3
<1>6. ASSUME NEW p \in D, p[2] <= Len(r)
      PROVE  <<p[1], p[2] + 1>> \in D /\ MergeRank(l, r)[<<p[1], p[2] + 1>>] < MergeRank(l, r)[p]
    <2>1. p[2] + 1 \in 1..(Len(r) + 1)
        BY <1>1, <1>6
    <2>2. <<p[1], p[2] + 1>> \in D
        BY <1>1, <2>1 DEF MergeFronts
    <2>3. rank(<<p[1], p[2] + 1>>) < rank(p)
        BY <1>1, SMTT(60)
    <2> QED
        BY <2>2, <2>3, <1>3
<1> QED
    BY <1>1, <1>4, <1>5, <1>6

\* A step of a merge gives a sequence of units if the rest does.
LEMMA MergeStepType ==
    ASSUME NEW l \in Seq(Unit), NEW r \in Seq(Unit), NEW p \in MergeFronts(l, r), NEW f,
           p[1] <= Len(l) => f[<<p[1] + 1, p[2]>>] \in Seq(Unit),
           p[2] <= Len(r) => f[<<p[1], p[2] + 1>>] \in Seq(Unit)
    PROVE  MergeStep(l, r, f, p) \in Seq(Unit)
<1>1. Len(l) \in Nat /\ Len(r) \in Nat
    BY LenProperties
<1>2. p[1] \in 1..(Len(l) + 1) /\ p[2] \in 1..(Len(r) + 1)
    BY DEF MergeFronts
<1>8. /\ p[1] \in Int /\ p[2] \in Int /\ Len(l) \in Int /\ Len(r) \in Int
      /\ \A k \in p[1]..Len(l) : l[k] \in Unit
      /\ \A k \in p[2]..Len(r) : r[k] \in Unit
      /\ p[2] > Len(r) \/ p[2] <= Len(r)
      /\ p[1] > Len(l) \/ p[1] <= Len(l)
      /\ p[1] <= Len(l) => l[p[1]] \in Unit
      /\ p[2] <= Len(r) => r[p[2]] \in Unit
    <2>2. (\A k \in 1..Len(l) : l[k] \in Unit) /\ (\A k \in 1..Len(r) : r[k] \in Unit)
        BY ElementOfSeq
    <2> QED
        BY <1>1, <1>2, <2>2, SMTT(60)
<1>3. MergeStep(l, r, f, p) \in Seq(Unit)
    <2>1. CASE p[2] > Len(r)
        <3>1. MergeStep(l, r, f, p) = SubSeq(l, p[1], Len(l))
            BY <2>1 DEF MergeStep
        <3>2. SubSeq(l, p[1], Len(l)) \in Seq(Unit)
            BY <1>8, SubSeqProperties
        <3> QED
            BY <3>1, <3>2
    <2>2. CASE ~ (p[2] > Len(r)) /\ p[1] > Len(l)
        <3>1. MergeStep(l, r, f, p) = SubSeq(r, p[2], Len(r))
            BY <2>2 DEF MergeStep
        <3>2. SubSeq(r, p[2], Len(r)) \in Seq(Unit)
            BY <1>8, SubSeqProperties
        <3> QED
            BY <3>1, <3>2
    <2>3. CASE ~ (p[2] > Len(r)) /\ ~ (p[1] > Len(l))
        <3>1. MergeStep(l, r, f, p) \in {<<l[p[1]]>> \o f[<<p[1] + 1, p[2]>>], <<r[p[2]]>> \o f[<<p[1], p[2] + 1>>]}
            BY <2>3 DEF MergeStep
        <3>2. p[1] <= Len(l) /\ p[2] <= Len(r)
            BY <1>8, <2>3, Zenon
        <3>3. l[p[1]] \in Unit /\ r[p[2]] \in Unit
            BY <3>2, <1>8, Zenon
        <3>4. f[<<p[1] + 1, p[2]>>] \in Seq(Unit) /\ f[<<p[1], p[2] + 1>>] \in Seq(Unit)
            BY <3>2
        <3>5. <<l[p[1]]>> \o f[<<p[1] + 1, p[2]>>] \in Seq(Unit) /\ <<r[p[2]]>> \o f[<<p[1], p[2] + 1>>] \in Seq(Unit)
            BY <3>3, <3>4, Prepended
        <3> QED
            BY <3>1, <3>5
    <2> QED
        BY <2>1, <2>2, <2>3
<1> QED
    BY <1>3

\* The merge ends: its recursive function exists.
LEMMA MergesSome ==
    ASSUME NEW l \in Seq(Unit), NEW r \in Seq(Unit)
    PROVE  \E f : Merges(l, r, f)
<1> DEFINE D == MergeFronts(l, r)
           X == Seq(Unit)
           G == [q \in D \X [D -> X] |-> MergeStep(l, r, q[2], q[1])]
           rank == MergeRank(l, r)
<1>1. Len(l) \in Nat /\ Len(r) \in Nat
    BY LenProperties
<1>2. \A p \in D :
          /\ p[1] \in 1..(Len(l) + 1) /\ p[2] \in 1..(Len(r) + 1)
          /\ p[1] <= Len(l) => <<p[1] + 1, p[2]>> \in D /\ rank[<<p[1] + 1, p[2]>>] < rank[p]
          /\ p[2] <= Len(r) => <<p[1], p[2] + 1>> \in D /\ rank[<<p[1], p[2] + 1>>] < rank[p]
    BY <1>1, Fronts
<1> HIDE DEF D, X, rank, G
<1>3. ASSUME NEW p \in D, NEW f \in [D -> X] PROVE MergeStep(l, r, f, p) \in X
    <2>1. /\ p[1] <= Len(l) => f[<<p[1] + 1, p[2]>>] \in X
          /\ p[2] <= Len(r) => f[<<p[1], p[2] + 1>>] \in X
        BY <1>2
    <2> QED
        BY <2>1, MergeStepType DEF X, D
<1>5. ASSUME NEW p \in D PROVE (p[2] > Len(r) \/ p[2] <= Len(r)) /\ (p[1] > Len(l) \/ p[1] <= Len(l))
    <2>1. p[1] \in 1..(Len(l) + 1) /\ p[2] \in 1..(Len(r) + 1)
        BY <1>2
    <2> QED
        BY <1>1, <2>1
<1>4. ASSUME NEW p \in D, NEW f \in [D -> X], NEW g \in [D -> X],
             \A e \in D : rank[e] < rank[p] => f[e] = g[e]
      PROVE  MergeStep(l, r, f, p) = MergeStep(l, r, g, p)
    <2>1. CASE p[2] > Len(r) \/ p[1] > Len(l)
        BY <2>1 DEF MergeStep
    <2>2. CASE ~ (p[2] > Len(r) \/ p[1] > Len(l))
        <3>1. p[1] <= Len(l) /\ p[2] <= Len(r)
            BY <1>5, <2>2, Zenon
        <3>2. f[<<p[1] + 1, p[2]>>] = g[<<p[1] + 1, p[2]>>] /\ f[<<p[1], p[2] + 1>>] = g[<<p[1], p[2] + 1>>]
            BY <1>2, <1>4, <3>1
        <3> QED
            BY <3>2 DEF MergeStep
    <2> QED
        BY <2>1, <2>2
<1>9. Descends(G, D, X, rank)
    <2>1. G \in [D \X [D -> X] -> X]
        BY <1>3 DEF G
    <2>2. \A p \in D : \A f \in [D -> X] : G[<<p, f>>] = MergeStep(l, r, f, p)
        BY DEF G
    <2>3. ASSUME NEW p \in D, NEW f \in [D -> X], NEW g \in [D -> X],
                 \A e \in D : rank[e] < rank[p] => f[e] = g[e]
          PROVE  G[<<p, f>>] = G[<<p, g>>]
        BY <2>2, <2>3, <1>4
    <2> QED
        BY <2>1, <2>3 DEF Descends
<1>6. PICK f : Solves(f, G, D, X)
    <2>1. << >> \in X
        BY EmptySeq DEF X
    <2> DEFINE N == Len(l) + Len(r)
    <2>2. N \in Nat
        BY <1>1
    <2>3. Ranks(rank, D, N)
        BY <1>1, Fronts DEF D, rank
    <2> HIDE DEF N
    <2> QED
        BY <1>9, <2>1, <2>2, <2>3, Recursion
<1>7. f = [p \in D |-> MergeStep(l, r, f, p)]
    <2>1. f \in [D -> X] /\ \A p \in D : f[p] = G[<<p, f>>]
        BY <1>6 DEF Solves
    <2>2. \A p \in D : G[<<p, f>>] = MergeStep(l, r, f, p)
        BY <2>1 DEF G
    <2>3. f = [p \in D |-> f[p]]
        BY <2>1
    <2> QED
        BY <2>1, <2>2, <2>3
<1> QED
    BY <1>7 DEF Merges, D

\* A merge of units gives units, in whatever order they come.
LEMMA MergeType ==
    ASSUME NEW l \in Seq(Unit), NEW r \in Seq(Unit)
    PROVE  Merge(l, r) \in Seq(Unit)
<1> DEFINE D == MergeFronts(l, r)
           rank == MergeRank(l, r)
           N == Len(l) + Len(r)
<1>1. Len(l) \in Nat /\ Len(r) \in Nat
    BY LenProperties
<1>2. Merge(l, r) = (CHOOSE f : Merges(l, r, f))[<<1, 1>>]
    BY DEF Merge, Merges, MergeStep, MergeFronts
<1>3. PICK f : Merges(l, r, f) /\ Merge(l, r) = f[<<1, 1>>]
    BY <1>2, MergesSome
<1>4. /\ N \in Nat /\ Ranks(rank, D, N)
      /\ \A p \in D :
             /\ p[1] <= Len(l) => <<p[1] + 1, p[2]>> \in D /\ rank[<<p[1] + 1, p[2]>>] < rank[p]
             /\ p[2] <= Len(r) => <<p[1], p[2] + 1>> \in D /\ rank[<<p[1], p[2] + 1>>] < rank[p]
    BY <1>1, Fronts
<1>5. \A p \in D : f[p] = MergeStep(l, r, f, p)
    BY <1>3 DEF Merges
<1>6. <<1, 1>> \in D
    BY <1>1 DEF MergeFronts
<1> DEFINE S == {p \in D : f[p] \in Seq(Unit)}
<1>7. ASSUME NEW p \in D, \A e \in D : rank[e] < rank[p] => e \in S PROVE p \in S
    <2>1. /\ p[1] <= Len(l) => f[<<p[1] + 1, p[2]>>] \in Seq(Unit)
          /\ p[2] <= Len(r) => f[<<p[1], p[2] + 1>>] \in Seq(Unit)
        <3> HIDE DEF rank, D
        <3> QED BY <1>4, <1>7
    <2> QED
        BY <2>1, <1>5, MergeStepType, ZenonT(60)
<1> HIDE DEF D, rank, N, S
<1>8. Inherited(S, D, rank)
    BY <1>7 DEF Inherited
<1>9. D \subseteq S
    BY <1>4, <1>8, Downward
<1> QED
    BY <1>3, <1>6, <1>9 DEF S

\* Two runs of different cells are merged into one run of all their units.
LEMMA MergeRun ==
    ASSUME NEW l, Run(l), NEW r, Run(r), Apart(l, r)
    PROVE  /\ Run(Merge(l, r))
           /\ Len(Merge(l, r)) = Len(l) + Len(r)
           /\ From(Merge(l, r), 1) = From(l, 1) \union From(r, 1)
<1> DEFINE D == MergeFronts(l, r)
           rank == MergeRank(l, r)
<1>1. l \in Seq(Unit) /\ r \in Seq(Unit) /\ Len(l) \in Nat /\ Len(r) \in Nat
    BY LenProperties DEF Run
<1>2. Merge(l, r) = (CHOOSE f : Merges(l, r, f))[<<1, 1>>]
    BY DEF Merge, Merges, MergeStep, MergeFronts
<1>3. PICK f : Merges(l, r, f) /\ Merge(l, r) = f[<<1, 1>>]
    BY <1>1, <1>2, MergesSome
<1>4. \A p \in D :
          /\ p[1] \in 1..(Len(l) + 1) /\ p[2] \in 1..(Len(r) + 1)
          /\ p[1] <= Len(l) => <<p[1] + 1, p[2]>> \in D /\ rank[<<p[1] + 1, p[2]>>] < rank[p]
          /\ p[2] <= Len(r) => <<p[1], p[2] + 1>> \in D /\ rank[<<p[1], p[2] + 1>>] < rank[p]
    BY <1>1, Fronts
<1> HIDE DEF D, rank
<1> DEFINE Right(w, i, j) ==
               /\ Run(w)
               /\ Len(w) = Len(l) + 1 - i + Len(r) + 1 - j
               /\ From(w, 1) = From(l, i) \union From(r, j)
           S == {p \in D : Right(f[p], p[1], p[2])}
<1>5. ASSUME NEW p \in D, \A q \in D : rank[q] < rank[p] => q \in S PROVE p \in S
    <2> DEFINE i == p[1]
               j == p[2]
    <2> SUFFICES Right(f[p], i, j)
        OBVIOUS
    <2>1. f[p] = MergeStep(l, r, f, p)
        BY <1>3 DEF Merges, D
    <2>2. i \in 1..(Len(l) + 1) /\ j \in 1..(Len(r) + 1)
        BY <1>4
    <2>3. CASE j > Len(r)
        <3>1. f[p] = SubSeq(l, i, Len(l))
            BY <2>1, <2>3 DEF MergeStep
        <3>2. From(r, j) = {} /\ j = Len(r) + 1
            BY <1>1, <2>2, <2>3 DEF From
        <3>3. Run(f[p]) /\ Len(f[p]) = Len(l) + 1 - i /\ From(f[p], 1) = From(l, i)
            BY <3>1, <2>2, SuffixRun
        <3> HIDE DEF i, j
        <3> QED
            BY <3>2, <3>3, <1>1, <2>2
    <2>4. CASE ~ (j > Len(r)) /\ i > Len(l)
        <3>1. f[p] = SubSeq(r, j, Len(r))
            BY <2>1, <2>4 DEF MergeStep
        <3>2. From(l, i) = {} /\ i = Len(l) + 1
            BY <1>1, <2>2, <2>4 DEF From
        <3>3. Run(f[p]) /\ Len(f[p]) = Len(r) + 1 - j /\ From(f[p], 1) = From(r, j)
            BY <3>1, <2>2, SuffixRun
        <3> HIDE DEF i, j
        <3> QED
            BY <3>2, <3>3, <1>1, <2>2
    <2>5. CASE ~ (j > Len(r)) /\ ~ (i > Len(l))
        <3>1. i \in 1..Len(l) /\ j \in 1..Len(r) /\ i <= Len(l) /\ j <= Len(r)
            BY <1>1, <2>2, <2>5
        <3>2. l[i] \in Unit /\ r[j] \in Unit
            BY <3>1, <1>1, ElementOfSeq
        <3>3. l[i][1] \in Int /\ r[j][1] \in Int
            BY <3>2 DEF Unit
        <3>4. From(l, i) = From(l, i + 1) \union {l[i]} /\ From(r, j) = From(r, j + 1) \union {r[j]}
            <4>1. i..Len(l) = ((i + 1)..Len(l)) \union {i} /\ j..Len(r) = ((j + 1)..Len(r)) \union {j}
                BY <3>1, <1>1
            <4> QED
                BY <4>1 DEF From
        <3>5. \A y \in From(l, i + 1) : l[i][1] <= y[1] /\ l[i][2] # y[2]
            <4>1. \A a \in (i + 1)..Len(l) : a \in 1..Len(l) /\ i < a
                BY <3>1, <1>1
            <4> QED
                BY <4>1, <3>1 DEF From, Run
        <3>6. \A y \in From(r, j + 1) : r[j][1] <= y[1] /\ r[j][2] # y[2]
            <4>1. \A a \in (j + 1)..Len(r) : a \in 1..Len(r) /\ j < a
                BY <3>1, <1>1
            <4> QED
                BY <4>1, <3>1 DEF From, Run
        <3>7. (\A y \in From(r, j) : y[1] \in Int /\ l[i][2] # y[2]) /\ (\A y \in From(l, i) : y[1] \in Int /\ r[j][2] # y[2])
            <4>1. (\A a \in j..Len(r) : a \in 1..Len(r)) /\ (\A a \in i..Len(l) : a \in 1..Len(l))
                BY <3>1, <1>1
            <4>2. (\A a \in 1..Len(r) : r[a] \in Unit) /\ (\A a \in 1..Len(l) : l[a] \in Unit)
                BY <1>1, ElementOfSeq
            <4>3. (\A a \in 1..Len(r) : r[a][1] \in Int) /\ (\A a \in 1..Len(l) : l[a][1] \in Int)
                BY <4>2 DEF Unit
            <4> QED
                BY <3>1, <4>1, <4>3 DEF Apart, From
        <3>8. CASE l[i][1] <= r[j][1]
            <4> DEFINE q == <<i + 1, j>>
            <4>1. q \in D /\ rank[q] < rank[p] /\ q[1] = i + 1 /\ q[2] = j
                BY <1>4, <3>1
            <4>2. Right(f[q], i + 1, j)
                BY <4>1, <1>5
            <4>3. f[p] = <<l[i]>> \o f[q]
                BY <2>1, <2>5, <3>8 DEF MergeStep
            <4> HIDE DEF i, j, q
            <4>4. ASSUME NEW y \in From(f[q], 1) PROVE l[i][1] <= y[1] /\ l[i][2] # y[2]
                <5>1. y \in From(l, i + 1) \/ (y \in From(r, j) /\ (y \in From(r, j + 1) \/ y = r[j]))
                    BY <4>2, <3>4
                <5>2. y \in From(r, j + 1) => y[1] \in Int /\ r[j][1] <= y[1]
                    BY <3>4, <3>6, <3>7
                <5>3. y \in From(r, j + 1) => l[i][1] <= y[1]
                    BY <5>2, <3>3, <3>8
                <5> QED
                    BY <5>1, <5>3, <3>5, <3>7, <3>8
            <4>5. Run(f[p]) /\ Len(f[p]) = Len(f[q]) + 1 /\ From(f[p], 1) = From(f[q], 1) \union {l[i]}
                <5>1. Run(f[q])
                    BY <4>2
                <5> HIDE DEF Right
                <5> QED
                    BY <5>1, <4>3, <4>4, <3>2, PrependRun
            <4>6. Len(f[p]) = Len(l) + 1 - i + Len(r) + 1 - j
                BY <4>5, <4>2, <3>1, <1>1
            <4> QED
                BY <4>5, <4>6, <4>2, <3>4
        <3>9. CASE ~ (l[i][1] <= r[j][1])
            <4> DEFINE q == <<i, j + 1>>
            <4>1. q \in D /\ rank[q] < rank[p] /\ q[1] = i /\ q[2] = j + 1
                BY <1>4, <3>1
            <4>2. Right(f[q], i, j + 1)
                BY <4>1, <1>5
            <4>3. f[p] = <<r[j]>> \o f[q]
                BY <2>1, <2>5, <3>9 DEF MergeStep
            <4> HIDE DEF i, j, q
            <4>4. ASSUME NEW y \in From(f[q], 1) PROVE r[j][1] <= y[1] /\ r[j][2] # y[2]
                <5>1. y \in From(r, j + 1) \/ (y \in From(l, i) /\ (y \in From(l, i + 1) \/ y = l[i]))
                    BY <4>2, <3>4
                <5>2. y \in From(l, i + 1) => y[1] \in Int /\ l[i][1] <= y[1]
                    BY <3>4, <3>5, <3>7
                <5>3. y \in From(l, i + 1) => r[j][1] <= y[1]
                    BY <5>2, <3>3, <3>9
                <5>4. r[j][1] <= l[i][1]
                    BY <3>3, <3>9
                <5> QED
                    BY <5>1, <5>3, <5>4, <3>6, <3>7
            <4>5. Run(f[p]) /\ Len(f[p]) = Len(f[q]) + 1 /\ From(f[p], 1) = From(f[q], 1) \union {r[j]}
                <5>1. Run(f[q])
                    BY <4>2
                <5> HIDE DEF Right
                <5> QED
                    BY <5>1, <4>3, <4>4, <3>2, PrependRun
            <4>6. Len(f[p]) = Len(l) + 1 - i + Len(r) + 1 - j
                BY <4>5, <4>2, <3>1, <1>1
            <4> QED
                BY <4>5, <4>6, <4>2, <3>4
        <3> QED
            BY <3>8, <3>9
    <2> QED
        BY <2>3, <2>4, <2>5
<1>6. D \subseteq S
    <2> DEFINE N == Len(l) + Len(r)
    <2>1. N \in Nat
        BY <1>1
    <2>2. Ranks(rank, D, N)
        BY <1>1, Fronts DEF D, rank
    <2>3. Inherited(S, D, rank)
        <3> HIDE DEF S
        <3> QED BY <1>5 DEF Inherited
    <2> HIDE DEF S, N
    <2> QED
        BY <2>1, <2>2, <2>3, Downward
<1>7. <<1, 1>> \in D
    BY <1>1 DEF MergeFronts, D
<1>8. Right(f[<<1, 1>>], 1, 1)
    BY <1>6, <1>7
<1>9. Len(l) + 1 - 1 + Len(r) + 1 - 1 = Len(l) + Len(r)
    BY <1>1
<1> QED
    BY <1>3, <1>8, <1>9

-------------------------------------------------------------------------------
(* Sorting *)

\* One call of sort_data, given the function f of the others.
SortStep(data, f, p) ==
    LET s == p[1]
        e == p[2]
        mid == s + (e - s) \div 2
    IN  IF s >= e THEN <<<<data[s], s>>>>
        ELSE Merge(f[<<s, mid>>], f[<<mid + 1, e>>])
\* f is the recursive function of SortUnits.
Sorts(data, n, f) == f = [p \in Cells(n) \X Cells(n) |-> SortStep(data, f, p)]
\* The cells that a call still has to halve.
SortRank(n) == [p \in Cells(n) \X Cells(n) |-> IF p[1] < p[2] THEN p[2] - p[1] ELSE 0]

\* The two halves of a range of cells are smaller ranges.
LEMMA SortHalves ==
    ASSUME NEW n \in Nat
    PROVE  /\ Ranks(SortRank(n), Cells(n) \X Cells(n), n)
           /\ \A p \in Cells(n) \X Cells(n) :
                  LET mid == p[1] + (p[2] - p[1]) \div 2
                  IN  /\ p[1] \in Cells(n) /\ p[2] \in Cells(n)
                      /\ p[1] < p[2] =>
                             /\ mid \in Int /\ p[1] <= mid /\ mid < p[2]
                             /\ <<p[1], mid>> \in Cells(n) \X Cells(n)
                             /\ SortRank(n)[<<p[1], mid>>] < SortRank(n)[p]
                             /\ <<mid + 1, p[2]>> \in Cells(n) \X Cells(n)
                             /\ SortRank(n)[<<mid + 1, p[2]>>] < SortRank(n)[p]
<1> DEFINE D == Cells(n) \X Cells(n)
           rank(p) == IF p[1] < p[2] THEN p[2] - p[1] ELSE 0
<1>1. \A p \in D : p[1] \in Cells(n) /\ p[2] \in Cells(n) /\ p = <<p[1], p[2]>>
    OBVIOUS
<1>2. \A p \in D : rank(p) \in 0..n
    BY <1>1 DEF Cells
<1>3. SortRank(n) = [p \in D |-> rank(p)]
    BY DEF SortRank
<1>4. Ranks(SortRank(n), D, n)
    <2> HIDE DEF rank, D
    <2> QED
        BY <1>2, <1>3 DEF Ranks
<1>5. ASSUME NEW p \in D, p[1] < p[2]
      PROVE  LET mid == p[1] + (p[2] - p[1]) \div 2
             IN  /\ mid \in Int /\ p[1] <= mid /\ mid < p[2]
                 /\ <<p[1], mid>> \in D /\ SortRank(n)[<<p[1], mid>>] < SortRank(n)[p]
                 /\ <<mid + 1, p[2]>> \in D /\ SortRank(n)[<<mid + 1, p[2]>>] < SortRank(n)[p]
    <2> DEFINE mid == p[1] + (p[2] - p[1]) \div 2
    <2>1. p[1] \in 0..(n - 1) /\ p[2] \in 0..(n - 1)
        BY <1>1 DEF Cells
    <2>2. mid \in Int /\ p[1] <= mid /\ mid < p[2]
        BY <1>5, <2>1, Halves
    <2> HIDE DEF mid
    <2>3. mid \in Cells(n) /\ mid + 1 \in Cells(n)
        BY <2>1, <2>2 DEF Cells
    <2>4. <<p[1], mid>> \in D /\ <<mid + 1, p[2]>> \in D
        BY <1>1, <2>3
    <2>5. rank(<<p[1], mid>>) < rank(p) /\ rank(<<mid + 1, p[2]>>) < rank(p)
        BY <2>1, <2>2, <1>5
    <2> QED
        BY <2>2, <2>4, <2>5, <1>3 DEF mid
<1> QED
    BY <1>1, <1>4, <1>5

\* One cell is a sorted run.
LEMMA OneUnit ==
    ASSUME NEW data, NEW n, data \in [Cells(n) -> Int], n \in Nat, NEW s \in Cells(n)
    PROVE  LET u == <<<<data[s], s>>>>
           IN  Run(u) /\ Len(u) = 1 /\ From(u, 1) = {<<data[s], s>>}
<1> DEFINE x == <<data[s], s>>
<1>1. x \in Unit
    BY DEF Unit, Cells
<1> HIDE DEF x
<1>2. <<x>> \in Seq(Unit) /\ Len(<<x>>) = 1 /\ <<x>>[1] = x
    BY <1>1
<1>3. 1..1 = {1}
    OBVIOUS
<1> QED
    BY <1>2, <1>3 DEF Run, From, x

\* The sort ends: its recursive function exists.
LEMMA SortsSome ==
    ASSUME NEW n \in Nat, NEW data \in [Cells(n) -> Int]
    PROVE  \E f : Sorts(data, n, f)
<1> DEFINE D == Cells(n) \X Cells(n)
           X == Seq(Unit)
           G == [q \in D \X [D -> X] |-> SortStep(data, q[2], q[1])]
           rank == SortRank(n)
           mid(p) == p[1] + (p[2] - p[1]) \div 2
<1>1. Ranks(rank, D, n)
    BY SortHalves
<1>2. ASSUME NEW p \in D
      PROVE  /\ p[1] \in Cells(n) /\ p[2] \in Cells(n)
             /\ p[1] >= p[2] \/ p[1] < p[2]
             /\ p[1] < p[2] => /\ <<p[1], mid(p)>> \in D /\ rank[<<p[1], mid(p)>>] < rank[p]
                               /\ <<mid(p) + 1, p[2]>> \in D /\ rank[<<mid(p) + 1, p[2]>>] < rank[p]
    <2>1. p[1] >= p[2] \/ p[1] < p[2]
        BY DEF Cells
    <2> QED
        BY <2>1, SortHalves
<1>3. ASSUME NEW p, NEW f PROVE SortStep(data, f, p) = IF p[1] >= p[2] THEN <<<<data[p[1]], p[1]>>>>
                                                       ELSE Merge(f[<<p[1], mid(p)>>], f[<<mid(p) + 1, p[2]>>])
    BY DEF SortStep
<1> HIDE DEF D, X, rank, mid, G
<1>4. ASSUME NEW p \in D, NEW f \in [D -> X] PROVE SortStep(data, f, p) \in X
    <2>1. <<<<data[p[1]], p[1]>>>> \in X
        BY <1>2, OneUnit DEF X, Run
    <2>2. p[1] < p[2] => f[<<p[1], mid(p)>>] \in X /\ f[<<mid(p) + 1, p[2]>>] \in X
        BY <1>2
    <2>3. p[1] < p[2] => Merge(f[<<p[1], mid(p)>>], f[<<mid(p) + 1, p[2]>>]) \in X
        BY <2>2, MergeType DEF X
    <2> QED
        BY <2>1, <2>3, <1>2, <1>3
<1>5. ASSUME NEW p \in D, NEW f \in [D -> X], NEW g \in [D -> X],
             \A e \in D : rank[e] < rank[p] => f[e] = g[e]
      PROVE  SortStep(data, f, p) = SortStep(data, g, p)
    <2>1. p[1] < p[2] => /\ f[<<p[1], mid(p)>>] = g[<<p[1], mid(p)>>]
                         /\ f[<<mid(p) + 1, p[2]>>] = g[<<mid(p) + 1, p[2]>>]
        BY <1>2, <1>5
    <2> QED
        BY <2>1, <1>2, <1>3
<1>6. Descends(G, D, X, rank)
    <2>1. G \in [D \X [D -> X] -> X]
        BY <1>4 DEF G
    <2>2. \A p \in D : \A f \in [D -> X] : G[<<p, f>>] = SortStep(data, f, p)
        BY DEF G
    <2>3. ASSUME NEW p \in D, NEW f \in [D -> X], NEW g \in [D -> X],
                 \A e \in D : rank[e] < rank[p] => f[e] = g[e]
          PROVE  G[<<p, f>>] = G[<<p, g>>]
        BY <2>2, <2>3, <1>5
    <2> QED
        BY <2>1, <2>3 DEF Descends
<1>7. PICK f : Solves(f, G, D, X)
    <2>1. << >> \in X
        BY EmptySeq DEF X
    <2> QED
        BY <1>1, <1>6, <2>1, Recursion
<1>8. f = [p \in D |-> SortStep(data, f, p)]
    <2>1. f \in [D -> X] /\ \A p \in D : f[p] = G[<<p, f>>]
        BY <1>7 DEF Solves
    <2>2. \A p \in D : G[<<p, f>>] = SortStep(data, f, p)
        BY <2>1 DEF G
    <2>3. f = [p \in D |-> f[p]]
        BY <2>1
    <2> QED
        BY <2>1, <2>2, <2>3
<1> QED
    BY <1>8 DEF Sorts, D

\* sort_data gives the cells of an array with their values, each once and in
\* order.
THEOREM SortedRun ==
    ASSUME NEW n \in Nat, n # 0, NEW data \in [Cells(n) -> Int]
    PROVE  LET u == SortUnits(data, n)
           IN  Run(u) /\ Len(u) = n /\ From(u, 1) = {<<data[i], i>> : i \in Cells(n)}
<1> DEFINE D == Cells(n) \X Cells(n)
           rank == SortRank(n)
           mid(p) == p[1] + (p[2] - p[1]) \div 2
           Units(s, e) == {<<data[i], i>> : i \in s..e}
           Right(u, s, e) == Run(u) /\ Len(u) = e - s + 1 /\ From(u, 1) = Units(s, e)
<1>1. SortUnits(data, n) = (CHOOSE f : Sorts(data, n, f))[<<0, n - 1>>]
    BY DEF SortUnits, Sorts, SortStep
<1>2. PICK f : Sorts(data, n, f) /\ SortUnits(data, n) = f[<<0, n - 1>>]
    BY <1>1, SortsSome
<1> DEFINE S == {p \in D : p[1] <= p[2] => Right(f[p], p[1], p[2])}
<1>3. ASSUME NEW p \in D, \A q \in D : rank[q] < rank[p] => q \in S PROVE p \in S
    <2> DEFINE s == p[1]
               e == p[2]
               m == mid(p)
    <2> SUFFICES ASSUME s <= e PROVE Right(f[p], s, e)
        OBVIOUS
    <2>1. f[p] = IF s >= e THEN <<<<data[s], s>>>> ELSE Merge(f[<<s, m>>], f[<<m + 1, e>>])
        BY <1>2 DEF Sorts, SortStep
    <2>2. s \in Cells(n) /\ e \in Cells(n) /\ s \in Int /\ e \in Int
        BY DEF Cells
    <2>3. CASE s >= e
        <3>1. s = e /\ f[p] = <<<<data[s], s>>>>
            BY <2>1, <2>2, <2>3
        <3>2. Run(f[p]) /\ Len(f[p]) = 1 /\ From(f[p], 1) = {<<data[s], s>>}
            BY <2>2, <3>1, OneUnit
        <3> HIDE DEF s, e
        <3>3. s..e = {s} /\ e - s + 1 = 1
            BY <3>1, <2>2
        <3> QED
            BY <3>2, <3>3
    <2>4. CASE ~ (s >= e)
        <3>1. s < e
            BY <2>2, <2>4
        <3>2. /\ m \in Int /\ s <= m /\ m < e
              /\ <<s, m>> \in D /\ rank[<<s, m>>] < rank[p]
              /\ <<m + 1, e>> \in D /\ rank[<<m + 1, e>>] < rank[p]
            BY <3>1, SortHalves
        <3> HIDE DEF m, rank, D
        <3>3. <<s, m>> \in S /\ <<m + 1, e>> \in S
            BY <3>2, <1>3
        <3>4. m + 1 <= e
            BY <3>2, <2>2
        <3>5. Right(f[<<s, m>>], s, m) /\ Right(f[<<m + 1, e>>], m + 1, e)
            BY <3>2, <3>3, <3>4
        <3> DEFINE l == f[<<s, m>>]
                   r == f[<<m + 1, e>>]
        <3>6. f[p] = Merge(l, r)
            BY <2>1, <2>4
        <3> HIDE DEF s, e, l, r
        <3>7. Right(l, s, m) /\ Right(r, m + 1, e)
            BY <3>5 DEF l, r
        <3>8. Apart(l, r)
            <4> SUFFICES ASSUME NEW a \in 1..Len(l), NEW b \in 1..Len(r) PROVE l[a][2] # r[b][2]
                BY DEF Apart
            <4>1. l[a] \in Units(s, m) /\ r[b] \in Units(m + 1, e)
                BY <3>7 DEF From
            <4>2. l[a][2] \in s..m /\ r[b][2] \in (m + 1)..e
                BY <4>1, SMTT(60)
            <4> QED
                BY <4>2, <3>2, <2>2, SMTT(60)
        <3>9. Run(f[p]) /\ Len(f[p]) = Len(l) + Len(r) /\ From(f[p], 1) = From(l, 1) \union From(r, 1)
            <4> HIDE DEF Units
            <4> QED BY <3>6, <3>7, <3>8, MergeRun
        <3>10. s..e = (s..m) \union ((m + 1)..e)
            BY <2>2, <3>2
        <3>11. Units(s, e) = Units(s, m) \union Units(m + 1, e)
            BY <3>10
        <3>12. Len(f[p]) = e - s + 1
            <4> HIDE DEF Units
            <4> QED BY <3>7, <3>9, <2>2, <3>2
        <3> HIDE DEF Units
        <3> QED
            BY <3>7, <3>9, <3>11, <3>12
    <2> QED
        BY <2>3, <2>4
<1>4. D \subseteq S
    <2>1. Ranks(rank, D, n)
        BY SortHalves
    <2> HIDE DEF S, D, rank
    <2>2. Inherited(S, D, rank)
        BY <1>3 DEF Inherited
    <2> QED
        BY <2>1, <2>2, Downward
<1>5. <<0, n - 1>> \in D /\ 0 <= n - 1
    BY DEF Cells
<1>6. Right(f[<<0, n - 1>>], 0, n - 1)
    BY <1>4, <1>5
<1>7. (n - 1) - 0 + 1 = n
    OBVIOUS
<1> QED
    BY <1>2, <1>6, <1>7 DEF Cells

-------------------------------------------------------------------------------
(* Lists *)

\* No element comes twice.
Distinct(s) == \A i, j \in 1..Len(s) : s[i] = s[j] => i = j
\* The sequence holds each element of X once and no other.
Lists(s, X) ==
    /\ s \in Seq(X)
    /\ Distinct(s)
    /\ \A x \in X : \E i \in 1..Len(s) : s[i] = x

\* The empty sequence lists the empty set.
LEMMA ListsNothing == Lists(<< >>, {})
<1>1. << >> \in Seq({}) /\ Len(<< >>) = 0
    BY EmptySeq
<1> QED
    BY <1>1 DEF Lists, Distinct

\* An element that is not listed yet may be appended.
LEMMA ListsMore ==
    ASSUME NEW s, NEW X, Lists(s, X), NEW e, e \notin X
    PROVE  Lists(Append(s, e), X \union {e})
<1> DEFINE Y == X \union {e}
           a == Append(s, e)
<1>1. s \in Seq(X) /\ Len(s) \in Nat /\ Distinct(s) /\ \A i \in 1..Len(s) : s[i] \in X
    BY LenProperties, ElementOfSeq DEF Lists
<1>2. s \in Seq(Y)
    BY <1>1
<1>3. /\ a \in Seq(Y) /\ Len(a) = Len(s) + 1
      /\ \A i \in 1..Len(s) : a[i] = s[i]
      /\ a[Len(s) + 1] = e
    BY <1>2, AppendProperties
<1>4. Distinct(a)
    <2> SUFFICES ASSUME NEW i \in 1..Len(a), NEW j \in 1..Len(a), a[i] = a[j] PROVE i = j
        BY DEF Distinct
    <2>1. CASE i \in 1..Len(s) /\ j \in 1..Len(s)
        BY <2>1, <1>1, <1>3 DEF Distinct
    <2>2. CASE i = Len(s) + 1 \/ j = Len(s) + 1
        <3> HIDE DEF a
        <3>1. i \in 1..Len(s) \/ i = Len(s) + 1
            BY <1>1, <1>3
        <3>2. j \in 1..Len(s) \/ j = Len(s) + 1
            BY <1>1, <1>3
        <3>3. \A k \in 1..Len(s) : a[k] # e
            BY <1>1, <1>3
        <3> QED
            BY <2>2, <3>1, <3>2, <3>3, <1>3
    <2> QED
        BY <2>1, <2>2, <1>1, <1>3
<1>5. ASSUME NEW x \in Y PROVE \E i \in 1..Len(a) : a[i] = x
    <2>1. CASE x = e
        BY <2>1, <1>1, <1>3
    <2>2. CASE x \in X
        <3>1. PICK i \in 1..Len(s) : s[i] = x
            BY <2>2 DEF Lists
        <3>2. i \in 1..Len(a) /\ a[i] = x
            BY <3>1, <1>1, <1>3
        <3> QED
            BY <3>2
    <2> QED
        BY <2>1, <2>2
<1> QED
    BY <1>3, <1>4, <1>5 DEF Lists

\* Lists of sets that are disjoint may be appended to each other.
LEMMA ListsBoth ==
    ASSUME NEW s, NEW X, Lists(s, X), NEW u, NEW Y, Lists(u, Y), X \intersect Y = {}
    PROVE  Lists(s \o u, X \union Y)
<1> DEFINE Z == X \union Y
           a == s \o u
<1>1. s \in Seq(X) /\ Len(s) \in Nat /\ Distinct(s) /\ \A i \in 1..Len(s) : s[i] \in X
    BY LenProperties, ElementOfSeq DEF Lists
<1>2. u \in Seq(Y) /\ Len(u) \in Nat /\ Distinct(u) /\ \A i \in 1..Len(u) : u[i] \in Y
    BY LenProperties, ElementOfSeq DEF Lists
<1>3. s \in Seq(Z) /\ u \in Seq(Z)
    BY <1>1, <1>2
<1>4. /\ a \in Seq(Z) /\ Len(a) = Len(s) + Len(u)
      /\ \A i \in 1..(Len(s) + Len(u)) : a[i] = IF i <= Len(s) THEN s[i] ELSE u[i - Len(s)]
    BY <1>3, ConcatProperties
<1> HIDE DEF a
<1>5. \A i \in 1..Len(s) : i \in 1..Len(a) /\ a[i] = s[i] /\ a[i] \in X
    BY <1>1, <1>2, <1>4
<1>6. \A i \in 1..Len(u) : Len(s) + i \in 1..Len(a) /\ a[Len(s) + i] = u[i] /\ a[Len(s) + i] \in Y
    BY <1>1, <1>2, <1>4
<1>7. \A i \in 1..Len(a) : i \in 1..Len(s) \/ \E k \in 1..Len(u) : i = Len(s) + k
    <2> SUFFICES ASSUME NEW i \in 1..Len(a), i \notin 1..Len(s)
                 PROVE  \E k \in 1..Len(u) : i = Len(s) + k
        OBVIOUS
    <2>1. i - Len(s) \in 1..Len(u) /\ i = Len(s) + (i - Len(s))
        BY <1>1, <1>2, <1>4
    <2> QED
        BY <2>1
<1>8. Distinct(a)
    <2> SUFFICES ASSUME NEW i \in 1..Len(a), NEW j \in 1..Len(a), a[i] = a[j] PROVE i = j
        BY DEF Distinct
    <2>1. CASE i \in 1..Len(s) /\ j \in 1..Len(s)
        BY <2>1, <1>1, <1>5 DEF Distinct
    <2>2. CASE i \in 1..Len(s) /\ j \notin 1..Len(s)
        <3>1. PICK k \in 1..Len(u) : j = Len(s) + k
            BY <2>2, <1>7
        <3>2. a[i] \in X /\ a[j] \in Y
            BY <2>2, <3>1, <1>5, <1>6
        <3> QED
            BY <3>2
    <2>3. CASE i \notin 1..Len(s) /\ j \in 1..Len(s)
        <3>1. PICK k \in 1..Len(u) : i = Len(s) + k
            BY <2>3, <1>7
        <3>2. a[j] \in X /\ a[i] \in Y
            BY <2>3, <3>1, <1>5, <1>6
        <3> QED
            BY <3>2
    <2>4. CASE i \notin 1..Len(s) /\ j \notin 1..Len(s)
        <3>1. PICK k \in 1..Len(u) : i = Len(s) + k
            BY <2>4, <1>7
        <3>2. PICK m \in 1..Len(u) : j = Len(s) + m
            BY <2>4, <1>7
        <3>3. u[k] = u[m]
            BY <3>1, <3>2, <1>6
        <3>4. k = m
            BY <3>3, <1>2 DEF Distinct
        <3> QED
            BY <3>1, <3>2, <3>4
    <2> QED
        BY <2>1, <2>2, <2>3, <2>4
<1>9. ASSUME NEW x \in Z PROVE \E i \in 1..Len(a) : a[i] = x
    <2>1. CASE x \in X
        <3>1. PICK i \in 1..Len(s) : s[i] = x
            BY <2>1 DEF Lists
        <3>2. i \in 1..Len(a) /\ a[i] = x
            BY <3>1, <1>5
        <3> QED
            BY <3>2
    <2>2. CASE x \in Y
        <3>1. PICK i \in 1..Len(u) : u[i] = x
            BY <2>2 DEF Lists
        <3>2. Len(s) + i \in 1..Len(a) /\ a[Len(s) + i] = x
            BY <3>1, <1>6
        <3> QED
            BY <3>2
    <2> QED
        BY <2>1, <2>2
<1>10. Lists(a, Z)
    <2> HIDE DEF Z
    <2> QED BY <1>4, <1>8, <1>9 DEF Lists
<1> QED
    BY <1>10 DEF a, Z

\* Intervals that begin at 1 are equal only up to the same number.
LEMMA SameInterval ==
    ASSUME NEW m \in Nat, NEW n \in Nat, 1..m = 1..n
    PROVE  m = n
<1>1. CASE m < n
    <2>1. n \in 1..n /\ n \notin 1..m
        BY <1>1
    <2> QED BY <2>1
<1>2. CASE n < m
    <2>1. m \in 1..m /\ m \notin 1..n
        BY <1>2
    <2> QED BY <2>1
<1> QED
    BY <1>1, <1>2

\* The image of a list under a function that keeps its elements apart.
LEMMA ListsImage ==
    ASSUME NEW s, NEW X, Lists(s, X), NEW f, NEW u, DOMAIN f = X,
           \A x, y \in X : f[x] = f[y] => x = y,
           u = [k \in 1..Len(s) |-> f[s[k]]]
    PROVE  Lists(u, {f[x] : x \in X})
<1> DEFINE Z == {f[x] : x \in X}
<1>1. s \in Seq(X) /\ Len(s) \in Nat /\ Distinct(s) /\ \A i \in 1..Len(s) : s[i] \in X
    BY LenProperties, ElementOfSeq DEF Lists
<1>2. ASSUME NEW k \in 1..Len(s) PROVE f[s[k]] \in Z
    BY <1>1
<1>3. u \in [1..Len(s) -> Z]
    BY <1>2
<1>4. u \in Seq(Z) /\ Len(u) = Len(s)
    <2> HIDE DEF Z
    <2>1. u \in Seq(Z)
        BY <1>1, <1>3, SeqDef
    <2>2. Len(u) \in Nat /\ DOMAIN u = 1..Len(u)
        BY <2>1, LenProperties
    <2>3. DOMAIN u = 1..Len(s)
        BY <1>3
    <2>4. 1..Len(u) = 1..Len(s)
        BY <2>2, <2>3
    <2>5. Len(u) = Len(s)
        BY <2>2, <2>4, <1>1, SameInterval
    <2> QED
        BY <2>1, <2>5
<1>5. Distinct(u)
    <2> SUFFICES ASSUME NEW i \in 1..Len(u), NEW j \in 1..Len(u), u[i] = u[j] PROVE i = j
        BY DEF Distinct
    <2>1. f[s[i]] = f[s[j]] /\ s[i] \in X /\ s[j] \in X
        BY <1>4, <1>1
    <2>2. s[i] = s[j]
        BY <2>1
    <2> QED
        BY <2>2, <1>1, <1>4 DEF Distinct
<1>6. ASSUME NEW z \in Z PROVE \E i \in 1..Len(u) : u[i] = z
    <2>1. PICK x \in X : z = f[x]
        OBVIOUS
    <2>2. PICK i \in 1..Len(s) : s[i] = x
        BY DEF Lists
    <2>3. i \in 1..Len(u) /\ u[i] = z
        BY <2>1, <2>2, <1>4
    <2> QED
        BY <2>3
<1> HIDE DEF Z
<1>7. Lists(u, Z)
    BY <1>4, <1>5, <1>6 DEF Lists
<1> QED
    BY <1>7 DEF Z

\* A list of a set is a sequence over every larger set.
LEMMA ListsTyped ==
    ASSUME NEW s, NEW X, Lists(s, X), NEW T, X \subseteq T
    PROVE  s \in Seq(T)
BY DEF Lists

-------------------------------------------------------------------------------
(* Recursive functions along a sequence *)

\* A step from each element to the next.
Steps(N, n, X) == N \in [(1..n) \X X -> X]
\* f begins with x0 and goes on by the steps N.
Iterates(f, N, n, x0, X) ==
    f \in [0..n -> X] /\ f[0] = x0 /\ \A i \in 1..n : f[i] = N[<<i, f[i - 1]>>]

\* The results of n steps exist.
LEMMA Iteration ==
    ASSUME NEW n \in Nat, NEW X, NEW x0 \in X, NEW N, Steps(N, n, X)
    PROVE  \E f : Iterates(f, N, n, x0, X)
<1> DEFINE D == 0..n
           r == [d \in D |-> d]
           G == [q \in D \X [D -> X] |-> IF q[1] = 0 THEN x0 ELSE N[<<q[1], q[2][q[1] - 1]>>]]
<1>1. Ranks(r, D, n)
    BY DEF Ranks
<1>2. ASSUME NEW d \in D, NEW f \in [D -> X]
      PROVE  /\ G[<<d, f>>] = IF d = 0 THEN x0 ELSE N[<<d, f[d - 1]>>]
             /\ G[<<d, f>>] \in X
             /\ d # 0 => d - 1 \in D /\ d - 1 < d
    <2>1. d # 0 => d - 1 \in D /\ d - 1 < d /\ d \in 1..n
        OBVIOUS
    <2>2. G[<<d, f>>] = IF d = 0 THEN x0 ELSE N[<<d, f[d - 1]>>]
        OBVIOUS
    <2>3. d # 0 => N[<<d, f[d - 1]>>] \in X
        BY <2>1, Zenon DEF Steps
    <2> QED
        BY <2>1, <2>2, <2>3
<1>3. G \in [D \X [D -> X] -> X]
    <2>1. \A q \in D \X [D -> X] : G[q] \in X
        <3> SUFFICES ASSUME NEW q \in D \X [D -> X] PROVE G[q] \in X
            OBVIOUS
        <3>1. q[1] \in D /\ q[2] \in [D -> X] /\ q = <<q[1], q[2]>>
            OBVIOUS
        <3> HIDE DEF G
        <3> QED
            BY <3>1, <1>2, Zenon
    <2> QED
        BY <2>1, Zenon
<1>4. Descends(G, D, X, r)
    <2> SUFFICES ASSUME NEW d \in D, NEW f \in [D -> X], NEW g \in [D -> X],
                        \A e \in D : r[e] < r[d] => f[e] = g[e]
                 PROVE  G[<<d, f>>] = G[<<d, g>>]
        BY <1>3 DEF Descends
    <2>1. d # 0 => f[d - 1] = g[d - 1]
        BY <1>2
    <2> HIDE DEF G
    <2>2. G[<<d, f>>] = IF d = 0 THEN x0 ELSE N[<<d, f[d - 1]>>]
        BY <1>2, Zenon
    <2>3. G[<<d, g>>] = IF d = 0 THEN x0 ELSE N[<<d, g[d - 1]>>]
        BY <1>2, Zenon
    <2> QED
        BY <2>1, <2>2, <2>3, Zenon
<1>5. PICK f : Solves(f, G, D, X)
    <2> HIDE DEF D, G, r
    <2> QED
        BY <1>1, <1>4, Recursion
<1>6. f \in [D -> X] /\ \A d \in D : f[d] = G[<<d, f>>]
    BY <1>5 DEF Solves
<1>7. f[0] = x0
    <2>1. 0 \in D
        OBVIOUS
    <2> HIDE DEF G
    <2> QED
        BY <2>1, <1>6, <1>2, Zenon
<1>8. ASSUME NEW i \in 1..n PROVE f[i] = N[<<i, f[i - 1]>>]
    <2>1. i \in D /\ i # 0
        OBVIOUS
    <2> HIDE DEF G
    <2> QED
        BY <2>1, <1>6, <1>2
<1> QED
    BY <1>6, <1>7, <1>8 DEF Iterates

\* A recursive function up to n from a step.
LEMMA Unfolds ==
    ASSUME NEW n \in Nat, NEW X, NEW x0, NEW N, NEW f, Iterates(f, N, n, x0, X)
    PROVE  f = [i \in 0..n |-> IF i = 0 THEN x0 ELSE N[<<i, f[i - 1]>>]]
<1>1. f \in [0..n -> X] /\ f[0] = x0 /\ \A i \in 1..n : f[i] = N[<<i, f[i - 1]>>]
    BY DEF Iterates
<1>2. ASSUME NEW i \in 0..n PROVE f[i] = IF i = 0 THEN x0 ELSE N[<<i, f[i - 1]>>]
    <2>1. i # 0 => i \in 1..n
        OBVIOUS
    <2> QED
        BY <1>1, <2>1, Zenon
<1>3. f = [i \in 0..n |-> f[i]]
    BY <1>1
<1> QED
    BY <1>2, <1>3, Zenon

\* Numbers lists an interval.
LEMMA NumbersListed ==
    ASSUME NEW from \in Int, NEW to \in Int
    PROVE  /\ Lists(Numbers(from, to), from..to)
           /\ Len(Numbers(from, to)) = IF to < from THEN 0 ELSE to - from + 1
<1> DEFINE m == IF to < from THEN 0 ELSE to - from + 1
           s == [k \in 1..m |-> from + k - 1]
<1>1. m \in Nat
    OBVIOUS
<1>2. ASSUME NEW k \in 1..m PROVE from + k - 1 \in from..to
    BY <1>1
<1>3. s \in [1..m -> from..to]
    BY <1>2
<1>4. s \in Seq(from..to) /\ Len(s) = m
    <2> HIDE DEF m
    <2>1. s \in Seq(from..to)
        BY <1>1, <1>3, SeqDef
    <2>2. Len(s) \in Nat /\ DOMAIN s = 1..Len(s)
        BY <2>1, LenProperties
    <2>3. 1..Len(s) = 1..m
        BY <2>2, <1>3
    <2> QED
        BY <2>1, <2>2, <2>3, <1>1, SameInterval
<1>5. Distinct(s)
    <2> SUFFICES ASSUME NEW i \in 1..m, NEW j \in 1..m, from + i - 1 = from + j - 1 PROVE i = j
        BY <1>4 DEF Distinct
    <2> QED
        BY <1>1
<1>6. ASSUME NEW x \in from..to PROVE \E k \in 1..Len(s) : s[k] = x
    <2>1. x - from + 1 \in 1..m /\ from + (x - from + 1) - 1 = x
        OBVIOUS
    <2>2. s[x - from + 1] = x
        BY <2>1
    <2> QED
        BY <2>1, <2>2, <1>4
<1>7. Lists(s, from..to) /\ Len(s) = m
    BY <1>4, <1>5, <1>6 DEF Lists
<1> QED
    BY <1>7 DEF Numbers

-------------------------------------------------------------------------------
(* Searches of an array in order *)

\* The first n cells of an array, in order.
Ascends(a, n) == a \in [Cells(n) -> Int] /\ \A i, j \in Cells(n) : i <= j => a[i] <= a[j]
\* The values of the cells differ.
Strict(a, n) == \A i, j \in Cells(n) : i < j => a[i] < a[j]

\* binary_search_data over n cells ends with a hit or at a cell that is least or
\* greatest.
LEMMA FindResult ==
    ASSUME NEW n \in Nat, n # 0, NEW a \in [Cells(n) -> Int], NEW key \in Int, NEW op \in Ops,
           NEW behind \in Int
    PROVE  LET p == Find(a, n, key, op, behind)
               keys == WithEnd(a, n, behind)
           IN  \/ \E mid \in Cells(n) :
                      /\ a[mid] <= key /\ (mid = n - 1 \/ key < a[mid + 1])
                      /\ keys[mid] = a[mid]
                      /\ p = Hit(keys, mid, key, op)
               \/ /\ p \in Cells(n)
                  /\ p = 0 \/ a[p] <= key
                  /\ p = n - 1 \/ key <= a[p]
<1> DEFINE keys == WithEnd(a, n, behind)
           p == Find(a, n, key, op, behind)
<1>1. n - 1 \in Nat /\ 0..(n - 1 + 2) = Cells(n + 2) /\ Cells(n) = 0..(n - 1)
    BY DEF Cells
<1>2. Filled(a, n, behind) = a
    <2>1. ASSUME NEW i \in Cells(n) PROVE Cell(a, i, behind) = a[i]
        BY DEF Cell
    <2>2. a = [i \in Cells(n) |-> a[i]]
        OBVIOUS
    <2> QED
        BY <2>1, <2>2, Zenon DEF Filled
<1>3. keys = [i \in Cells(n + 2) |-> IF i \in Cells(n) THEN a[i] ELSE behind]
    <2>1. DOMAIN a = Cells(n)
        OBVIOUS
    <2> QED
        BY <1>2, <2>1, Zenon DEF WithEnd, Filled, Cell
<1>4. keys \in [0..(n - 1 + 2) -> Int]
    <2>1. ASSUME NEW i \in Cells(n + 2) PROVE (IF i \in Cells(n) THEN a[i] ELSE behind) \in Int
        OBVIOUS
    <2> QED
        BY <1>1, <1>3, <2>1
<1>5. ASSUME NEW i \in Cells(n)
      PROVE  keys[i] = a[i] /\ i \in 0..(n - 1) /\ (i # n - 1 => i + 1 \in Cells(n) /\ keys[i + 1] = a[i + 1])
    <2>1. i \in Cells(n + 2) /\ i \in 0..(n - 1) /\ (i # n - 1 => i + 1 \in Cells(n) /\ i + 1 \in Cells(n + 2))
        BY DEF Cells
    <2> QED
        BY <1>3, <2>1, Zenon
<1>6. p = SearchData(keys, n - 1, key, op)
    BY DEF Find
<1> HIDE DEF keys, p
<1>7. \/ \E mid \in 0..(n - 1) :
             keys[mid] <= key /\ key < keys[mid + 1] /\ p = Hit(keys, mid, key, op)
      \/ /\ p \in 0..(n - 1)
         /\ p = 0 \/ keys[p] <= key
         /\ p = n - 1 \/ key <= keys[p]
    BY <1>1, <1>4, <1>6, SearchResult
<1>8. CASE \E mid \in 0..(n - 1) :
             keys[mid] <= key /\ key < keys[mid + 1] /\ p = Hit(keys, mid, key, op)
    <2>1. PICK mid \in 0..(n - 1) :
             keys[mid] <= key /\ key < keys[mid + 1] /\ p = Hit(keys, mid, key, op)
        BY <1>8
    <2>2. /\ mid \in Cells(n) /\ a[mid] <= key /\ (mid = n - 1 \/ key < a[mid + 1])
          /\ keys[mid] = a[mid] /\ p = Hit(keys, mid, key, op)
        BY <2>1, <1>1, <1>5
    <2> QED
        BY <2>2 DEF keys, p
<1>9. CASE /\ p \in 0..(n - 1)
           /\ p = 0 \/ keys[p] <= key
           /\ p = n - 1 \/ key <= keys[p]
    <2>1. p \in Cells(n) /\ (p = 0 \/ a[p] <= key) /\ (p = n - 1 \/ key <= a[p])
        BY <1>9, <1>1, <1>5
    <2> QED
        BY <2>1 DEF p
<1> QED
    BY <1>7, <1>8, <1>9

\* Where the search for a lower bound ends.
LEMMA FindFirst ==
    ASSUME NEW n \in Nat, n # 0, NEW a, Ascends(a, n), NEW key \in Int, NEW behind \in Int
    PROVE  LET p == Find(a, n, key, "GREATER_EQUAL", behind)
           IN  /\ p \in Cells(n)
               /\ p = 0 \/ a[p] <= key
               /\ p = n - 1 \/ key <= a[p] \/ key < a[p + 1]
<1>1. a \in [Cells(n) -> Int]
    BY DEF Ascends
<1>2. "GREATER_EQUAL" \in Ops
    BY DEF Ops
<1>3. \A keys, mid : Hit(keys, mid, key, "GREATER_EQUAL") = mid
    BY DEF Hit
<1> QED
    BY <1>1, <1>2, <1>3, FindResult

\* Where the search of the unclustered index for a lower bound alone ends.
LEMMA FindAbove ==
    ASSUME NEW n \in Nat, n # 0, NEW a, Ascends(a, n), NEW key \in Int, NEW behind \in Int
    PROVE  LET p == Find(a, n, key, "GREATER", behind)
           IN  /\ p \in 0..n
               /\ p = 0 \/ a[p - 1] <= key
               /\ p >= n - 1 \/ key <= a[p]
<1> DEFINE p == Find(a, n, key, "GREATER", behind)
           keys == WithEnd(a, n, behind)
<1>1. a \in [Cells(n) -> Int] /\ \A i, j \in Cells(n) : i <= j => a[i] <= a[j]
    BY DEF Ascends
<1>2. "GREATER" \in Ops
    BY DEF Ops
<1>3. \A k, mid : Hit(k, mid, key, "GREATER") = mid + 1
    BY DEF Hit
<1>4. \/ \E mid \in Cells(n) :
             /\ a[mid] <= key /\ (mid = n - 1 \/ key < a[mid + 1])
             /\ p = mid + 1
      \/ p \in Cells(n) /\ (p = 0 \/ a[p] <= key) /\ (p = n - 1 \/ key <= a[p])
    BY <1>1, <1>2, <1>3, FindResult
<1> HIDE DEF p
<1>5. CASE \E mid \in Cells(n) :
             /\ a[mid] <= key /\ (mid = n - 1 \/ key < a[mid + 1])
             /\ p = mid + 1
    <2>1. PICK mid \in Cells(n) : a[mid] <= key /\ (mid = n - 1 \/ key < a[mid + 1]) /\ p = mid + 1
        BY <1>5
    <2>2. mid \in 0..(n - 1) /\ mid = p - 1
        BY <2>1 DEF Cells
    <2>3. mid # n - 1 => mid + 1 \in Cells(n) /\ a[mid + 1] \in Int
        BY <2>2, <1>1 DEF Cells
    <2>4. p \in 0..n /\ a[p - 1] <= key /\ (p >= n - 1 \/ key <= a[p])
        BY <2>1, <2>2, <2>3
    <2> QED
        BY <2>4 DEF p
<1>6. CASE p \in Cells(n) /\ (p = 0 \/ a[p] <= key) /\ (p = n - 1 \/ key <= a[p])
    <2>1. p \in 0..(n - 1) /\ (p # 0 => p - 1 \in Cells(n))
        BY <1>6 DEF Cells
    <2>2. p # 0 => a[p - 1] <= a[p] /\ a[p - 1] \in Int /\ a[p] \in Int
        BY <2>1, <1>6, <1>1
    <2>3. p \in 0..n /\ (p = 0 \/ a[p - 1] <= key) /\ (p >= n - 1 \/ key <= a[p])
        BY <2>1, <2>2, <1>6
    <2> QED
        BY <2>3 DEF p
<1> QED
    BY <1>4, <1>5, <1>6

\* Where the search for an upper bound ends.
LEMMA FindLast ==
    ASSUME NEW n \in Nat, n # 0, NEW a, Ascends(a, n), NEW key \in Int, NEW behind \in Int
    PROVE  LET p == Find(a, n, key, "LESS", behind)
           IN  /\ p \in (-1)..(n - 1)
               /\ p <= 0 \/ a[p] <= key
               /\ p = n - 1 \/ key <= a[p + 1]
<1> DEFINE p == Find(a, n, key, "LESS", behind)
           keys == WithEnd(a, n, behind)
<1>1. a \in [Cells(n) -> Int] /\ \A i, j \in Cells(n) : i <= j => a[i] <= a[j]
    BY DEF Ascends
<1>2. "LESS" \in Ops
    BY DEF Ops
<1>3. \A k, mid : Hit(k, mid, key, "LESS") = IF key > k[mid] THEN mid ELSE mid - 1
    BY DEF Hit
<1>4. \/ \E mid \in Cells(n) :
             /\ a[mid] <= key /\ (mid = n - 1 \/ key < a[mid + 1])
             /\ p = IF key > a[mid] THEN mid ELSE mid - 1
      \/ p \in Cells(n) /\ (p = 0 \/ a[p] <= key) /\ (p = n - 1 \/ key <= a[p])
    BY <1>1, <1>2, <1>3, FindResult
<1> HIDE DEF p
<1>5. CASE \E mid \in Cells(n) :
             /\ a[mid] <= key /\ (mid = n - 1 \/ key < a[mid + 1])
             /\ p = IF key > a[mid] THEN mid ELSE mid - 1
    <2>1. PICK mid \in Cells(n) : /\ a[mid] <= key /\ (mid = n - 1 \/ key < a[mid + 1])
                                  /\ p = IF key > a[mid] THEN mid ELSE mid - 1
        BY <1>5
    <2>2. mid \in 0..(n - 1) /\ a[mid] \in Int /\ (mid # n - 1 => mid + 1 \in Cells(n) /\ a[mid + 1] \in Int)
        BY <2>1, <1>1 DEF Cells
    <2>3. CASE key > a[mid]
        <3>1. p = mid
            BY <2>1, <2>3
        <3>2. p \in (-1)..(n - 1) /\ a[p] <= key /\ (p = n - 1 \/ key <= a[p + 1])
            BY <3>1, <2>1, <2>2
        <3> QED
            BY <3>2 DEF p
    <2>4. CASE ~ (key > a[mid])
        <3>1. p = mid - 1 /\ p + 1 = mid /\ key <= a[mid]
            BY <2>1, <2>4, <2>2
        <3>2. p \in (-1)..(n - 1) /\ key <= a[p + 1]
            BY <3>1, <2>2
        <3>3. p <= 0 \/ a[p] <= key
            <4> SUFFICES ASSUME p > 0 PROVE a[p] <= key
                BY <3>2
            <4>1. p \in Cells(n) /\ p <= mid
                BY <3>1, <2>2 DEF Cells
            <4>2. a[p] <= a[mid] /\ a[p] \in Int
                BY <4>1, <1>1
            <4> QED
                BY <4>2, <2>1, <2>2
        <3> QED
            BY <3>2, <3>3 DEF p
    <2> QED
        BY <2>3, <2>4
<1>6. CASE p \in Cells(n) /\ (p = 0 \/ a[p] <= key) /\ (p = n - 1 \/ key <= a[p])
    <2>1. p \in 0..(n - 1) /\ (p # n - 1 => p + 1 \in Cells(n))
        BY <1>6 DEF Cells
    <2>2. p # n - 1 => a[p] <= a[p + 1] /\ a[p] \in Int /\ a[p + 1] \in Int
        BY <2>1, <1>6, <1>1
    <2>3. p \in (-1)..(n - 1) /\ (p <= 0 \/ a[p] <= key) /\ (p = n - 1 \/ key <= a[p + 1])
        BY <2>1, <2>2, <1>6
    <2> QED
        BY <2>3 DEF p
<1> QED
    BY <1>4, <1>5, <1>6

-------------------------------------------------------------------------------
(* Sorted copies *)

\* The sorted copy of a column and where its values stand.
Mirrors(copy, positions, data, n) ==
    /\ Ascends(copy, n)
    /\ positions \in [Cells(n) -> Cells(n)]
    /\ \A i, j \in Cells(n) : positions[i] = positions[j] => i = j
    /\ \A r \in Cells(n) : \E i \in Cells(n) : positions[i] = r
    /\ \A i \in Cells(n) : copy[i] = data[positions[i]]

\* The sort of an array gives its sorted copy and where the values stood.
LEMMA UnitsSorted ==
    ASSUME NEW n \in Nat, n # 0, NEW data \in [Cells(n) -> Int]
    PROVE  LET u == SortUnits(data, n)
           IN  Mirrors(SortedValues(u), SortedPositions(u), data, n)
<1> DEFINE u == SortUnits(data, n)
           copy == SortedValues(u)
           pos == SortedPositions(u)
<1>1. Run(u) /\ Len(u) = n /\ From(u, 1) = {<<data[i], i>> : i \in Cells(n)}
    BY SortedRun
<1> HIDE DEF u
<1>2. /\ u \in Seq(Int \X Int)
      /\ \A a, b \in 1..Len(u) : a < b => u[a][1] <= u[b][1] /\ u[a][2] # u[b][2]
    BY <1>1 DEF Run, Unit
<1>3. ASSUME NEW i \in Cells(n)
      PROVE  i + 1 \in 1..Len(u) /\ copy[i] = u[i + 1][1] /\ pos[i] = u[i + 1][2]
    <2>1. i + 1 \in 1..Len(u) /\ i \in Cells(Len(u))
        BY <1>1 DEF Cells
    <2> QED
        BY <2>1 DEF SortedValues, SortedPositions
<1>4. DOMAIN copy = Cells(n) /\ DOMAIN pos = Cells(n)
    BY <1>1 DEF SortedValues, SortedPositions
<1>5. ASSUME NEW i \in Cells(n)
      PROVE  pos[i] \in Cells(n) /\ copy[i] = data[pos[i]] /\ copy[i] \in Int
    <2>1. u[i + 1] \in From(u, 1)
        BY <1>3 DEF From
    <2>2. PICK r \in Cells(n) : u[i + 1] = <<data[r], r>>
        BY <2>1, <1>1
    <2> QED
        BY <2>2, <1>3
<1>6. ASSUME NEW i \in Cells(n), NEW j \in Cells(n), i < j
      PROVE  copy[i] <= copy[j] /\ pos[i] # pos[j]
    <2>1. i + 1 < j + 1
        BY <1>6 DEF Cells
    <2>2. i + 1 \in 1..Len(u) /\ j + 1 \in 1..Len(u)
        BY <1>3
    <2>3. u[i + 1][1] <= u[j + 1][1] /\ u[i + 1][2] # u[j + 1][2]
        BY <2>1, <2>2, <1>2
    <2>4. copy[i] = u[i + 1][1] /\ copy[j] = u[j + 1][1] /\ pos[i] = u[i + 1][2] /\ pos[j] = u[j + 1][2]
        BY <1>3
    <2> HIDE DEF copy, pos
    <2> QED
        BY <2>3, <2>4
<1>7. ASSUME NEW r \in Cells(n) PROVE \E i \in Cells(n) : pos[i] = r
    <2>1. <<data[r], r>> \in From(u, 1)
        BY <1>1
    <2>2. PICK a \in 1..Len(u) : u[a] = <<data[r], r>>
        BY <2>1 DEF From
    <2>3. a - 1 \in Cells(n) /\ a - 1 + 1 = a
        BY <1>1 DEF Cells
    <2>4. pos[a - 1] = u[a][2]
        BY <2>3, <1>3
    <2> QED
        BY <2>2, <2>3, <2>4
<1> DEFINE anycopy == copy
           anypos == pos
<1>8. anycopy \in [Cells(n) -> Int] /\ anypos \in [Cells(n) -> Cells(n)]
    <2>1. copy = [i \in Cells(n) |-> copy[i]] /\ pos = [i \in Cells(n) |-> pos[i]]
        BY <1>1 DEF SortedValues, SortedPositions
    <2> HIDE DEF copy, pos
    <2> QED
        BY <2>1, <1>4, <1>5
<1> HIDE DEF copy, pos
<1>9. Ascends(copy, n)
    <2> SUFFICES ASSUME NEW i \in Cells(n), NEW j \in Cells(n), i <= j PROVE copy[i] <= copy[j]
        BY <1>8 DEF Ascends
    <2>1. i < j \/ i = j
        BY DEF Cells
    <2> QED
        BY <2>1, <1>5, <1>6
<1>10. ASSUME NEW i \in Cells(n), NEW j \in Cells(n), pos[i] = pos[j] PROVE i = j
    <2>1. i < j \/ i = j \/ j < i
        BY DEF Cells
    <2> QED
        BY <2>1, <1>6, <1>10
<1>11. Mirrors(copy, pos, data, n)
    BY <1>8, <1>9, <1>10, <1>5, <1>7 DEF Mirrors
<1> QED
    BY <1>11 DEF copy, pos, u

-------------------------------------------------------------------------------
(* Indexes: no operation changes the type of an index *)

\* What an index is made of (Index in cs165_api.h; NewIndex).
IsIndex(idx) == DOMAIN idx = {"type", "built", "copy", "positions", "room", "tree", "fault"}

\* new is an index of the same type as idx.
SameIndex(idx, new) == IsIndex(new) /\ new.type = idx.type

\* A new index is one of the type it was asked for.
LEMMA NewIndexShape ==
    ASSUME NEW type
    PROVE  IsIndex(NewIndex(type)) /\ NewIndex(type).type = type
BY DEF NewIndex, IsIndex

\* An index that takes another tree keeps its type.
LEMMA WithTreeShape ==
    ASSUME NEW idx, IsIndex(idx), NEW t
    PROVE  SameIndex(idx, WithTree(idx, t))
BY DEF WithTree, IsIndex, SameIndex

\* build_index over a column that is left in its order.
LEMMA BuildUnclusteredShape ==
    ASSUME NEW idx, IsIndex(idx), NEW data, NEW n
    PROVE  SameIndex(idx, BuildUnclustered(idx, data, n))
BY NewIndexShape, WithTreeShape DEF BuildUnclustered, IsIndex, SameIndex

\* build_index over the sorted column.
LEMMA BuildClusteredShape ==
    ASSUME NEW idx, IsIndex(idx), NEW data, NEW n, NEW behind
    PROVE  SameIndex(idx, BuildClustered(idx, data, n, behind))
BY NewIndexShape, WithTreeShape, ZenonT(60) DEF BuildClustered, IsIndex, SameIndex

\* Inserting into a sorted copy.
LEMMA SortInsertShape ==
    ASSUME NEW idx, IsIndex(idx), NEW n, NEW value, NEW pos, NEW behind
    PROVE  SameIndex(idx, SortInsert(idx, n, value, pos, behind))
BY DEF SortInsert, IsIndex, SameIndex

\* Inserting into a tree beside the column.
LEMMA TreeInsertShape ==
    ASSUME NEW idx, IsIndex(idx), NEW value, NEW pos
    PROVE  SameIndex(idx, TreeInsert(idx, value, pos))
BY WithTreeShape DEF TreeInsert

\* Deleting from a sorted copy.
LEMMA SortDeleteShape ==
    ASSUME NEW idx, IsIndex(idx), NEW data, NEW n, NEW rs, NEW behind
    PROVE  SameIndex(idx, SortDelete(idx, data, n, rs, behind))
BY ZenonT(60) DEF SortDelete, IsIndex, SameIndex

\* Deleting from a tree.
LEMMA TreeDeleteShape ==
    ASSUME NEW idx, IsIndex(idx), NEW data, NEW n, NEW rs, NEW behind
    PROVE  SameIndex(idx, TreeDelete(idx, data, n, rs, behind))
BY WithTreeShape DEF TreeDelete

\* Deleting from either kind of unclustered index.
LEMMA DeleteUnclusteredShape ==
    ASSUME NEW idx, IsIndex(idx), NEW data, NEW n, NEW rs, NEW behind
    PROVE  SameIndex(idx, DeleteUnclustered(idx, data, n, rs, behind))
BY SortDeleteShape, TreeDeleteShape, SMTT(60) DEF DeleteUnclustered, IsIndex, SameIndex

\* Updating in a sorted copy.
LEMMA SortUpdateShape ==
    ASSUME NEW idx, IsIndex(idx), NEW data, NEW n, NEW rs, NEW value, NEW behind
    PROVE  SameIndex(idx, SortUpdate(idx, data, n, rs, value, behind))
BY ZenonT(60) DEF SortUpdate, IsIndex, SameIndex

\* Updating in a tree beside the column.
LEMMA TreeUpdateShape ==
    ASSUME NEW idx, IsIndex(idx), NEW data, NEW n, NEW rs, NEW value, NEW behind
    PROVE  SameIndex(idx, TreeUpdate(idx, data, n, rs, value, behind))
BY WithTreeShape DEF TreeUpdate

\* Rebuilding an unclustered index of another column after a clustered one moved the rows.
LEMMA RefreshedShape ==
    ASSUME NEW idx, IsIndex(idx), NEW data, NEW n, NEW behind
    PROVE  SameIndex(idx, Refreshed(idx, data, n, behind))
BY WithTreeShape, ZenonT(60) DEF Refreshed, IsIndex, SameIndex

-------------------------------------------------------------------------------
(* Loops *)

\* The results of n steps, as a function and in the form of a recursive
\* definition.
LEMMA IterationSome ==
    ASSUME NEW n \in Nat, NEW X, NEW x0 \in X, NEW N, Steps(N, n, X)
    PROVE  \E f \in [0..n -> X] :
               /\ f[0] = x0
               /\ \A i \in 1..n : f[i] = N[<<i, f[i - 1]>>]
               /\ f = [i \in 0..n |-> IF i = 0 THEN x0 ELSE N[<<i, f[i - 1]>>]]
<1>1. PICK f : Iterates(f, N, n, x0, X)
    BY Iteration
<1>2. f = [i \in 0..n |-> IF i = 0 THEN x0 ELSE N[<<i, f[i - 1]>>]]
    BY <1>1, Unfolds
<1> QED
    BY <1>1, <1>2 DEF Iterates

\* What holds at the start and after each step holds in the end.
LEMMA IterationStays ==
    ASSUME NEW n \in Nat, NEW X, NEW f, f[0] \in X, \A i \in 1..n : f[i - 1] \in X => f[i] \in X
    PROVE  \A i \in 0..n : f[i] \in X
<1> DEFINE S == {i \in 0..n : f[i] \in X}
<1>1. 0 \in S
    OBVIOUS
<1>2. ASSUME NEW m \in 1..n, m - 1 \in S PROVE m \in S
    BY <1>2
<1>3. 0..n \subseteq S
    <2> HIDE DEF S
    <2> QED BY <1>1, <1>2, Upward
<1> QED
    BY <1>3

-------------------------------------------------------------------------------
(* Types of arrays *)

\* The cells of an array hold integers.
IntArray(a) == \A i \in DOMAIN a : a[i] \in Int

\* An array cut or filled up to n cells.
LEMMA FilledType ==
    ASSUME NEW a, IntArray(a), NEW n \in Int, NEW behind \in Int
    PROVE  Filled(a, n, behind) \in [Cells(n) -> Int]
BY DEF Filled, Cell, IntArray

\* A cell of an array, or what is behind it.
LEMMA CellType ==
    ASSUME NEW a, IntArray(a), NEW i, NEW behind \in Int
    PROVE  Cell(a, i, behind) \in Int
BY DEF Cell, IntArray

\* An array of integers, as a function.
LEMMA FunctionArray ==
    ASSUME NEW D, NEW a \in [D -> Int]
    PROVE  IntArray(a)
BY DEF IntArray

\* An array without cells.
LEMMA NothingType == IntArray(Nothing) /\ Nothing \in [Cells(0) -> Int]
BY DEF Nothing, IntArray, Cells

\* A gap is opened.
LEMMA OpenedType ==
    ASSUME NEW m \in Int, NEW a \in [Cells(m) -> Int], NEW i \in Nat, NEW n, NEW x \in Int
    PROVE  Opened(a, i, n, x) \in [Cells(m) -> Int]
<1> SUFFICES ASSUME NEW j \in Cells(m), j # i, j \in (i + 1)..n PROVE a[j - 1] \in Int
    BY DEF Opened
<1>1. j - 1 \in Cells(m)
    <2>1. j \in Int /\ i < j /\ j <= m - 1
        BY DEF Cells
    <2> QED
        BY <2>1 DEF Cells
<1> QED
    BY <1>1

\* A search among no cells finds nothing and ends at the first.
LEMMA FindNothing ==
    ASSUME NEW a, NEW key \in Int, NEW op, NEW behind \in Int
    PROVE  Find(a, 0, key, op, behind) = 0
<1> DEFINE data == WithEnd(a, 0, behind)
           D == (0..((-1) + 1)) \X ((-1)..(-1))
           step(f, p) == SearchStep(data, key, op, f, p)
<1>1. \A i \in {0, 1} : data[i] = behind
    BY DEF WithEnd, Filled, Cell, Cells
<1>2. \A f, p : p = <<0, -1>> => step(f, p) = 0
    BY <1>1 DEF SearchStep
<1>3. SearchData(data, -1, key, op) = (CHOOSE f : f = [p \in D |-> step(f, p)])[<<0, -1>>]
    BY DEF SearchData, SearchStep
<1> HIDE DEF step
<1>4. D = {<<0, -1>>}
    OBVIOUS
<1> HIDE DEF D
<1>5. LET f == [p \in D |-> 0] IN f = [p \in D |-> step(f, p)]
    BY <1>2, <1>4
<1>6. PICK f : f = [p \in D |-> step(f, p)] /\ SearchData(data, -1, key, op) = f[<<0, -1>>]
    BY <1>3, <1>5
<1>7. f[<<0, -1>>] = 0
    BY <1>6, <1>2, <1>4
<1> QED
    BY <1>6, <1>7 DEF Find

\* The end of an array is the same after it was cut to its cells.
LEMMA WithEndFilled ==
    ASSUME NEW a, NEW n \in Int, NEW behind
    PROVE  WithEnd(Filled(a, n, behind), n, behind) = WithEnd(a, n, behind)
<1>1. Filled(Filled(a, n, behind), n, behind) = Filled(a, n, behind)
    BY DEF Filled, Cell
<1> QED
    BY <1>1 DEF WithEnd

\* The search for a place is in the array, whatever that holds.
LEMMA FindPlace ==
    ASSUME NEW a, IntArray(a), NEW n \in Nat, NEW key \in Int, NEW behind \in Int
    PROVE  LET p == Find(a, n, key, "GREATER_EQUAL", behind)
           IN  p \in Nat /\ (n = 0 => p = 0) /\ (n # 0 => p \in Cells(n))
<1> DEFINE p == Find(a, n, key, "GREATER_EQUAL", behind)
           b == Filled(a, n, behind)
<1>1. CASE n = 0
    BY <1>1, FindNothing
<1>2. CASE n # 0
    <2>1. b \in [Cells(n) -> Int]
        BY FilledType
    <2>2. p = Find(b, n, key, "GREATER_EQUAL", behind)
        BY WithEndFilled DEF Find
    <2>3. Find(b, n, key, "GREATER_EQUAL", behind) \in Cells(n)
        <3> HIDE DEF b
        <3>1. "GREATER_EQUAL" \in Ops
            BY DEF Ops
        <3> QED
            BY <1>2, <2>1, <3>1, FindResult DEF Hit
    <2> QED
        BY <1>2, <2>2, <2>3 DEF Cells
<1> QED
    BY <1>1, <1>2

\* Where any search may end.
LEMMA FindNear ==
    ASSUME NEW a, IntArray(a), NEW n \in Nat, NEW key \in Int, NEW behind \in Int,
           NEW op \in {"LESS", "GREATER", "GREATER_EQUAL"}
    PROVE  LET p == Find(a, n, key, op, behind)
           IN  /\ p \in Int /\ -1 <= p /\ p <= n
               /\ op # "LESS" => 0 <= p
               /\ op # "GREATER" /\ n > 0 => p < n
<1> DEFINE p == Find(a, n, key, op, behind)
           b == Filled(a, n, behind)
<1>1. CASE n = 0
    BY <1>1, FindNothing
<1>2. CASE n # 0
    <2>1. b \in [Cells(n) -> Int]
        BY FilledType
    <2>2. p = Find(b, n, key, op, behind)
        BY WithEndFilled DEF Find
    <2>3. op \in Ops
        BY DEF Ops
    <2> DEFINE keys == WithEnd(b, n, behind)
               q == Find(b, n, key, op, behind)
    <2>4. \/ \E mid \in Cells(n) : q = Hit(keys, mid, key, op)
          \/ q \in Cells(n)
        <3> HIDE DEF b
        <3> QED
            BY <1>2, <2>1, <2>3, FindResult
    <2> HIDE DEF q, keys
    <2>5. ASSUME NEW mid \in Cells(n), q = Hit(keys, mid, key, op)
          PROVE  q \in {mid, mid - 1, mid + 1} /\ (op # "LESS" => q # mid - 1) /\ (op # "GREATER" => q # mid + 1)
        BY <2>5 DEF Hit, Cells
    <2>6. /\ q \in Int /\ -1 <= q /\ q <= n
          /\ op # "LESS" => 0 <= q
          /\ op # "GREATER" => q < n
        BY <2>4, <2>5 DEF Cells
    <2> QED
        BY <2>2, <2>6 DEF q
<1> QED
    BY <1>1, <1>2

-------------------------------------------------------------------------------
(* Types of indexes *)

\* The kinds of index a column may have in a table without trees.
SortKinds == {"NONE", "CLUSTER_SORT", "UNCLUSTER_SORT"}

\* An index that is no tree, with its arrays.
Plain(idx) ==
    /\ IsIndex(idx) /\ idx.type \in SortKinds /\ idx.built \in BOOLEAN /\ idx.room \in Int
    /\ IntArray(idx.copy) /\ IntArray(idx.positions)

\* create(idx) has no arrays yet.
LEMMA NewIndexPlain ==
    ASSUME NEW type \in SortKinds
    PROVE  /\ Plain(NewIndex(type))
           /\ NewIndex(type).type = type /\ ~ NewIndex(type).built /\ NewIndex(type).fault = "none"
BY NothingType DEF NewIndex, Plain, IsIndex

\* An index that meets a fault is the same otherwise.
LEMMA FaultPlain ==
    ASSUME NEW idx, Plain(idx), NEW f
    PROVE  /\ Plain([idx EXCEPT !.fault = f])
           /\ [idx EXCEPT !.fault = f].type = idx.type
BY DEF Plain, IsIndex

\* build_index over a column that stays as it is: a sorted copy.
LEMMA BuildUnclusteredPlain ==
    ASSUME NEW idx, Plain(idx), idx.type = "UNCLUSTER_SORT", NEW n \in Nat, n # 0, NEW data \in [Cells(n) -> Int]
    PROVE  LET new == BuildUnclustered(idx, data, n)
           IN  /\ Plain(new) /\ new.type = "UNCLUSTER_SORT" /\ new.built /\ new.fault = "none"
               /\ Mirrors(new.copy, new.positions, data, n)
<1> DEFINE u == SortUnits(data, n)
           copy == SortedValues(u)
           positions == SortedPositions(u)
           new == [NewIndex(idx.type) EXCEPT !.built = TRUE, !.room = n, !.copy = copy, !.positions = positions]
<1>1. Mirrors(copy, positions, data, n)
    BY UnitsSorted
<1>2. IntArray(copy) /\ IntArray(positions)
    <2>1. copy \in [Cells(n) -> Int] /\ positions \in [Cells(n) -> Cells(n)]
        BY <1>1 DEF Mirrors, Ascends
    <2> HIDE DEF copy, positions
    <2>2. positions \in [Cells(n) -> Int]
        BY <2>1 DEF Cells
    <2> QED
        BY <2>1, <2>2, FunctionArray
<1>3. BuildUnclustered(idx, data, n) = new
    BY DEF BuildUnclustered
<1> HIDE DEF copy, positions
<1>4. /\ IsIndex(new) /\ new.type = "UNCLUSTER_SORT" /\ new.built = TRUE /\ new.fault = "none"
      /\ new.room = n /\ new.copy = copy /\ new.positions = positions
    BY DEF NewIndex, IsIndex
<1> HIDE DEF new
<1>5. Plain(new)
    <2>1. IntArray(new.copy) /\ IntArray(new.positions)
        BY <1>2, <1>4, Zenon
    <2>2. new.room \in Int
        BY <1>4
    <2>3. new.type \in SortKinds
        BY <1>4, Zenon DEF SortKinds
    <2>4. new.built \in BOOLEAN
        BY <1>4, Zenon
    <2> QED
        BY <1>4, <2>1, <2>2, <2>3, <2>4, Zenon DEF Plain
<1> QED
    BY <1>1, <1>3, <1>4, <1>5

\* build_index over the sorted column.
LEMMA BuildClusteredPlain ==
    ASSUME NEW idx, idx.type = "CLUSTER_SORT", NEW n \in Nat, NEW data, NEW behind
    PROVE  LET new == BuildClustered(idx, data, n, behind)
           IN  /\ Plain(new) /\ new.type = "CLUSTER_SORT" /\ new.built /\ new.fault = "none"
BY NothingType DEF BuildClustered, NewIndex, Plain, IsIndex, SortKinds

\* db_insert_sort_uncluster.
LEMMA SortInsertPlain ==
    ASSUME NEW idx, Plain(idx), NEW n \in Nat, NEW value \in Int, NEW pos \in Int, NEW behind \in Int
    PROVE  Plain(SortInsert(idx, n, value, pos, behind))
<1> DEFINE place == Find(idx.copy, n, value, "GREATER_EQUAL", behind)
           old == Filled(idx.positions, n, behind)
           moved == [j \in Cells(n) |-> IF old[j] >= pos THEN old[j] + 1 ELSE old[j]]
           copy == Opened(Filled(idx.copy, n + 1, behind), place, n, value)
           positions == Opened(Filled(moved, n + 1, behind), place, n, pos)
<1>1. place \in Nat
    BY FindPlace DEF Plain
<1>2. n + 1 \in Int
    OBVIOUS
<1>3. IntArray(copy)
    <2>1. Filled(idx.copy, n + 1, behind) \in [Cells(n + 1) -> Int]
        BY <1>2, FilledType DEF Plain
    <2> HIDE DEF place
    <2>2. copy \in [Cells(n + 1) -> Int]
        BY <1>1, <1>2, <2>1, OpenedType
    <2> QED
        BY <2>2, FunctionArray
<1>4. IntArray(positions)
    <2>1. old \in [Cells(n) -> Int]
        BY FilledType DEF Plain
    <2> HIDE DEF old
    <2>2. moved \in [Cells(n) -> Int]
        BY <2>1
    <2> HIDE DEF moved
    <2>3. IntArray(moved)
        BY <2>2, FunctionArray
    <2>4. Filled(moved, n + 1, behind) \in [Cells(n + 1) -> Int]
        BY <1>2, <2>3, FilledType
    <2> HIDE DEF place
    <2>5. positions \in [Cells(n + 1) -> Int]
        BY <1>1, <1>2, <2>4, OpenedType
    <2> QED
        BY <2>5, FunctionArray
<1>5. SortInsert(idx, n, value, pos, behind)
          = IF n >= idx.room THEN [idx EXCEPT !.fault = "overflow"]
            ELSE [idx EXCEPT !.copy = copy, !.positions = positions]
    BY DEF SortInsert
<1> HIDE DEF copy, positions
<1>6. Plain([idx EXCEPT !.copy = copy, !.positions = positions])
    BY <1>3, <1>4 DEF Plain, IsIndex
<1> QED
    BY <1>5, <1>6, FaultPlain

-------------------------------------------------------------------------------
(* db_delete_sort_uncluster: types *)

\* One row leaves the sorted copy.
GoneStep(data, n, rs, behind, s, i) ==
    LET place == Find(s.copy, n, Cell(data, rs[i], behind), "GREATER_EQUAL", behind)
        m == n - i + 1
        copy == [j \in Cells(n) |-> IF j \in place..(m - 1)
                     THEN IF j + 1 < n THEN s.copy[j + 1] ELSE behind ELSE s.copy[j]]
        entry == [j \in Cells(n) |-> IF j \in place..(m - 1)
                     THEN IF j + 1 < n THEN s.positions[j + 1] ELSE behind
                     ELSE s.positions[j]]
    IN  [copy |-> copy,
         positions |-> [j \in Cells(n) |->
             IF j < (IF m > place THEN m ELSE place) /\ entry[j] > rs[i]
             THEN entry[j] - 1 ELSE entry[j]]]

\* The arrays with which the loop begins.
GoneFirst(idx, n, behind) ==
    [copy |-> Filled(idx.copy, n, behind), positions |-> Filled(idx.positions, n, behind)]

\* Two arrays of n cells.
Halfway(n) == [copy : [Cells(n) -> Int], positions : [Cells(n) -> Int]]

\* f is the recursive function of SortDelete.
GoneTo(idx, data, n, rs, behind, f) ==
    f = [i \in 0..Len(rs) |-> IF i = 0 THEN GoneFirst(idx, n, behind)
                              ELSE GoneStep(data, n, rs, behind, f[i - 1], i)]

\* f holds the arrays after each row.
GoneRun(idx, data, n, rs, behind, f) ==
    /\ f[0] = GoneFirst(idx, n, behind)
    /\ \A i \in 1..Len(rs) : f[i] = GoneStep(data, n, rs, behind, f[i - 1], i)
    /\ \A i \in 0..Len(rs) : f[i] \in Halfway(n)
    /\ SortDelete(idx, data, n, rs, behind)
           = [idx EXCEPT !.copy = Filled(f[Len(rs)].copy, n - Len(rs), behind),
                         !.positions = Filled(f[Len(rs)].positions, n - Len(rs), behind),
                         !.room = n - Len(rs)]

\* A step leaves two arrays of n cells.
LEMMA GoneStepType ==
    ASSUME NEW n \in Int, NEW behind \in Int, NEW data, NEW rs, NEW s \in Halfway(n), NEW i
    PROVE  GoneStep(data, n, rs, behind, s, i) \in Halfway(n)
<1> DEFINE place == Find(s.copy, n, Cell(data, rs[i], behind), "GREATER_EQUAL", behind)
           m == n - i + 1
           gap(j) == j \in place..(m - 1)
           copy == [j \in Cells(n) |-> IF gap(j)
                     THEN IF j + 1 < n THEN s.copy[j + 1] ELSE behind ELSE s.copy[j]]
           entry == [j \in Cells(n) |-> IF gap(j)
                     THEN IF j + 1 < n THEN s.positions[j + 1] ELSE behind
                     ELSE s.positions[j]]
           low(j) == j < (IF m > place THEN m ELSE place) /\ entry[j] > rs[i]
           positions == [j \in Cells(n) |-> IF low(j) THEN entry[j] - 1 ELSE entry[j]]
<1>1. /\ s.copy \in [Cells(n) -> Int] /\ s.positions \in [Cells(n) -> Int]
    BY DEF Halfway
<1>2. \A j \in Cells(n) : j + 1 < n => j + 1 \in Cells(n)
    BY DEF Cells
<1>3. GoneStep(data, n, rs, behind, s, i) = [copy |-> copy, positions |-> positions]
    BY DEF GoneStep
<1> HIDE DEF gap, m
<1>4. copy \in [Cells(n) -> Int]
    BY <1>1, <1>2
<1>5. entry \in [Cells(n) -> Int]
    BY <1>1, <1>2
<1> HIDE DEF entry, low
<1>6. positions \in [Cells(n) -> Int]
    BY <1>5
<1> QED
    BY <1>3, <1>4, <1>6 DEF Halfway

\* The loop of SortDelete, row by row.
LEMMA GoneRuns ==
    ASSUME NEW idx, Plain(idx), NEW data, NEW n \in Int, NEW rs, Len(rs) \in Nat, NEW behind \in Int
    PROVE  \E f : GoneRun(idx, data, n, rs, behind, f)
<1> DEFINE k == Len(rs)
           X == Halfway(n)
           x0 == GoneFirst(idx, n, behind)
           step(s, i) == GoneStep(data, n, rs, behind, s, i)
           N == [p \in (1..k) \X X |-> step(p[2], p[1])]
           result(f) == [idx EXCEPT !.copy = Filled(f[k].copy, n - k, behind),
                                    !.positions = Filled(f[k].positions, n - k, behind),
                                    !.room = n - k]
<1>1. x0 \in X
    BY FilledType DEF GoneFirst, Halfway, Plain
<1>2. ASSUME NEW s \in X, NEW i PROVE step(s, i) \in X
    BY GoneStepType
<1>3. SortDelete(idx, data, n, rs, behind) = result(CHOOSE f : GoneTo(idx, data, n, rs, behind, f))
    BY DEF SortDelete, GoneTo, GoneStep, GoneFirst
<1> HIDE DEF X, x0, step
<1>4. Steps(N, k, X)
    BY <1>2 DEF Steps
<1>5. \A i \in 1..k, s \in X : N[<<i, s>>] = step(s, i)
    OBVIOUS
<1> HIDE DEF N, k
<1>6. k \in Nat
    BY DEF k
<1>7. PICK g \in [0..k -> X] : g = [i \in 0..k |-> IF i = 0 THEN x0 ELSE N[<<i, g[i - 1]>>]]
    BY <1>1, <1>4, <1>6, IterationSome, SMTT(60)
<1>8. g = [i \in 0..k |-> IF i = 0 THEN x0 ELSE step(g[i - 1], i)]
    <2>1. \A i \in 0..k : i # 0 => i \in 1..k /\ i - 1 \in 0..k
        BY <1>6
    <2>2. \A i \in 0..k : i # 0 => N[<<i, g[i - 1]>>] = step(g[i - 1], i)
        BY <2>1, <1>5, <1>7
    <2> QED
        BY <1>7, <2>2, Zenon
<1>9. \E f : GoneTo(idx, data, n, rs, behind, f)
    BY <1>8 DEF GoneTo, x0, step, k
<1> HIDE DEF result
<1>10. PICK f : GoneTo(idx, data, n, rs, behind, f) /\ SortDelete(idx, data, n, rs, behind) = result(f)
    BY <1>3, <1>9
<1>11. f = [i \in 0..k |-> IF i = 0 THEN x0 ELSE step(f[i - 1], i)]
    BY <1>10, Zenon DEF GoneTo, x0, step, k
<1>12. f[0] = x0 /\ \A i \in 1..k : f[i] = step(f[i - 1], i)
    <2>1. 0 \in 0..k /\ \A i \in 1..k : i \in 0..k /\ i # 0
        BY <1>6
    <2> QED
        BY <1>11, <2>1, Zenon
<1>13. \A i \in 0..k : f[i] \in X
    <2>1. \A i \in 1..k : f[i - 1] \in X => f[i] \in X
        BY <1>2, <1>12
    <2> QED
        BY <1>1, <1>6, <1>12, <2>1, IterationStays
<1> QED
    BY <1>10, <1>12, <1>13 DEF GoneRun, result, x0, X, step, k

\* The sorted copy keeps its type.
LEMMA SortDeletePlain ==
    ASSUME NEW idx, Plain(idx), NEW data, NEW n \in Int, NEW rs, Len(rs) \in Nat, NEW behind \in Int
    PROVE  Plain(SortDelete(idx, data, n, rs, behind))
<1>1. PICK f : GoneRun(idx, data, n, rs, behind, f)
    BY GoneRuns
<1> DEFINE s == f[Len(rs)]
           m == n - Len(rs)
           copy == Filled(s.copy, m, behind)
           positions == Filled(s.positions, m, behind)
<1>2. s \in Halfway(n) /\ m \in Int
    BY <1>1 DEF GoneRun
<1>3. IntArray(s.copy) /\ IntArray(s.positions)
    BY <1>2, FunctionArray DEF Halfway
<1>4. copy \in [Cells(m) -> Int] /\ positions \in [Cells(m) -> Int]
    <2> HIDE DEF s, m
    <2> QED BY <1>2, <1>3, FilledType
<1>5. SortDelete(idx, data, n, rs, behind) = [idx EXCEPT !.copy = copy, !.positions = positions, !.room = m]
    BY <1>1 DEF GoneRun
<1> HIDE DEF copy, positions, m
<1>6. IntArray(copy) /\ IntArray(positions)
    BY <1>4, FunctionArray
<1> QED
    BY <1>2, <1>5, <1>6 DEF Plain, IsIndex

-------------------------------------------------------------------------------
(* db_update_sort_uncluster: types *)

\* The value and its place are written at a cell.
UpdPut(u, at, place, value, room) ==
    IF at \notin Cells(room) THEN [u EXCEPT !.fault = "overflow"]
    ELSE [u EXCEPT !.copy[at] = value, !.positions[at] = place]

\* An entry moves to cell i.
UpdTake(u, i, from) == [u EXCEPT !.copy[i] = u.copy[from], !.positions[i] = u.positions[i + 1]]

\* A step of the loop that moves entries down, and of the one that moves them up.
UpStep(v, i, place, value, room) ==
    UpdTake(IF value <= v.copy[i] THEN UpdPut(v, i - 1, place, value, room) ELSE v, i, i + 1)

DownStep(v, i, place, value, room) ==
    UpdTake(IF value >= v.copy[i] THEN UpdPut(v, i + 1, place, value, room) ELSE v, i, i - 1)

\* f is the recursive function of the one loop and of the other.
ShiftingUp(s, n, place, value, room, f) ==
    f = [i \in (place - 1)..(n - 1) |-> IF i < place THEN s ELSE UpStep(f[i - 1], i, place, value, room)]

ShiftingDown(s, place, value, room, f) ==
    f = [i \in 1..(place + 1) |-> IF i > place THEN s ELSE DownStep(f[i + 1], i, place, value, room)]

\* The arrays of n cells with what the search sees behind them, and a fault.
Updating(n, faults) ==
    [copy : [Cells(n + 2) -> Int], positions : [Cells(n + 2) -> Int], fault : faults]

\* Writing a cell keeps the types.
LEMMA UpdPutType ==
    ASSUME NEW n \in Nat, NEW faults, "overflow" \in faults, NEW u \in Updating(n, faults),
           NEW at, NEW place \in Int, NEW value \in Int, NEW room
    PROVE  UpdPut(u, at, place, value, room) \in Updating(n, faults)
<1>1. [u EXCEPT !.fault = "overflow"] \in Updating(n, faults)
    BY DEF Updating
<1>2. [u EXCEPT !.copy[at] = value, !.positions[at] = place] \in Updating(n, faults)
    <2>1. [u.copy EXCEPT ![at] = value] \in [Cells(n + 2) -> Int]
        BY DEF Updating
    <2>2. [u.positions EXCEPT ![at] = place] \in [Cells(n + 2) -> Int]
        BY DEF Updating
    <2> QED
        BY <2>1, <2>2 DEF Updating
<1> QED
    BY <1>1, <1>2 DEF UpdPut

\* Moving an entry keeps the types.
LEMMA UpdTakeType ==
    ASSUME NEW n \in Nat, NEW faults, NEW u \in Updating(n, faults),
           NEW i \in 0..n, NEW from \in Cells(n + 2)
    PROVE  UpdTake(u, i, from) \in Updating(n, faults)
<1>1. i + 1 \in Cells(n + 2)
    BY DEF Cells
<1>2. [u.copy EXCEPT ![i] = u.copy[from]] \in [Cells(n + 2) -> Int]
    BY DEF Updating
<1>3. [u.positions EXCEPT ![i] = u.positions[i + 1]] \in [Cells(n + 2) -> Int]
    BY <1>1 DEF Updating
<1> QED
    BY <1>2, <1>3 DEF Updating, UpdTake

\* The loop that moves entries down keeps the types.
LEMMA UpType ==
    ASSUME NEW n \in Nat, NEW faults, "overflow" \in faults, NEW s \in Updating(n, faults),
           NEW place \in Cells(n), NEW value \in Int, NEW room
    PROVE  (CHOOSE f : ShiftingUp(s, n, place, value, room, f))[n - 1] \in Updating(n, faults)
<1> DEFINE X == Updating(n, faults)
           k == n - place
           low == place - 1
           N == [p \in (1..k) \X X |-> UpStep(p[2], low + p[1], place, value, room)]
<1>0. k \in Nat /\ low \in Int /\ place \in Int /\ low + k = n - 1 /\ low + 1 = place
    BY DEF Cells
<1>1. ASSUME NEW v \in X, NEW i \in place..(n - 1) PROVE UpStep(v, i, place, value, room) \in X
    <2>1. i \in 0..n /\ i + 1 \in Cells(n + 2)
        BY DEF Cells
    <2>2. (IF value <= v.copy[i] THEN UpdPut(v, i - 1, place, value, room) ELSE v) \in X
        BY <1>0, UpdPutType
    <2> HIDE DEF X
    <2> QED
        BY <2>1, <2>2, UpdTakeType DEF UpStep, X
<1> HIDE DEF X
<1>2. \A j \in 1..k : low + j \in place..(n - 1)
    BY <1>0
<1>3. Steps(N, k, X)
    BY <1>1, <1>2 DEF Steps
<1>4. \A j \in 1..k, v \in X : N[<<j, v>>] = UpStep(v, low + j, place, value, room)
    OBVIOUS
<1> HIDE DEF N, k, low
<1>5. PICK g \in [0..k -> X] : g[0] = s /\ \A j \in 1..k : g[j] = N[<<j, g[j - 1]>>]
    BY <1>0, <1>3, IterationSome, SMTT(60) DEF X
<1> DEFINE D == (place - 1)..(n - 1)
           f0 == [i \in D |-> g[i - low]]
<1>6. f0 = [i \in D |-> IF i < place THEN s ELSE UpStep(f0[i - 1], i, place, value, room)]
    <2>1. ASSUME NEW i \in D, i < place PROVE g[i - low] = s
        BY <2>1, <1>0, <1>5 DEF low
    <2>2. ASSUME NEW i \in D, ~ (i < place)
          PROVE  g[i - low] = UpStep(f0[i - 1], i, place, value, room)
        <3>1. i - low \in 1..k /\ i - 1 \in D /\ (i - low) - 1 = (i - 1) - low /\ (i - low) - 1 \in 0..k
            BY <2>2, <1>0
        <3>2. f0[i - 1] = g[(i - low) - 1] /\ g[(i - low) - 1] \in X
            BY <3>1, <1>5
        <3>3. low + (i - low) = i
            BY <1>0, <2>2
        <3>4. g[i - low] = N[<<i - low, g[(i - low) - 1]>>]
            BY <1>5, <3>1
        <3>5. N[<<i - low, g[(i - low) - 1]>>] = UpStep(g[(i - low) - 1], low + (i - low), place, value, room)
            BY <1>4, <3>1, <3>2
        <3> QED
            BY <3>2, <3>3, <3>4, <3>5
    <2>3. \A i \in D : g[i - low] = IF i < place THEN s ELSE UpStep(f0[i - 1], i, place, value, room)
        BY <2>1, <2>2
    <2> QED
        BY <2>3, Zenon
<1>7. \E f : ShiftingUp(s, n, place, value, room, f)
    BY <1>6 DEF ShiftingUp
<1>8. PICK f : ShiftingUp(s, n, place, value, room, f) /\ (CHOOSE h : ShiftingUp(s, n, place, value, room, h)) = f
    BY <1>7
<1>9. \A i \in D : f[i] = IF i < place THEN s ELSE UpStep(f[i - 1], i, place, value, room)
    BY <1>8, Zenon DEF ShiftingUp
<1> DEFINE h == [j \in 0..k |-> f[low + j]]
<1>10. \A j \in 0..k : h[j] \in X
    <2>1. h[0] \in X
        <3>1. low + 0 \in D /\ low + 0 < place /\ 0 \in 0..k
            BY <1>0 DEF low
        <3> QED
            BY <3>1, <1>9 DEF X
    <2>2. ASSUME NEW j \in 1..k, h[j - 1] \in X PROVE h[j] \in X
        <3>1. /\ low + j \in D /\ ~ (low + j < place) /\ j \in 0..k /\ j - 1 \in 0..k
              /\ (low + j) - 1 = low + (j - 1) /\ low + j \in place..(n - 1)
            BY <1>0, <1>2
        <3>2. f[low + j] = UpStep(f[low + (j - 1)], low + j, place, value, room)
            BY <3>1, <1>9
        <3>3. h[j] = f[low + j] /\ h[j - 1] = f[low + (j - 1)]
            BY <3>1
        <3> QED
            BY <3>1, <3>2, <3>3, <2>2, <1>1
    <2> HIDE DEF h
    <2> QED
        BY <1>0, <2>1, <2>2, IterationStays
<1>11. k \in 0..k /\ h[k] = f[n - 1]
    BY <1>0
<1> QED
    BY <1>8, <1>10, <1>11 DEF X

\* The loop that moves entries up keeps the types.
LEMMA DownType ==
    ASSUME NEW n \in Nat, NEW faults, "overflow" \in faults, NEW s \in Updating(n, faults),
           NEW place \in Nat, place <= n, NEW value \in Int, NEW room
    PROVE  (CHOOSE f : ShiftingDown(s, place, value, room, f))[1] \in Updating(n, faults)
<1> DEFINE X == Updating(n, faults)
           high == place + 1
           N == [p \in (1..place) \X X |-> DownStep(p[2], high - p[1], place, value, room)]
<1>0. high \in Int /\ place \in Int /\ high - place = 1
    OBVIOUS
<1>1. ASSUME NEW v \in X, NEW i \in 1..place PROVE DownStep(v, i, place, value, room) \in X
    <2>1. i \in 0..n /\ i - 1 \in Cells(n + 2)
        BY DEF Cells
    <2>2. (IF value >= v.copy[i] THEN UpdPut(v, i + 1, place, value, room) ELSE v) \in X
        BY <1>0, UpdPutType
    <2> HIDE DEF X
    <2> QED
        BY <2>1, <2>2, UpdTakeType DEF DownStep, X
<1> HIDE DEF X
<1>2. \A j \in 1..place : high - j \in 1..place
    BY <1>0
<1>3. Steps(N, place, X)
    BY <1>1, <1>2 DEF Steps
<1>4. \A j \in 1..place, v \in X : N[<<j, v>>] = DownStep(v, high - j, place, value, room)
    OBVIOUS
<1> HIDE DEF N, high
<1>5. PICK g \in [0..place -> X] : g[0] = s /\ \A j \in 1..place : g[j] = N[<<j, g[j - 1]>>]
    BY <1>0, <1>3, IterationSome DEF X
<1> DEFINE D == 1..(place + 1)
           f0 == [i \in D |-> g[high - i]]
<1>6. f0 = [i \in D |-> IF i > place THEN s ELSE DownStep(f0[i + 1], i, place, value, room)]
    <2>1. ASSUME NEW i \in D, i > place PROVE g[high - i] = s
        BY <2>1, <1>0, <1>5 DEF high
    <2>2. ASSUME NEW i \in D, ~ (i > place)
          PROVE  g[high - i] = DownStep(f0[i + 1], i, place, value, room)
        <3>1. high - i \in 1..place /\ i + 1 \in D /\ (high - i) - 1 = high - (i + 1) /\ (high - i) - 1 \in 0..place
            BY <2>2, <1>0
        <3>2. f0[i + 1] = g[(high - i) - 1] /\ g[(high - i) - 1] \in X
            BY <3>1, <1>5
        <3>3. high - (high - i) = i
            BY <1>0, <2>2
        <3>4. g[high - i] = N[<<high - i, g[(high - i) - 1]>>]
            BY <1>5, <3>1
        <3>5. N[<<high - i, g[(high - i) - 1]>>] = DownStep(g[(high - i) - 1], high - (high - i), place, value, room)
            BY <1>4, <3>1, <3>2
        <3> QED
            BY <3>2, <3>3, <3>4, <3>5
    <2>3. \A i \in D : g[high - i] = IF i > place THEN s ELSE DownStep(f0[i + 1], i, place, value, room)
        BY <2>1, <2>2
    <2> QED
        BY <2>3, Zenon
<1>7. \E f : ShiftingDown(s, place, value, room, f)
    BY <1>6 DEF ShiftingDown
<1>8. PICK f : ShiftingDown(s, place, value, room, f) /\ (CHOOSE h : ShiftingDown(s, place, value, room, h)) = f
    BY <1>7
<1>9. \A i \in D : f[i] = IF i > place THEN s ELSE DownStep(f[i + 1], i, place, value, room)
    BY <1>8, Zenon DEF ShiftingDown
<1> DEFINE h == [j \in 0..place |-> f[high - j]]
<1>10. \A j \in 0..place : h[j] \in X
    <2>1. h[0] \in X
        <3>1. high - 0 \in D /\ high - 0 > place /\ 0 \in 0..place
            BY <1>0 DEF high
        <3> QED
            BY <3>1, <1>9 DEF X
    <2>2. ASSUME NEW j \in 1..place, h[j - 1] \in X PROVE h[j] \in X
        <3>1. /\ high - j \in D /\ ~ (high - j > place) /\ j \in 0..place /\ j - 1 \in 0..place
              /\ (high - j) + 1 = high - (j - 1) /\ high - j \in 1..place
            BY <1>0, <1>2
        <3>2. f[high - j] = DownStep(f[high - (j - 1)], high - j, place, value, room)
            BY <3>1, <1>9
        <3>3. h[j] = f[high - j] /\ h[j - 1] = f[high - (j - 1)]
            BY <3>1
        <3> QED
            BY <3>1, <3>2, <3>3, <2>2, <1>1
    <2> HIDE DEF h
    <2> QED
        BY <2>1, <2>2, IterationStays
<1>11. place \in 0..place /\ h[place] = f[1]
    BY <1>0
<1> QED
    BY <1>8, <1>10, <1>11 DEF X

\* One row of an update.
UpdateOne(idx, data, n, rs, value, behind, s, k) ==
    LET place == Find(s.copy, n, Cell(data, rs[k], behind), "GREATER_EQUAL", behind)
    IN  IF value > s.copy[place + 1]
        THEN IF n = 0 THEN s ELSE (CHOOSE f : ShiftingUp(s, n, place, value, idx.room, f))[n - 1]
        ELSE (CHOOSE f : ShiftingDown(s, place, value, idx.room, f))[1]

UpdateFirst(idx, n, behind) ==
    [copy |-> WithEnd(idx.copy, n, behind), positions |-> WithEnd(idx.positions, n, behind),
     fault |-> idx.fault]

\* f is the recursive function of SortUpdate.
UpdateTo(idx, data, n, rs, value, behind, f) ==
    f = [k \in 0..Len(rs) |-> IF k = 0 THEN UpdateFirst(idx, n, behind)
                              ELSE UpdateOne(idx, data, n, rs, value, behind, f[k - 1], k)]

\* The index with the arrays after the last row.
Updated(idx, n, s, behind) ==
    [idx EXCEPT !.copy = Filled(s.copy, n, behind), !.positions = Filled(s.positions, n, behind),
                !.fault = s.fault]

\* A row of an update keeps the types.
LEMMA UpdateOneType ==
    ASSUME NEW idx, NEW data, IntArray(data), NEW n \in Nat, NEW rs, NEW value \in Int,
           NEW behind \in Int, NEW faults, "overflow" \in faults, NEW s \in Updating(n, faults), NEW k
    PROVE  UpdateOne(idx, data, n, rs, value, behind, s, k) \in Updating(n, faults)
<1> DEFINE key == Cell(data, rs[k], behind)
           place == Find(s.copy, n, key, "GREATER_EQUAL", behind)
<1>1. key \in Int
    BY CellType
<1>2. IntArray(s.copy)
    BY FunctionArray DEF Updating
<1>3. place \in Nat /\ (n = 0 => place = 0) /\ (n # 0 => place \in Cells(n))
    <2> HIDE DEF key
    <2> QED
        BY <1>1, <1>2, FindPlace
<1>4. UpdateOne(idx, data, n, rs, value, behind, s, k)
          = IF value > s.copy[place + 1]
            THEN IF n = 0 THEN s ELSE (CHOOSE f : ShiftingUp(s, n, place, value, idx.room, f))[n - 1]
            ELSE (CHOOSE f : ShiftingDown(s, place, value, idx.room, f))[1]
    BY DEF UpdateOne
<1> HIDE DEF place
<1>5. n # 0 => (CHOOSE f : ShiftingUp(s, n, place, value, idx.room, f))[n - 1] \in Updating(n, faults)
    BY <1>3, UpType
<1>6. place <= n
    BY <1>3 DEF Cells
<1>7. (CHOOSE f : ShiftingDown(s, place, value, idx.room, f))[1] \in Updating(n, faults)
    BY <1>3, <1>6, DownType
<1> QED
    BY <1>4, <1>5, <1>7

\* The sorted copy keeps its type.
LEMMA SortUpdatePlain ==
    ASSUME NEW idx, Plain(idx), NEW data, IntArray(data), NEW n \in Nat, NEW rs, Len(rs) \in Nat,
           NEW value \in Int, NEW behind \in Int
    PROVE  Plain(SortUpdate(idx, data, n, rs, value, behind))
<1> DEFINE k == Len(rs)
           X == Updating(n, {idx.fault, "overflow"})
           x0 == UpdateFirst(idx, n, behind)
           step(s, i) == UpdateOne(idx, data, n, rs, value, behind, s, i)
           N == [p \in (1..k) \X X |-> step(p[2], p[1])]
<1>1. x0 \in X
    <2>1. \A a : IntArray(a) => WithEnd(a, n, behind) \in [Cells(n + 2) -> Int]
        <3> SUFFICES ASSUME NEW a, IntArray(a) PROVE WithEnd(a, n, behind) \in [Cells(n + 2) -> Int]
            OBVIOUS
        <3>1. Filled(a, n, behind) \in [Cells(n) -> Int]
            BY FilledType
        <3>2. IntArray(Filled(a, n, behind)) /\ n + 2 \in Int
            BY <3>1, FunctionArray
        <3> QED
            BY <3>2, FilledType DEF WithEnd
    <2> QED
        BY <2>1 DEF UpdateFirst, Updating, Plain
<1>2. ASSUME NEW s \in X, NEW i PROVE step(s, i) \in X
    BY UpdateOneType
<1>3. SortUpdate(idx, data, n, rs, value, behind)
          = Updated(idx, n, (CHOOSE f : UpdateTo(idx, data, n, rs, value, behind, f))[k], behind)
    BY DEF SortUpdate, UpdateTo, UpdateOne, UpdateFirst, Updated, ShiftingUp, ShiftingDown, UpStep, DownStep,
           UpdPut, UpdTake
<1> HIDE DEF X, x0, step
<1>4. Steps(N, k, X)
    BY <1>2 DEF Steps
<1>5. \A i \in 1..k, s \in X : N[<<i, s>>] = step(s, i)
    OBVIOUS
<1> HIDE DEF N, k
<1>6. k \in Nat
    BY DEF k
<1>7. PICK g \in [0..k -> X] : g = [i \in 0..k |-> IF i = 0 THEN x0 ELSE N[<<i, g[i - 1]>>]]
    BY <1>1, <1>4, <1>6, IterationSome, SMTT(60)
<1>8. g = [i \in 0..k |-> IF i = 0 THEN x0 ELSE step(g[i - 1], i)]
    <2>1. \A i \in 0..k : i # 0 => i \in 1..k /\ i - 1 \in 0..k
        BY <1>6
    <2>2. \A i \in 0..k : i # 0 => N[<<i, g[i - 1]>>] = step(g[i - 1], i)
        BY <2>1, <1>5, <1>7
    <2> QED
        BY <1>7, <2>2, Zenon
<1>9. \E f : UpdateTo(idx, data, n, rs, value, behind, f)
    BY <1>8 DEF UpdateTo, x0, step, k
<1>10. PICK f : /\ UpdateTo(idx, data, n, rs, value, behind, f)
                /\ SortUpdate(idx, data, n, rs, value, behind) = Updated(idx, n, f[k], behind)
    BY <1>3, <1>9
<1>11. f = [i \in 0..k |-> IF i = 0 THEN x0 ELSE step(f[i - 1], i)]
    BY <1>10, Zenon DEF UpdateTo, x0, step, k
<1>12. f[0] = x0 /\ \A i \in 1..k : f[i] = step(f[i - 1], i)
    <2>1. 0 \in 0..k /\ \A i \in 1..k : i \in 0..k /\ i # 0
        BY <1>6
    <2> QED
        BY <1>11, <2>1, Zenon
<1>13. \A i \in 0..k : f[i] \in X
    <2>1. \A i \in 1..k : f[i - 1] \in X => f[i] \in X
        BY <1>2, <1>12
    <2> QED
        BY <1>1, <1>6, <1>12, <2>1, IterationStays
<1> DEFINE s == f[k]
<1>14. s \in X
    BY <1>6, <1>13
<1> HIDE DEF s
<1>15. Plain(Updated(idx, n, s, behind))
    <2>1. IntArray(s.copy) /\ IntArray(s.positions)
        BY <1>14, FunctionArray DEF X, Updating
    <2> DEFINE copy == Filled(s.copy, n, behind)
               positions == Filled(s.positions, n, behind)
    <2>2. copy \in [Cells(n) -> Int] /\ positions \in [Cells(n) -> Int]
        BY <2>1, FilledType
    <2>3. Updated(idx, n, s, behind) = [idx EXCEPT !.copy = copy, !.positions = positions, !.fault = s.fault]
        BY DEF Updated
    <2> HIDE DEF copy, positions
    <2>4. IntArray(copy) /\ IntArray(positions)
        BY <2>2, FunctionArray
    <2> QED
        BY <2>3, <2>4 DEF Plain, IsIndex
<1> QED
    BY <1>10, <1>15 DEF s

-------------------------------------------------------------------------------
(* db_modify_sort_uncluster: types *)

\* The position of one more row is written where the search finds its value.
RefreshStep(copy, data, n, behind, p, i) ==
    [p EXCEPT ![Find(copy, n, data[i - 1], "GREATER_EQUAL", behind)] = i - 1]

\* f is the recursive function of Refreshed.
RefreshTo(idx, data, n, behind, f) ==
    f = [i \in 0..n |-> IF i = 0 THEN Filled(idx.positions, n, behind)
                        ELSE RefreshStep(idx.copy, data, n, behind, f[i - 1], i)]

\* f holds the positions after each row.
RefreshRun(idx, data, n, behind, f) ==
    /\ f[0] = Filled(idx.positions, n, behind)
    /\ \A i \in 1..n : f[i] = RefreshStep(idx.copy, data, n, behind, f[i - 1], i)
    /\ \A i \in 0..n : f[i] \in [Cells(n) -> Int]
    /\ Refreshed(idx, data, n, behind) = [idx EXCEPT !.positions = f[n]]

\* The loop of Refreshed, row by row.
LEMMA RefreshRuns ==
    ASSUME NEW idx, Plain(idx), idx.type = "UNCLUSTER_SORT", idx.built,
           NEW data, NEW n \in Nat, NEW behind \in Int
    PROVE  \E f : RefreshRun(idx, data, n, behind, f)
<1> DEFINE X == [Cells(n) -> Int]
           x0 == Filled(idx.positions, n, behind)
           step(s, i) == RefreshStep(idx.copy, data, n, behind, s, i)
           N == [p \in (1..n) \X X |-> step(p[2], p[1])]
           result(p) == [idx EXCEPT !.positions = p]
<1>1. x0 \in X
    BY FilledType DEF Plain
<1>2. ASSUME NEW s \in X, NEW i \in 1..n PROVE step(s, i) \in X
    <2>1. \A q, v : v \in Int => [s EXCEPT ![q] = v] \in X
        OBVIOUS
    <2>2. i - 1 \in Int
        OBVIOUS
    <2> HIDE DEF X
    <2> QED
        BY <2>1, <2>2 DEF RefreshStep
<1>3. Refreshed(idx, data, n, behind) = result((CHOOSE f : RefreshTo(idx, data, n, behind, f))[n])
    BY DEF Refreshed, RefreshTo, RefreshStep
<1> HIDE DEF X, x0, step
<1>4. Steps(N, n, X)
    BY <1>2 DEF Steps
<1>5. \A i \in 1..n, s \in X : N[<<i, s>>] = step(s, i)
    OBVIOUS
<1> HIDE DEF N
<1>7. PICK g \in [0..n -> X] : g = [i \in 0..n |-> IF i = 0 THEN x0 ELSE N[<<i, g[i - 1]>>]]
    BY <1>1, <1>4, IterationSome
<1>8. g = [i \in 0..n |-> IF i = 0 THEN x0 ELSE step(g[i - 1], i)]
    <2>1. \A i \in 0..n : i # 0 => i \in 1..n /\ i - 1 \in 0..n
        OBVIOUS
    <2>2. \A i \in 0..n : i # 0 => N[<<i, g[i - 1]>>] = step(g[i - 1], i)
        BY <2>1, <1>5, <1>7
    <2> QED
        BY <1>7, <2>2, Zenon
<1>9. \E f : RefreshTo(idx, data, n, behind, f)
    BY <1>8 DEF RefreshTo, x0, step
<1> HIDE DEF result
<1>10. PICK f : RefreshTo(idx, data, n, behind, f) /\ Refreshed(idx, data, n, behind) = result(f[n])
    BY <1>3, <1>9
<1>11. f = [i \in 0..n |-> IF i = 0 THEN x0 ELSE step(f[i - 1], i)]
    BY <1>10, Zenon DEF RefreshTo, x0, step
<1>12. f[0] = x0 /\ \A i \in 1..n : f[i] = step(f[i - 1], i)
    <2>1. 0 \in 0..n /\ \A i \in 1..n : i \in 0..n /\ i # 0
        OBVIOUS
    <2> QED
        BY <1>11, <2>1, Zenon
<1>13. \A i \in 0..n : f[i] \in X
    <2>1. \A i \in 1..n : f[i - 1] \in X => f[i] \in X
        BY <1>2, <1>12
    <2> QED
        BY <1>1, <1>12, <2>1, IterationStays
<1> QED
    BY <1>10, <1>12, <1>13 DEF RefreshRun, result, x0, X, step

\* The sorted copy keeps its type.
LEMMA RefreshedPlain ==
    ASSUME NEW idx, Plain(idx), idx.type = "UNCLUSTER_SORT",
           NEW data, NEW n \in Nat, NEW behind \in Int
    PROVE  Plain(Refreshed(idx, data, n, behind))
<1>1. CASE ~ idx.built
    BY <1>1, FaultPlain DEF Refreshed
<1>2. CASE idx.built
    <2>1. PICK f : RefreshRun(idx, data, n, behind, f)
        BY <1>2, RefreshRuns
    <2>2. IntArray(f[n])
        BY <2>1, FunctionArray DEF RefreshRun
    <2>3. Plain([idx EXCEPT !.positions = f[n]])
        BY <2>2 DEF Plain, IsIndex
    <2> QED
        BY <2>1, <2>3 DEF RefreshRun
<1> QED
    BY <1>1, <1>2

-------------------------------------------------------------------------------
(* An array gets one more cell *)

\* An array of n cells with one more, v at place p.
Wider(a, n, p, v) ==
    [j \in Cells(n + 1) |-> IF j < p THEN a[j] ELSE IF j = p THEN v ELSE a[j - 1]]

\* A wider array, cell by cell.
LEMMA WiderCells ==
    ASSUME NEW n \in Nat, NEW a, NEW p \in 0..n, NEW v
    PROVE  /\ Wider(a, n, p, v)[p] = v
           /\ \A j \in Cells(n + 1) : j < p => Wider(a, n, p, v)[j] = a[j] /\ j \in Cells(n)
           /\ \A j \in Cells(n + 1) : j > p => Wider(a, n, p, v)[j] = a[j - 1] /\ j - 1 \in Cells(n)
BY DEF Wider, Cells

\* Its cells have the types of the cells of the array.
LEMMA WiderType ==
    ASSUME NEW n \in Nat, NEW T, NEW a \in [Cells(n) -> T], NEW p \in 0..n, NEW v \in T
    PROVE  Wider(a, n, p, v) \in [Cells(n + 1) -> T]
<1> DEFINE w == Wider(a, n, p, v)
<1>1. ASSUME NEW j \in Cells(n + 1) PROVE w[j] \in T
    <2>1. /\ w[p] = v
          /\ j < p => w[j] = a[j] /\ j \in Cells(n)
          /\ j > p => w[j] = a[j - 1] /\ j - 1 \in Cells(n)
        BY DEF Wider, Cells
    <2>2. j < p \/ j = p \/ j > p
        BY DEF Cells
    <2> HIDE DEF w
    <2> QED
        BY <2>1, <2>2
<1>2. w = [j \in Cells(n + 1) |-> w[j]]
    BY DEF Wider
<1> HIDE DEF w
<1> QED
    BY <1>1, <1>2 DEF w

\* What the loops leave that open a gap.
LEMMA OpenedIs ==
    ASSUME NEW n \in Nat, NEW a, DOMAIN a = Cells(n), NEW p \in 0..n, NEW v, NEW behind
    PROVE  Opened(Filled(a, n + 1, behind), p, n, v) = Wider(a, n, p, v)
<1> DEFINE w == Wider(a, n, p, v)
           b == Filled(a, n + 1, behind)
           o == Opened(b, p, n, v)
<1>1. DOMAIN b = Cells(n + 1) /\ \A j \in Cells(n) : b[j] = a[j]
    <2>1. \A j \in Cells(n) : j \in Cells(n + 1)
        BY DEF Cells
    <2> QED
        BY <2>1 DEF Filled, Cell
<1>2. o = [j \in Cells(n + 1) |-> IF j = p THEN v ELSE IF j \in (p + 1)..n THEN b[j - 1] ELSE b[j]]
    BY <1>1 DEF Opened
<1> HIDE DEF b
<1>3. \A j \in Cells(n + 1) : o[j] = w[j]
    <2> SUFFICES ASSUME NEW j \in Cells(n + 1) PROVE o[j] = w[j]
        OBVIOUS
    <2>1. /\ w[p] = v
          /\ j < p => w[j] = a[j] /\ j \in Cells(n)
          /\ j > p => w[j] = a[j - 1] /\ j - 1 \in Cells(n)
        BY WiderCells
    <2> HIDE DEF w
    <2>2. CASE j = p
        BY <1>2, <2>1, <2>2
    <2>3. CASE j < p
        <3>1. j \notin (p + 1)..n /\ j # p
            BY <2>3
        <3> QED
            BY <1>1, <1>2, <2>1, <2>3, <3>1
    <2>4. CASE j > p
        <3>1. j \in (p + 1)..n /\ j # p
            BY <2>4 DEF Cells
        <3> QED
            BY <1>1, <1>2, <2>1, <2>4, <3>1
    <2> QED
        BY <2>2, <2>3, <2>4 DEF Cells
<1>4. o = [j \in Cells(n + 1) |-> o[j]] /\ w = [j \in Cells(n + 1) |-> w[j]]
    BY <1>2 DEF Wider
<1> HIDE DEF o, w
<1>5. o = w
    BY <1>3, <1>4
<1> QED
    BY <1>5 DEF o, w, b

\* Nothing more is cut from it.
LEMMA FilledSame ==
    ASSUME NEW n \in Int, NEW a \in [Cells(n) -> Int], NEW behind
    PROVE  Filled(a, n, behind) = a
BY DEF Filled, Cell

\* The value fits between its neighbours.
Between(a, n, p, v) ==
    /\ \A j \in Cells(n) : j < p => a[j] <= v
    /\ \A j \in Cells(n) : j >= p => v <= a[j]

\* An array stays in order.
LEMMA WiderAscends ==
    ASSUME NEW n \in Nat, NEW a, Ascends(a, n), NEW p \in 0..n, NEW v \in Int, Between(a, n, p, v)
    PROVE  Ascends(Wider(a, n, p, v), n + 1)
<1> DEFINE w == Wider(a, n, p, v)
<1>1. w \in [Cells(n + 1) -> Int]
    BY WiderType DEF Ascends
<1>2. /\ w[p] = v
      /\ \A j \in Cells(n + 1) : j < p => w[j] = a[j] /\ j \in Cells(n)
      /\ \A j \in Cells(n + 1) : j > p => w[j] = a[j - 1] /\ j - 1 \in Cells(n)
    <2>1. w[p] = v
        BY DEF Wider, Cells
    <2>2. \A j \in Cells(n + 1) : j < p => w[j] = a[j] /\ j \in Cells(n)
        BY WiderCells
    <2>3. \A j \in Cells(n + 1) : j > p => w[j] = a[j - 1] /\ j - 1 \in Cells(n)
        BY WiderCells
    <2> QED
        BY <2>1, <2>2, <2>3
<1> HIDE DEF w
<1>3. ASSUME NEW i \in Cells(n + 1), NEW j \in Cells(n + 1), i <= j PROVE w[i] <= w[j]
    <2>0. i \in Int /\ j \in Int /\ w[i] \in Int /\ w[j] \in Int
        BY <1>1 DEF Cells
    <2>1. CASE i = j
        BY <2>0, <2>1
    <2>2. CASE i < j /\ j < p
        <3>1. w[i] = a[i] /\ w[j] = a[j] /\ i \in Cells(n) /\ j \in Cells(n)
            BY <1>2, <2>0, <2>2
        <3> QED
            BY <1>3, <3>1 DEF Ascends
    <2>3. CASE i < j /\ j = p
        <3>1. w[i] = a[i] /\ i \in Cells(n)
            BY <1>2, <2>0, <2>3
        <3> QED
            BY <1>2, <2>3, <3>1 DEF Between
    <2>4. CASE i = p /\ p < j
        <3>1. w[j] = a[j - 1] /\ j - 1 \in Cells(n) /\ j - 1 >= p
            BY <1>2, <2>0, <2>4
        <3> QED
            BY <1>2, <2>4, <3>1 DEF Between
    <2>5. CASE i < p /\ p < j
        <3>1. w[i] = a[i] /\ i \in Cells(n) /\ w[j] = a[j - 1] /\ j - 1 \in Cells(n) /\ i <= j - 1
            BY <1>2, <2>0, <2>5
        <3> QED
            BY <3>1 DEF Ascends
    <2>6. CASE i < j /\ p < i
        <3>1. /\ w[i] = a[i - 1] /\ i - 1 \in Cells(n) /\ w[j] = a[j - 1] /\ j - 1 \in Cells(n)
              /\ i - 1 <= j - 1
            BY <1>2, <2>0, <2>6
        <3> QED
            BY <3>1 DEF Ascends
    <2> QED
        BY <1>3, <2>0, <2>1, <2>2, <2>3, <2>4, <2>5, <2>6
<1> QED
    BY <1>1, <1>3 DEF Ascends, w

\* Where a place goes when a gap opens at p, and where it came from.
Up(i, p) == IF i >= p THEN i + 1 ELSE i

Back(j, p) == IF j < p THEN j ELSE j - 1

\* Places go up one by one, none to the gap.
LEMMA UpPlaces ==
    ASSUME NEW n \in Nat, NEW p \in 0..n
    PROVE  /\ \A i \in Cells(n) : Up(i, p) \in Cells(n + 1) /\ Up(i, p) # p /\ Back(Up(i, p), p) = i
           /\ \A i, j \in Cells(n) : Up(i, p) = Up(j, p) => i = j
           /\ \A j \in Cells(n + 1) : j # p => Back(j, p) \in Cells(n) /\ Up(Back(j, p), p) = j
BY DEF Up, Back, Cells

\* A wider array holds what it held, one place up behind the gap.
LEMMA WiderBack ==
    ASSUME NEW n \in Nat, NEW a, NEW p \in 0..n, NEW v
    PROVE  /\ \A j \in Cells(n + 1) : j # p => Wider(a, n, p, v)[j] = a[Back(j, p)]
           /\ \A i \in Cells(n) : Wider(a, n, p, v)[Up(i, p)] = a[i]
           /\ Wider(a, n, p, v)[p] = v
<1>1. \A j \in Cells(n + 1) : j # p => Wider(a, n, p, v)[j] = a[Back(j, p)]
    BY DEF Wider, Back, Cells
<1>2. Wider(a, n, p, v)[p] = v
    BY DEF Wider, Cells
<1>3. ASSUME NEW i \in Cells(n) PROVE Wider(a, n, p, v)[Up(i, p)] = a[i]
    <2>1. Up(i, p) \in Cells(n + 1) /\ Up(i, p) # p /\ Back(Up(i, p), p) = i
        BY UpPlaces
    <2> QED
        BY <1>1, <2>1
<1> QED
    BY <1>1, <1>2, <1>3

\* A sorted copy takes a value of the column with its place.
LEMMA MirrorsWider ==
    ASSUME NEW n \in Nat, NEW copy, NEW positions, NEW data \in [Cells(n) -> Int],
           Mirrors(copy, positions, data, n),
           NEW pos \in 0..n, NEW q \in 0..n, NEW v \in Int, Between(copy, n, q, v),
           NEW moved, moved = [j \in Cells(n) |-> Up(positions[j], pos)]
    PROVE  Mirrors(Wider(copy, n, q, v), Wider(moved, n, q, pos), Wider(data, n, pos, v), n + 1)
<1> DEFINE C == Wider(copy, n, q, v)
           P == Wider(moved, n, q, pos)
           D == Wider(data, n, pos, v)
<1>1. /\ Ascends(copy, n) /\ positions \in [Cells(n) -> Cells(n)]
      /\ \A i, j \in Cells(n) : positions[i] = positions[j] => i = j
      /\ \A r \in Cells(n) : \E i \in Cells(n) : positions[i] = r
      /\ \A i \in Cells(n) : copy[i] = data[positions[i]]
    BY DEF Mirrors
<1>2. Ascends(C, n + 1)
    BY <1>1, WiderAscends
<1>3. moved \in [Cells(n) -> Cells(n + 1)]
    BY <1>1, UpPlaces
<1>4. P \in [Cells(n + 1) -> Cells(n + 1)]
    <2>1. pos \in Cells(n + 1)
        BY DEF Cells
    <2> QED
        BY <1>3, <2>1, WiderType
<1>5. P[q] = pos /\ C[q] = v /\ D[pos] = v
    BY DEF Wider, Cells
<1>6. /\ \A j \in Cells(n + 1) : j # q => P[j] = moved[Back(j, q)]
      /\ \A j \in Cells(n + 1) : j # q => C[j] = copy[Back(j, q)]
      /\ \A i \in Cells(n) : D[Up(i, pos)] = data[i]
    <2>1. \A j \in Cells(n + 1) : j # q => P[j] = moved[Back(j, q)]
        BY WiderBack
    <2>2. \A j \in Cells(n + 1) : j # q => C[j] = copy[Back(j, q)]
        BY WiderBack
    <2>3. \A i \in Cells(n) : D[Up(i, pos)] = data[i]
        BY WiderBack
    <2> QED
        BY <2>1, <2>2, <2>3
<1> HIDE DEF C, P, D
<1>7. \A j \in Cells(n + 1) : j # q =>
          /\ Back(j, q) \in Cells(n) /\ Up(Back(j, q), q) = j
          /\ positions[Back(j, q)] \in Cells(n)
          /\ P[j] = Up(positions[Back(j, q)], pos) /\ P[j] # pos
          /\ C[j] = D[P[j]]
    <2> SUFFICES ASSUME NEW j \in Cells(n + 1), j # q
                 PROVE  /\ Back(j, q) \in Cells(n) /\ Up(Back(j, q), q) = j
                        /\ positions[Back(j, q)] \in Cells(n)
                        /\ P[j] = Up(positions[Back(j, q)], pos) /\ P[j] # pos
                        /\ C[j] = D[P[j]]
        OBVIOUS
    <2>1. Back(j, q) \in Cells(n) /\ Up(Back(j, q), q) = j
        BY UpPlaces
    <2> DEFINE b == Back(j, q)
    <2>2. P[j] = moved[b] /\ C[j] = copy[b]
        BY <1>6
    <2> HIDE DEF b
    <2>3. b \in Cells(n)
        BY <2>1 DEF b
    <2> DEFINE x == positions[b]
    <2>4. x \in Cells(n) /\ moved[b] = Up(x, pos) /\ copy[b] = data[x]
        BY <1>1, <2>3
    <2> HIDE DEF x
    <2>5. Up(x, pos) # pos
        BY <2>4, UpPlaces
    <2>6. D[Up(x, pos)] = data[x]
        BY <1>6, <2>4
    <2> QED
        BY <2>1, <2>2, <2>4, <2>5, <2>6 DEF b, x
<1>8. ASSUME NEW i \in Cells(n + 1), NEW j \in Cells(n + 1), P[i] = P[j] PROVE i = j
    <2>1. CASE i = q \/ j = q
        BY <1>5, <1>7, <1>8, <2>1
    <2>2. CASE i # q /\ j # q
        <3>1. positions[Back(i, q)] = positions[Back(j, q)]
            BY <1>7, <1>8, <2>2, UpPlaces, SMTT(60)
        <3>2. Back(i, q) = Back(j, q)
            BY <1>1, <1>7, <2>2, <3>1
        <3> QED
            BY <1>7, <2>2, <3>2
    <2> QED
        BY <2>1, <2>2
<1>9. ASSUME NEW r \in Cells(n + 1) PROVE \E j \in Cells(n + 1) : P[j] = r
    <2>1. CASE r = pos
        <3>1. q \in Cells(n + 1)
            BY DEF Cells
        <3> QED
            BY <1>5, <2>1, <3>1
    <2>2. CASE r # pos
        <3>1. Back(r, pos) \in Cells(n) /\ Up(Back(r, pos), pos) = r
            BY <2>2, UpPlaces
        <3>2. PICK i \in Cells(n) : positions[i] = Back(r, pos)
            BY <1>1, <3>1
        <3>3. Up(i, q) \in Cells(n + 1) /\ Up(i, q) # q /\ Back(Up(i, q), q) = i
            BY UpPlaces
        <3>4. P[Up(i, q)] = Up(positions[i], pos)
            BY <1>7, <3>3
        <3> QED
            BY <3>1, <3>2, <3>3, <3>4
    <2> QED
        BY <2>1, <2>2
<1>10. ASSUME NEW j \in Cells(n + 1) PROVE C[j] = D[P[j]]
    BY <1>5, <1>7
<1> QED
    BY <1>2, <1>4, <1>8, <1>9, <1>10 DEF Mirrors, C, P, D

-------------------------------------------------------------------------------
(* An array loses cells *)

\* The cells of an array without the one at p.
Narrow(a, n, p) == [j \in Cells(n) |-> a[Up(j, p)]]

\* Of the rows to delete only the first may have others behind it.
Trails(rs, n) ==
    /\ rs \in Seq(Int)
    /\ Len(rs) \in 1..n
    /\ rs[1] \in 0..(n - Len(rs))
    /\ \A i \in 2..Len(rs) : rs[i] = n - Len(rs) + i - 1

\* The place of a value that is in an array once.
LEMMA FindPresent ==
    ASSUME NEW n \in Nat, NEW a, Ascends(a, n), NEW t \in Cells(n),
           \A j \in Cells(n) : a[j] = a[t] => j = t, NEW behind \in Int
    PROVE  Find(a, n, a[t], "GREATER_EQUAL", behind) = t
<1>1. PICK v : v = a[t]
    OBVIOUS
<1>2. n # 0 /\ v \in Int /\ t \in 0..(n - 1) /\ \A i, j \in Cells(n) : i <= j => a[i] <= a[j]
    BY <1>1 DEF Ascends, Cells
<1> DEFINE p == Find(a, n, v, "GREATER_EQUAL", behind)
<1>3. /\ p \in Cells(n)
      /\ p = 0 \/ a[p] <= v
      /\ p = n - 1 \/ v <= a[p] \/ v < a[p + 1]
    BY <1>2, FindFirst
<1> HIDE DEF p
<1>4. p <= t
    <2> SUFFICES ASSUME t < p PROVE FALSE
        BY <1>2, <1>3 DEF Cells
    <2>1. a[p] <= v /\ a[t] <= a[p] /\ a[p] \in Int
        BY <1>2, <1>3 DEF Cells, Ascends
    <2>2. a[p] = a[t]
        BY <1>1, <1>2, <2>1
    <2>3. p = t
        BY <1>3, <2>2
    <2> QED
        BY <1>2, <2>3
<1>5. t <= p
    <2> SUFFICES ASSUME p < t PROVE FALSE
        BY <1>2, <1>3 DEF Cells
    <2>1. p + 1 \in Cells(n) /\ p + 1 <= t /\ p <= t /\ p # n - 1
        BY <1>2, <1>3 DEF Cells
    <2>2. a[p] <= v /\ a[p + 1] <= v /\ a[p] \in Int /\ a[p + 1] \in Int
        BY <1>1, <1>2, <1>3, <2>1 DEF Ascends
    <2>3. a[p] = v
        BY <1>2, <1>3, <2>1, <2>2
    <2>4. p = t
        BY <1>1, <1>3, <2>3
    <2> QED
        BY <1>2, <2>4
<1> QED
    BY <1>1, <1>2, <1>3, <1>4, <1>5 DEF p, Cells

\* What is left of a sorted copy after i rows: its entries are those of the
\* other rows, g says of which; behind them is what the loop found behind the
\* arrays.  A row in front of the last ones has the position it will have.
Left(s, g, data, n, rs, i, behind) ==
    /\ g \in [Cells(n - i) -> Cells(n)]
    /\ \A j, l \in Cells(n - i) : g[j] = g[l] => j = l
    /\ \A r \in Cells(n) : (\E j \in Cells(n - i) : g[j] = r) <=> (\A e \in 1..i : r # rs[e])
    /\ \A j \in Cells(n - i) : s.copy[j] = data[g[j]]
    /\ \A j, l \in Cells(n - i) : j <= l => s.copy[j] <= s.copy[l]
    /\ \A j \in Cells(n) : j >= n - i => s.copy[j] = behind
    /\ \A j \in Cells(n - i) :
           g[j] <= n - Len(rs) => s.positions[j] = IF i = 0 THEN g[j] ELSE Back(g[j], rs[1])

\* The rows that SortDelete can find: their values are in no other row, and
\* what is behind the arrays is greater than all where it is looked at.
Findable(data, n, rs, behind) ==
    /\ \A i \in 1..Len(rs), j \in Cells(n) : data[j] = data[rs[i]] => j = rs[i]
    /\ Len(rs) = 1 \/ \A j \in Cells(n) : data[j] < behind

\* Behind m cells of a copy is what the loop found behind the arrays.
Ended(s, n, m, behind) == \A j \in Cells(n) : j >= m => s.copy[j] = behind

\* The entry in cell t has gone, and the positions behind row r moved up.
Taken(s, new, m, t, r) ==
    \A j \in Cells(m - 1) :
        /\ new.copy[j] = s.copy[Up(j, t)]
        /\ new.positions[j] = IF s.positions[Up(j, t)] > r
                              THEN s.positions[Up(j, t)] - 1 ELSE s.positions[Up(j, t)]

\* One step of SortDelete, cell by cell, when the search finds cell t.
LEMMA GoneStepCells ==
    ASSUME NEW n \in Nat, NEW behind \in Int, NEW data, NEW rs, NEW s \in Halfway(n),
           NEW i \in 1..n, NEW m, m = n - i + 1, NEW t \in Cells(m),
           t = Find(s.copy, n, Cell(data, rs[i], behind), "GREATER_EQUAL", behind),
           Ended(s, n, m, behind),
           NEW new, new = GoneStep(data, n, rs, behind, s, i)
    PROVE  Taken(s, new, m, t, rs[i]) /\ Ended(new, n, m - 1, behind)
<1> DEFINE copy == [j \in Cells(n) |-> IF j \in t..(m - 1)
                     THEN IF j + 1 < n THEN s.copy[j + 1] ELSE behind ELSE s.copy[j]]
           entry == [j \in Cells(n) |-> IF j \in t..(m - 1)
                     THEN IF j + 1 < n THEN s.positions[j + 1] ELSE behind
                     ELSE s.positions[j]]
           positions == [j \in Cells(n) |->
                            IF j < (IF m > t THEN m ELSE t) /\ entry[j] > rs[i]
                            THEN entry[j] - 1 ELSE entry[j]]
<1>1. GoneStep(data, n, rs, behind, s, i) = [copy |-> copy, positions |-> positions]
    BY DEF GoneStep
<1>2. m \in 1..n /\ t \in 0..(m - 1) /\ m > t
    BY DEF Cells
<1>3. ASSUME NEW j \in Cells(m - 1)
      PROVE  /\ copy[j] = s.copy[Up(j, t)]
             /\ entry[j] = s.positions[Up(j, t)]
             /\ j \in Cells(n) /\ j < m
    <2>1. j \in Cells(n) /\ j < m /\ j + 1 < n /\ j \in Int
        BY <1>2 DEF Cells
    <2>2. j \in t..(m - 1) <=> j >= t
        BY <1>2, <2>1 DEF Cells
    <2> QED
        BY <2>1, <2>2 DEF Up
<1>4. ASSUME NEW j \in Cells(n), j >= m - 1 PROVE copy[j] = behind
    <2>1. CASE j = m - 1
        <3>1. j \in t..(m - 1)
            BY <1>2, <2>1
        <3>2. j + 1 < n => j + 1 \in Cells(n) /\ j + 1 >= m
            BY <1>2, <2>1 DEF Cells
        <3> QED
            BY <3>1, <3>2 DEF Ended
    <2>2. CASE j # m - 1
        <3>1. j >= m /\ ~ (j \in t..(m - 1))
            BY <1>2, <1>4, <2>2 DEF Cells
        <3> QED
            BY <3>1 DEF Ended
    <2> QED
        BY <2>1, <2>2
<1> HIDE DEF copy, entry
<1>5. ASSUME NEW j \in Cells(m - 1)
      PROVE  positions[j] = IF s.positions[Up(j, t)] > rs[i]
                            THEN s.positions[Up(j, t)] - 1 ELSE s.positions[Up(j, t)]
    BY <1>2, <1>3
<1> HIDE DEF positions
<1> QED
    BY <1>1, <1>3, <1>4, <1>5 DEF Taken, Ended

\* Each step takes the entry of its row.
LEMMA LeftStep ==
    ASSUME NEW n \in Nat, NEW behind \in Int, NEW data \in [Cells(n) -> Int],
           NEW rs, Trails(rs, n), Len(rs) < n, Findable(data, n, rs, behind),
           NEW i \in 1..n, i <= Len(rs), NEW s \in Halfway(n), NEW g, Left(s, g, data, n, rs, i - 1, behind)
    PROVE  \E h : Left(GoneStep(data, n, rs, behind, s, i), h, data, n, rs, i, behind)
<1>0. PICK k, p, m : k = Len(rs) /\ p = rs[1] /\ m = n - i + 1
    OBVIOUS
<1>1. /\ k \in 1..(n - 1) /\ p \in 0..(n - k) /\ i \in 1..k /\ i \in 1..n /\ m \in 1..n /\ m - 1 \in Nat
      /\ n - (i - 1) = m /\ n - i = m - 1
      /\ \A e \in 2..k : rs[e] = n - k + e - 1
    BY <1>0 DEF Trails
<1>2. /\ g \in [Cells(m) -> Cells(n)]
      /\ \A j, l \in Cells(m) : g[j] = g[l] => j = l
      /\ \A r \in Cells(n) : (\E j \in Cells(m) : g[j] = r) <=> (\A e \in 1..(i - 1) : r # rs[e])
      /\ \A j \in Cells(m) : s.copy[j] = data[g[j]]
      /\ \A j, l \in Cells(m) : j <= l => s.copy[j] <= s.copy[l]
      /\ \A j \in Cells(n) : j >= m => s.copy[j] = behind
      /\ \A j \in Cells(m) :
             g[j] <= n - k => s.positions[j] = IF i - 1 = 0 THEN g[j] ELSE Back(g[j], p)
    <2> USE <1>0, <1>1
    <2> QED
        BY DEF Left
<1>3. /\ s.copy \in [Cells(n) -> Int] /\ s.positions \in [Cells(n) -> Int]
    BY DEF Halfway
<1>4. rs[i] \in Cells(n) /\ \A e \in 1..(i - 1) : rs[e] # rs[i]
    <2>1. CASE i = 1
        BY <1>0, <1>1, <2>1 DEF Cells
    <2>2. CASE i # 1
        <3>1. rs[i] = n - k + i - 1
            BY <1>1, <2>2
        <3>2. ASSUME NEW e \in 1..(i - 1) PROVE rs[e] # rs[i]
            <4>1. CASE e = 1
                BY <1>0, <1>1, <2>2, <3>1, <4>1
            <4>2. CASE e # 1
                BY <1>1, <3>1, <4>2
            <4> QED
                BY <4>1, <4>2
        <3> QED
            BY <1>1, <3>1, <3>2 DEF Cells
    <2> QED
        BY <2>1, <2>2
<1>5. PICK t \in Cells(m) : g[t] = rs[i]
    BY <1>2, <1>4
<1>6. Cells(m) \subseteq Cells(n) /\ \A j \in Cells(n) : j >= m \/ j \in Cells(m)
    BY <1>1 DEF Cells
<1>7. \A j \in Cells(n) : j >= m => \A l \in Cells(m) : s.copy[l] < behind
    <2> SUFFICES ASSUME NEW j \in Cells(n), j >= m, NEW l \in Cells(m) PROVE s.copy[l] < behind
        OBVIOUS
    <2>1. k # 1
        BY <1>1 DEF Cells
    <2>2. \A x \in Cells(n) : data[x] < behind
        BY <1>0, <2>1 DEF Findable
    <2> QED
        BY <1>2, <2>2
<1>8. Ascends(s.copy, n)
    <2> SUFFICES ASSUME NEW j \in Cells(n), NEW l \in Cells(n), j <= l PROVE s.copy[j] <= s.copy[l]
        BY <1>3 DEF Ascends
    <2>1. CASE l \in Cells(m)
        <3>1. j \in Cells(m)
            BY <1>1, <2>1 DEF Cells
        <3> QED
            BY <1>2, <2>1, <3>1
    <2>2. CASE l >= m
        <3>1. s.copy[l] = behind
            BY <1>2, <2>2
        <3>2. j \in Cells(m) => s.copy[j] < behind
            BY <1>7, <2>2
        <3>3. j >= m => s.copy[j] = behind
            BY <1>2
        <3> QED
            BY <1>3, <1>6, <3>1, <3>2, <3>3
    <2> QED
        BY <1>6, <2>1, <2>2
<1>9. Cell(data, rs[i], behind) = s.copy[t]
    BY <1>2, <1>4, <1>5 DEF Cell
<1>10. \A j \in Cells(n) : s.copy[j] = s.copy[t] => j = t
    <2> SUFFICES ASSUME NEW j \in Cells(n), s.copy[j] = s.copy[t] PROVE j = t
        OBVIOUS
    <2>1. CASE j \in Cells(m)
        <3>1. data[g[j]] = data[rs[i]] /\ g[j] \in Cells(n)
            BY <1>2, <1>5, <2>1
        <3>2. g[j] = rs[i]
            BY <3>1 DEF Findable
        <3> QED
            BY <1>2, <1>5, <2>1, <3>2
    <2>2. CASE j >= m
        <3>1. s.copy[j] = behind /\ s.copy[t] < behind
            BY <1>2, <1>7, <2>2
        <3> QED
            BY <3>1
    <2> QED
        BY <1>6, <2>1, <2>2
<1>11. t = Find(s.copy, n, Cell(data, rs[i], behind), "GREATER_EQUAL", behind)
    <2>1. PICK a : a = s.copy
        OBVIOUS
    <2>2. t \in Cells(n) /\ Ascends(a, n) /\ \A j \in Cells(n) : a[j] = a[t] => j = t
        BY <1>6, <1>8, <1>10, <2>1
    <2>3. Find(a, n, a[t], "GREATER_EQUAL", behind) = t
        BY <2>2, FindPresent
    <2> QED
        BY <1>9, <2>1, <2>3
<1>a. PICK new : new = GoneStep(data, n, rs, behind, s, i)
    OBVIOUS
<1> DEFINE h == Narrow(g, m - 1, t)
<1>12. /\ \A j \in Cells(m - 1) :
              /\ new.copy[j] = s.copy[Up(j, t)]
              /\ new.positions[j] = IF s.positions[Up(j, t)] > rs[i]
                                    THEN s.positions[Up(j, t)] - 1 ELSE s.positions[Up(j, t)]
       /\ \A j \in Cells(n) : j >= m - 1 => new.copy[j] = behind
    <2>1. m = n - i + 1 /\ i \in 1..n
        BY <1>0, <1>1
    <2>2. Ended(s, n, m, behind)
        BY <1>2 DEF Ended
    <2>3. s \in Halfway(n) /\ n \in Nat /\ behind \in Int /\ t \in Cells(m)
        OBVIOUS
    <2>4. Taken(s, new, m, t, rs[i]) /\ Ended(new, n, m - 1, behind)
        BY <1>a, <2>1, <2>2, <2>3, <1>11, GoneStepCells
    <2> QED
        BY <2>4 DEF Taken, Ended
<1>13. /\ \A j \in Cells(m - 1) : Up(j, t) \in Cells(m) /\ Up(j, t) # t
       /\ \A j, l \in Cells(m - 1) : Up(j, t) = Up(l, t) => j = l
       /\ \A x \in Cells(m) : x # t => Back(x, t) \in Cells(m - 1) /\ Up(Back(x, t), t) = x
       /\ \A j, l \in Cells(m - 1) : j <= l => Up(j, t) <= Up(l, t)
    <2>0. PICK w \in Nat : w = m - 1
        BY <1>1
    <2>1. t \in 0..w /\ w + 1 = m
        BY <1>1, <2>0 DEF Cells
    <2>a. /\ \A j \in Cells(w) : Up(j, t) \in Cells(w + 1) /\ Up(j, t) # t
          /\ \A j, l \in Cells(w) : Up(j, t) = Up(l, t) => j = l
          /\ \A x \in Cells(w + 1) : x # t => Back(x, t) \in Cells(w) /\ Up(Back(x, t), t) = x
        BY <2>1, UpPlaces
    <2>2. /\ \A j \in Cells(m - 1) : Up(j, t) \in Cells(m) /\ Up(j, t) # t
          /\ \A j, l \in Cells(m - 1) : Up(j, t) = Up(l, t) => j = l
          /\ \A x \in Cells(m) : x # t => Back(x, t) \in Cells(m - 1) /\ Up(Back(x, t), t) = x
        BY <2>0, <2>1, <2>a
    <2>3. \A j, l \in Cells(m - 1) : j <= l => Up(j, t) <= Up(l, t)
        BY <1>1, <2>0, <2>1 DEF Up, Cells
    <2> QED
        BY <2>2, <2>3
<1>14. \A j \in Cells(m - 1) : h[j] = g[Up(j, t)] /\ h[j] \in Cells(n)
    BY <1>2, <1>13 DEF Narrow
<1>15. h \in [Cells(m - 1) -> Cells(n)]
    BY <1>14 DEF Narrow
<1> HIDE DEF h
<1>16. \A j, l \in Cells(m - 1) : h[j] = h[l] => j = l
    BY <1>2, <1>13, <1>14
<1>17. ASSUME NEW r \in Cells(n)
       PROVE  (\E j \in Cells(m - 1) : h[j] = r) <=> (\A e \in 1..i : r # rs[e])
    <2>1. ASSUME NEW j \in Cells(m - 1), h[j] = r PROVE \A e \in 1..i : r # rs[e]
        <3>1. Up(j, t) \in Cells(m) /\ g[Up(j, t)] = r /\ Up(j, t) # t
            BY <1>13, <1>14, <2>1
        <3>2. \A e \in 1..(i - 1) : r # rs[e]
            BY <1>2, <3>1
        <3>3. r # rs[i]
            BY <1>2, <1>5, <3>1
        <3> QED
            BY <1>1, <3>2, <3>3
    <2>2. ASSUME \A e \in 1..i : r # rs[e] PROVE \E j \in Cells(m - 1) : h[j] = r
        <3>1. \A e \in 1..(i - 1) : r # rs[e]
            BY <1>1, <2>2
        <3>2. PICK x \in Cells(m) : g[x] = r
            BY <1>2, <3>1
        <3>3. x # t
            BY <1>1, <1>5, <2>2, <3>2
        <3>4. Back(x, t) \in Cells(m - 1) /\ h[Back(x, t)] = r
            BY <1>13, <1>14, <3>2, <3>3
        <3> QED
            BY <3>4
    <2> QED
        BY <2>1, <2>2
<1>18. ASSUME NEW j \in Cells(m - 1) PROVE new.copy[j] = data[h[j]]
    <2>1. PICK u : u = Up(j, t)
        OBVIOUS
    <2>2. u \in Cells(m) /\ h[j] = g[u] /\ new.copy[j] = s.copy[u]
        BY <1>12, <1>13, <1>14, <2>1
    <2> QED
        BY <1>2, <2>2
<1>19. \A j, l \in Cells(m - 1) : j <= l => new.copy[j] <= new.copy[l]
    BY <1>2, <1>12, <1>13
<1>20. ASSUME NEW j \in Cells(m - 1), h[j] <= n - k PROVE new.positions[j] = Back(h[j], p)
    <2>1. PICK u : u = Up(j, t)
        OBVIOUS
    <2>2. u \in Cells(m) /\ h[j] = g[u] /\ h[j] \in Cells(n) /\ h[j] \in Int
        BY <1>13, <1>14, <2>1, SMTT(60) DEF Cells
    <2>3. s.positions[u] = IF i - 1 = 0 THEN h[j] ELSE Back(h[j], p)
        BY <1>2, <1>20, <2>2
    <2>4. new.positions[j] = IF s.positions[u] > rs[i] THEN s.positions[u] - 1 ELSE s.positions[u]
        BY <1>12, <2>1
    <2>5. CASE i = 1
        <3>1. h[j] # p
            <4>1. \A e \in 1..i : h[j] # rs[e]
                BY <1>17, <2>2
            <4> QED
                BY <1>0, <2>5, <4>1
        <3> QED
            BY <1>0, <1>1, <2>2, <2>3, <2>4, <2>5, <3>1 DEF Back
    <2>6. CASE i # 1
        <3>1. s.positions[u] = Back(h[j], p) /\ rs[i] = n - k + i - 1
            BY <1>1, <2>3, <2>6
        <3>2. Back(h[j], p) <= n - k /\ Back(h[j], p) \in Int
            BY <1>1, <1>20, <2>2 DEF Back
        <3>3. ~ (s.positions[u] > rs[i])
            BY <1>1, <2>6, <3>1, <3>2
        <3> QED
            BY <2>4, <3>1, <3>3
    <2> QED
        BY <2>5, <2>6
<1>21. Left(new, h, data, n, rs, i, behind)
    <2>1. i # 0
        BY <1>1
    <2>2. PICK w : w = n - i
        OBVIOUS
    <2>3. w = m - 1
        BY <1>1, <2>2
    <2> QED
        BY <1>0, <1>1, <1>12, <1>15, <1>16, <1>17, <1>18, <1>19, <1>20, <2>1, <2>2, <2>3 DEF Left
<1> QED
    BY <1>a, <1>21

\* SortDelete begins with all entries.
LEMMA LeftStart ==
    ASSUME NEW n \in Nat, NEW idx, NEW data, Mirrors(idx.copy, idx.positions, data, n),
           NEW rs, NEW behind \in Int
    PROVE  Left(GoneFirst(idx, n, behind), idx.positions, data, n, rs, 0, behind)
<1> DEFINE s == GoneFirst(idx, n, behind)
<1>1. /\ idx.copy \in [Cells(n) -> Int] /\ idx.positions \in [Cells(n) -> Cells(n)]
      /\ \A i, j \in Cells(n) : i <= j => idx.copy[i] <= idx.copy[j]
      /\ \A i, j \in Cells(n) : idx.positions[i] = idx.positions[j] => i = j
      /\ \A r \in Cells(n) : \E i \in Cells(n) : idx.positions[i] = r
      /\ \A i \in Cells(n) : idx.copy[i] = data[idx.positions[i]]
    BY DEF Mirrors, Ascends
<1>2. idx.positions \in [Cells(n) -> Int]
    BY <1>1 DEF Cells
<1>3. s.copy = idx.copy /\ s.positions = idx.positions
    <2>1. Filled(idx.copy, n, behind) = idx.copy
        BY <1>1, FilledSame
    <2>2. Filled(idx.positions, n, behind) = idx.positions
        BY <1>2, FilledSame
    <2> QED
        BY <2>1, <2>2 DEF GoneFirst
<1> HIDE DEF s
<1>4. PICK w : w = n - 0
    OBVIOUS
<1>5. w = n /\ 1..0 = {} /\ \A j \in Cells(n) : ~ (j >= n)
    BY <1>4 DEF Cells
<1>6. Left(s, idx.positions, data, n, rs, 0, behind)
    BY <1>1, <1>3, <1>4, <1>5 DEF Left
<1> QED
    BY <1>6 DEF s

\* What is left in the end are the rows that stay, at their new places.
LEMMA LeftEnd ==
    ASSUME NEW n \in Nat, NEW behind \in Int, NEW data \in [Cells(n) -> Int],
           NEW rs, Trails(rs, n), Len(rs) < n, NEW s \in Halfway(n),
           NEW g, Left(s, g, data, n, rs, Len(rs), behind),
           NEW w \in Nat, w = n - Len(rs),
           NEW copy, copy = Filled(s.copy, w, behind),
           NEW positions, positions = Filled(s.positions, w, behind)
    PROVE  Mirrors(copy, positions, Narrow(data, w, rs[1]), w)
<1>0. PICK k, p, d : k = Len(rs) /\ p = rs[1] /\ d = Narrow(data, w, p)
    OBVIOUS
<1>1. /\ k \in 1..(n - 1) /\ p \in 0..w /\ w \in 1..n /\ w = n - k
      /\ \A e \in 2..k : rs[e] = w + e - 1
    BY <1>0 DEF Trails
<1>a. w <= n - 1 /\ w \in Nat /\ \A x \in Cells(n) : x \in Nat
    BY <1>1 DEF Cells
<1>b. \A x \in Nat : (x \in Cells(w + 1) <=> x <= w) /\ (x \in Cells(n) <=> x <= n - 1)
    BY <1>a, SMTT(60) DEF Cells
<1>2. /\ g \in [Cells(w) -> Cells(n)]
      /\ \A j, l \in Cells(w) : g[j] = g[l] => j = l
      /\ \A r \in Cells(n) : (\E j \in Cells(w) : g[j] = r) <=> (\A e \in 1..k : r # rs[e])
      /\ \A j \in Cells(w) : s.copy[j] = data[g[j]]
      /\ \A j, l \in Cells(w) : j <= l => s.copy[j] <= s.copy[l]
      /\ \A j \in Cells(w) : g[j] <= w => s.positions[j] = IF k = 0 THEN g[j] ELSE Back(g[j], p)
    <2> USE <1>0
    <2> QED
        BY DEF Left
<1>3. /\ s.copy \in [Cells(n) -> Int] /\ s.positions \in [Cells(n) -> Int]
      /\ Cells(w) \subseteq Cells(n)
    <2>1. Cells(w) \subseteq Cells(n)
        BY <1>1 DEF Cells
    <2> QED
        BY <2>1 DEF Halfway
<1>4. /\ copy \in [Cells(w) -> Int] /\ positions \in [Cells(w) -> Int]
      /\ \A j \in Cells(w) : copy[j] = s.copy[j] /\ positions[j] = s.positions[j]
    BY <1>3 DEF Filled, Cell
<1>5. \A r \in Cells(n) : (\A e \in 1..k : r # rs[e]) <=> (r <= w /\ r # p)
    <2> SUFFICES ASSUME NEW r \in Cells(n) PROVE (\A e \in 1..k : r # rs[e]) <=> (r <= w /\ r # p)
        OBVIOUS
    <2>1. ASSUME \A e \in 1..k : r # rs[e] PROVE r <= w /\ r # p
        <3>1. r # p
            BY <1>0, <1>1, <2>1
        <3>2. ASSUME r > w PROVE FALSE
            <4>1. r - w + 1 \in 2..k
                BY <1>1, <3>2, SMTT(60) DEF Cells
            <4>2. rs[r - w + 1] = r
                <5>1. rs[r - w + 1] = w + (r - w + 1) - 1
                    BY <1>1, <4>1
                <5> QED
                    BY <1>a, <5>1
            <4> QED
                BY <1>1, <2>1, <4>1, <4>2, SMTT(60)
        <3> QED
            BY <1>1, <3>1, <3>2 DEF Cells
    <2>2. ASSUME r <= w, r # p, NEW e \in 1..k PROVE r # rs[e]
        <3>1. CASE e = 1
            BY <1>0, <2>2, <3>1
        <3>2. CASE e # 1
            <4>1. rs[e] = w + e - 1
                <5>1. k \in Nat /\ e \in 2..k
                    BY <1>1, <3>2
                <5>2. \A x \in 2..k : rs[x] = w + x - 1
                    BY <1>1
                <5> QED
                    BY <5>1, <5>2, Zenon
            <4> QED
                BY <1>1, <2>2, <3>2, <4>1
        <3> QED
            BY <3>1, <3>2
    <2> QED
        BY <2>1, <2>2
<1>6. \A j \in Cells(w) : g[j] \in Cells(w + 1) /\ g[j] # p /\ positions[j] = Back(g[j], p)
    <2> SUFFICES ASSUME NEW j \in Cells(w)
                 PROVE  g[j] \in Cells(w + 1) /\ g[j] # p /\ positions[j] = Back(g[j], p)
        OBVIOUS
    <2>1. g[j] \in Cells(n) /\ g[j] <= w /\ g[j] # p
        BY <1>2, <1>5
    <2> QED
        <3>1. g[j] \in Cells(w + 1)
            BY <1>a, <1>b, <2>1
        <3>2. positions[j] = Back(g[j], p)
            BY <1>1, <1>2, <1>4, <2>1
        <3> QED
            BY <2>1, <3>1, <3>2
<1>7. /\ \A i \in Cells(w) : Up(i, p) \in Cells(w + 1) /\ Up(i, p) # p /\ Back(Up(i, p), p) = i
      /\ \A j \in Cells(w + 1) : j # p => Back(j, p) \in Cells(w) /\ Up(Back(j, p), p) = j
    BY <1>1, UpPlaces
<1>8. \A i \in Cells(w) : d[i] = data[Up(i, p)]
    BY <1>0 DEF Narrow
<1>9. positions \in [Cells(w) -> Cells(w)]
    BY <1>4, <1>6, <1>7, SMTT(60)
<1>10. \A i, j \in Cells(w) : positions[i] = positions[j] => i = j
    <2> SUFFICES ASSUME NEW i \in Cells(w), NEW j \in Cells(w), positions[i] = positions[j] PROVE i = j
        OBVIOUS
    <2>1. Back(g[i], p) = Back(g[j], p)
        BY <1>6
    <2>2. g[i] = g[j]
        BY <1>6, <1>7, <2>1
    <2> QED
        BY <1>2, <2>2
<1>11. ASSUME NEW r \in Cells(w) PROVE \E i \in Cells(w) : positions[i] = r
    <2>1. PICK u : u = Up(r, p)
        OBVIOUS
    <2>2. u \in Cells(w + 1) /\ u # p /\ Back(u, p) = r
        BY <1>7, <2>1
    <2>3. u \in Cells(n) /\ u <= w
        <3>1. u \in Nat
            BY <1>a, <2>2 DEF Cells
        <3> QED
            BY <1>a, <1>b, <2>2, <3>1
    <2>4. PICK j \in Cells(w) : g[j] = u
        BY <1>2, <1>5, <2>2, <2>3
    <2> QED
        BY <1>6, <2>2, <2>4
<1>12. ASSUME NEW i \in Cells(w) PROVE copy[i] = d[positions[i]]
    <2>1. copy[i] = data[g[i]] /\ positions[i] = Back(g[i], p) /\ g[i] \in Cells(w + 1) /\ g[i] # p
        BY <1>2, <1>4, <1>6
    <2>2. Back(g[i], p) \in Cells(w) /\ Up(Back(g[i], p), p) = g[i]
        BY <1>7, <2>1
    <2> QED
        BY <1>8, <2>1, <2>2
<1>13. Ascends(copy, w)
    BY <1>2, <1>4 DEF Ascends
<1>14. Mirrors(copy, positions, d, w)
    BY <1>9, <1>10, <1>11, <1>12, <1>13 DEF Mirrors
<1> QED
    BY <1>0, <1>14

\* db_delete_sort_uncluster.
LEMMA SortDeleteGood ==
    ASSUME NEW n \in Nat, NEW idx, Plain(idx), NEW data \in [Cells(n) -> Int],
           Mirrors(idx.copy, idx.positions, data, n),
           NEW rs, Trails(rs, n), NEW behind \in Int,
           Len(rs) = n \/ Findable(data, n, rs, behind)
    PROVE  LET new == SortDelete(idx, data, n, rs, behind)
               w == n - Len(rs)
           IN  /\ new.fault = idx.fault /\ new.type = idx.type /\ new.built = idx.built
               /\ Mirrors(new.copy, new.positions, Narrow(data, w, rs[1]), w)
<1>0. Len(rs) \in 1..n /\ Len(rs) \in Nat /\ n \in Int
    BY DEF Trails
<1>a. rs[1] \in Int
    BY <1>0 DEF Trails
<1>1. PICK w \in Nat, k \in Nat, p \in Int : w = n - Len(rs) /\ k = Len(rs) /\ p = rs[1]
    BY <1>0, <1>a, SMTT(60)
<1>2. k \in 1..n /\ w \in 0..n /\ k \in Nat
    BY <1>0, <1>1
<1>3. PICK f : GoneRun(idx, data, n, rs, behind, f)
    BY <1>0, GoneRuns
<1>4. PICK s : s = f[k]
    OBVIOUS
<1>5. PICK copy, positions : copy = Filled(s.copy, w, behind) /\ positions = Filled(s.positions, w, behind)
    OBVIOUS
<1>6. s \in Halfway(n)
    BY <1>1, <1>2, <1>3, <1>4 DEF GoneRun
<1>7. PICK new : new = SortDelete(idx, data, n, rs, behind)
    OBVIOUS
<1>8. new = [idx EXCEPT !.copy = copy, !.positions = positions, !.room = w]
    BY <1>1, <1>3, <1>4, <1>5, <1>7 DEF GoneRun
<1>9. /\ new.fault = idx.fault /\ new.type = idx.type /\ new.built = idx.built
      /\ new.copy = copy /\ new.positions = positions
    BY <1>8 DEF Plain, IsIndex
<1>10. Mirrors(copy, positions, Narrow(data, w, p), w)
    <2>1. CASE k = n
        <3>1. w = 0 /\ Cells(0) = {}
            BY <1>1, <2>1 DEF Cells
        <3>2. copy = [i \in {} |-> Cell(s.copy, i, behind)] /\ positions = [i \in {} |-> Cell(s.positions, i, behind)]
            BY <1>5, <3>1 DEF Filled
        <3> QED
            BY <3>1, <3>2 DEF Mirrors, Ascends
    <2>2. CASE k # n
        <3>1. Len(rs) < n /\ Findable(data, n, rs, behind)
            BY <1>1, <1>2, <2>2
        <3> DEFINE S == {i \in 0..k : \E g : Left(f[i], g, data, n, rs, i, behind)}
        <3>2. 0 \in S
            <4>1. f[0] = GoneFirst(idx, n, behind)
                BY <1>3 DEF GoneRun
            <4>2. Left(GoneFirst(idx, n, behind), idx.positions, data, n, rs, 0, behind)
                BY LeftStart
            <4>3. 0 \in 0..k
                BY <1>2
            <4> QED
                BY <4>1, <4>2, <4>3
        <3>3. ASSUME NEW i \in 1..k, i - 1 \in S PROVE i \in S
            <4>1. PICK t : t = f[i - 1]
                OBVIOUS
            <4>2. t \in Halfway(n) /\ f[i] = GoneStep(data, n, rs, behind, t, i)
                BY <1>1, <1>2, <1>3, <4>1 DEF GoneRun
            <4>3. PICK g : Left(t, g, data, n, rs, i - 1, behind)
                BY <3>3, <4>1
            <4>4. i \in 1..n /\ i <= Len(rs) /\ i \in 0..k
                BY <1>1, <1>2
            <4>5. \E h : Left(GoneStep(data, n, rs, behind, t, i), h, data, n, rs, i, behind)
                BY <3>1, <4>2, <4>3, <4>4, LeftStep
            <4> QED
                BY <4>2, <4>4, <4>5
        <3>4. 0..k \subseteq S
            <4> HIDE DEF S
            <4> QED BY <1>2, <3>2, <3>3, Upward
        <3>5. PICK g : Left(s, g, data, n, rs, k, behind)
            <4>1. k \in S
                <5> HIDE DEF S
                <5> QED BY <1>2, <3>4
            <4> QED
                BY <1>4, <4>1
        <3> QED
            BY <1>1, <1>5, <1>6, <3>1, <3>5, LeftEnd
    <2> QED
        BY <2>1, <2>2
<1> QED
    BY <1>1, <1>7, <1>9, <1>10

\* An array in order stays in order without a cell.
LEMMA NarrowAscends ==
    ASSUME NEW n \in Nat, NEW w \in Nat, w < n, NEW a, Ascends(a, n), NEW p \in 0..w
    PROVE  Ascends(Narrow(a, w, p), w)
<1>1. \A j \in Cells(w) : Up(j, p) \in Cells(n) /\ Narrow(a, w, p)[j] = a[Up(j, p)]
    <2>1. \A j \in Cells(w) : Up(j, p) \in Cells(n)
        BY DEF Up, Cells
    <2> QED
        BY <2>1 DEF Narrow
<1>2. \A i, j \in Cells(w) : i <= j => Up(i, p) <= Up(j, p)
    BY DEF Up, Cells
<1>3. a \in [Cells(n) -> Int] /\ \A i, j \in Cells(n) : i <= j => a[i] <= a[j]
    BY DEF Ascends
<1>4. Narrow(a, w, p) \in [Cells(w) -> Int]
    BY <1>1, <1>3 DEF Narrow
<1>5. ASSUME NEW i \in Cells(w), NEW j \in Cells(w), i <= j
      PROVE  Narrow(a, w, p)[i] <= Narrow(a, w, p)[j]
    <2>1. PICK u, v : u = Up(i, p) /\ v = Up(j, p)
        OBVIOUS
    <2>2. u \in Cells(n) /\ v \in Cells(n) /\ u <= v
        BY <1>1, <1>2, <1>5, <2>1
    <2>3. a[u] <= a[v]
        BY <1>3, <2>2
    <2> QED
        BY <1>1, <2>1, <2>3
<1> QED
    BY <1>4, <1>5 DEF Ascends

-------------------------------------------------------------------------------
(* The cells of an array change places *)

\* Where the cell at i stood before the cell at p moved to q.
Origin(i, p, q) ==
    IF i = q THEN p
    ELSE IF p > q /\ q < i /\ i <= p THEN i - 1
    ELSE IF p < q /\ p <= i /\ i < q THEN i + 1
    ELSE i

Turn(n, p, q) == [i \in Cells(n) |-> Origin(i, p, q)]

\* The cells of an array change places: each takes the value of another one.
Shuffles(g, n) ==
    /\ g \in [Cells(n) -> Cells(n)]
    /\ \A i, j \in Cells(n) : g[i] = g[j] => i = j
    /\ \A r \in Cells(n) : \E i \in Cells(n) : g[i] = r

Shuffled(a, n, g) == [i \in Cells(n) |-> a[g[i]]]

\* The cells change places.
LEMMA OriginPlaces ==
    ASSUME NEW n \in Nat, NEW p \in Cells(n), NEW q \in Cells(n)
    PROVE  /\ \A i \in Cells(n) : /\ Origin(i, p, q) \in Cells(n)
                                  /\ Origin(Origin(i, p, q), q, p) = i
                                  /\ Origin(i, p, q) = p <=> i = q
           /\ \A i, j \in Cells(n) : Origin(i, p, q) = Origin(j, p, q) => i = j
<1>1. p \in Int /\ q \in Int /\ 0 <= p /\ p <= n - 1 /\ 0 <= q /\ q <= n - 1
    BY DEF Cells
<1>2. ASSUME NEW i \in Cells(n)
      PROVE  /\ Origin(i, p, q) \in Cells(n)
             /\ Origin(Origin(i, p, q), q, p) = i
             /\ Origin(i, p, q) = p <=> i = q
    <2>1. i \in Int /\ 0 <= i /\ i <= n - 1
        BY DEF Cells
    <2>2. Origin(i, p, q) \in Int /\ 0 <= Origin(i, p, q) /\ Origin(i, p, q) <= n - 1
        BY <1>1, <2>1 DEF Origin
    <2>3. Origin(Origin(i, p, q), q, p) = i
        BY <1>1, <2>1 DEF Origin
    <2>4. Origin(i, p, q) = p <=> i = q
        BY <1>1, <2>1 DEF Origin
    <2> QED
        BY <2>2, <2>3, <2>4 DEF Cells
<1>3. ASSUME NEW i \in Cells(n), NEW j \in Cells(n), Origin(i, p, q) = Origin(j, p, q) PROVE i = j
    BY <1>2, <1>3
<1> QED
    BY <1>2, <1>3

\* A move is such a change.
LEMMA TurnShuffles ==
    ASSUME NEW n \in Nat, NEW p \in Cells(n), NEW q \in Cells(n)
    PROVE  Shuffles(Turn(n, p, q), n)
<1>1. Turn(n, p, q) \in [Cells(n) -> Cells(n)]
    BY OriginPlaces DEF Turn
<1>2. \A i, j \in Cells(n) : Turn(n, p, q)[i] = Turn(n, p, q)[j] => i = j
    BY OriginPlaces DEF Turn
<1>3. ASSUME NEW r \in Cells(n) PROVE \E i \in Cells(n) : Turn(n, p, q)[i] = r
    <2>1. Origin(r, q, p) \in Cells(n) /\ Origin(Origin(r, q, p), p, q) = r
        BY OriginPlaces
    <2> QED
        BY <2>1 DEF Turn
<1> QED
    BY <1>1, <1>2, <1>3 DEF Shuffles

\* The values around the place that the search finds for v in the place of
\* the cell x.
Around(a, n, x, q, v) ==
    /\ \A j \in Cells(n) : j < q => a[j] <= v
    /\ \A j \in Cells(n) : j > q => v <= a[j]
    /\ x < q => a[q] <= v
    /\ x > q => v <= a[q]

\* The cells of an array when the cell at x moved to q and got the value v.
Seated(a, n, x, q, v) == [i \in Cells(n) |-> IF i = q THEN v ELSE a[Origin(i, x, q)]]

\* The array stays in order.
LEMMA SeatedAscends ==
    ASSUME NEW n \in Nat, NEW a, Ascends(a, n), NEW x \in Cells(n), NEW q \in Cells(n), NEW v \in Int,
           Around(a, n, x, q, v)
    PROVE  Ascends(Seated(a, n, x, q, v), n)
<1> DEFINE b == Seated(a, n, x, q, v)
<1>1. x \in Int /\ q \in Int
    BY DEF Cells
<1>2. /\ \A i \in Cells(n) : a[i] \in Int
      /\ \A i, j \in Cells(n) : i <= j => a[i] <= a[j]
    BY DEF Ascends
<1>3. \A i \in Cells(n) : Origin(i, x, q) \in Cells(n)
    BY OriginPlaces
<1>4. \A i \in Cells(n) : b[i] = IF i = q THEN v ELSE a[Origin(i, x, q)]
    BY DEF Seated
<1>5. b \in [Cells(n) -> Int]
    BY <1>2, <1>3 DEF Seated
<1> HIDE DEF b
<1>6. ASSUME NEW j \in Cells(n), j < q PROVE b[j] <= v
    <2>1. j \in Int /\ Origin(j, x, q) <= q /\ Origin(j, x, q) \in Int /\ (Origin(j, x, q) = q => x < q)
        BY <1>1, <1>6 DEF Origin, Cells
    <2>2. b[j] = a[Origin(j, x, q)]
        BY <1>1, <1>4, <1>6
    <2> QED
        BY <1>1, <1>3, <2>1, <2>2 DEF Around
<1>7. ASSUME NEW j \in Cells(n), j > q PROVE v <= b[j]
    <2>1. j \in Int /\ Origin(j, x, q) >= q /\ Origin(j, x, q) \in Int /\ (Origin(j, x, q) = q => x > q)
        BY <1>1, <1>7 DEF Origin, Cells
    <2>2. b[j] = a[Origin(j, x, q)]
        BY <1>1, <1>4, <1>7
    <2> QED
        BY <1>1, <1>3, <2>1, <2>2 DEF Around
<1>8. ASSUME NEW i \in Cells(n), NEW j \in Cells(n), i <= j PROVE b[i] <= b[j]
    <2>1. i \in Int /\ j \in Int /\ b[i] \in Int /\ b[j] \in Int
        BY <1>5 DEF Cells
    <2>2. CASE i = q
        <3>1. b[i] = v
            BY <1>4, <2>2
        <3>2. j = q \/ j > q
            BY <1>1, <1>8, <2>1, <2>2
        <3> QED
            BY <1>4, <1>7, <2>1, <3>1, <3>2
    <2>3. CASE j = q /\ i # q
        <3>1. b[j] = v /\ i < q
            BY <1>1, <1>4, <1>8, <2>1, <2>3
        <3> QED
            BY <1>6, <3>1
    <2>4. CASE i # q /\ j # q
        <3>1. Origin(i, x, q) <= Origin(j, x, q)
            BY <1>1, <1>8, <2>1, <2>4 DEF Origin
        <3>2. b[i] = a[Origin(i, x, q)] /\ b[j] = a[Origin(j, x, q)]
            BY <1>4, <2>4
        <3> QED
            BY <1>2, <1>3, <3>1, <3>2
    <2> QED
        BY <2>2, <2>3, <2>4
<1> QED
    BY <1>5, <1>8 DEF Ascends, b

\* The values of an array differ.
Differ(a, n) == \A i, j \in Cells(n) : a[i] = a[j] => i = j

\* The search in the sorted copy finds each value of the array.
LEMMA MirrorsFinds ==
    ASSUME NEW n \in Nat, NEW copy, NEW positions, NEW data, Mirrors(copy, positions, data, n), Differ(data, n),
           NEW r \in Cells(n), NEW behind \in Int
    PROVE  LET t == Find(copy, n, data[r], "GREATER_EQUAL", behind)
           IN  t \in Cells(n) /\ positions[t] = r
<1>1. PICK t \in Cells(n) : positions[t] = r
    BY DEF Mirrors
<1>2. Ascends(copy, n) /\ copy[t] = data[r]
    BY <1>1 DEF Mirrors
<1>3. \A j \in Cells(n) : copy[j] = copy[t] => j = t
    <2>1. \A j \in Cells(n) : positions[j] \in Cells(n) /\ copy[j] = data[positions[j]]
        BY DEF Mirrors
    <2>2. \A i, j \in Cells(n) : positions[i] = positions[j] => i = j
        BY DEF Mirrors
    <2> QED
        BY <2>1, <2>2 DEF Differ
<1>4. Find(copy, n, copy[t], "GREATER_EQUAL", behind) = t
    BY <1>2, <1>3, FindPresent
<1> QED
    BY <1>1, <1>2, <1>4

\* db_modify_sort_uncluster finds the new positions of values that differ.
LEMMA RefreshedMirrors ==
    ASSUME NEW n \in Nat, NEW idx, Plain(idx), idx.type = "UNCLUSTER_SORT", idx.built,
           NEW data, Mirrors(idx.copy, idx.positions, data, n), Differ(data, n),
           NEW g, Shuffles(g, n), NEW behind \in Int
    PROVE  LET new == Shuffled(data, n, g)
               e == Refreshed(idx, new, n, behind)
           IN  /\ Plain(e) /\ e.type = "UNCLUSTER_SORT" /\ e.built /\ e.fault = idx.fault
               /\ Mirrors(e.copy, e.positions, new, n)
<1> DEFINE copy == idx.copy
           new == Shuffled(data, n, g)
           e == Refreshed(idx, new, n, behind)
           place(r) == Find(copy, n, new[r], "GREATER_EQUAL", behind)
<1>1. PICK f : RefreshRun(idx, new, n, behind, f)
    BY RefreshRuns
<1>2. \A r \in Cells(n) : g[r] \in Cells(n) /\ new[r] = data[g[r]]
    BY DEF Shuffles, Shuffled
<1>3. \A r \in Cells(n) : /\ place(r) \in Cells(n)
                          /\ idx.positions[place(r)] = g[r]
                          /\ copy[place(r)] = new[r]
    <2> SUFFICES ASSUME NEW r \in Cells(n)
                 PROVE  /\ place(r) \in Cells(n)
                        /\ idx.positions[place(r)] = g[r]
                        /\ copy[place(r)] = new[r]
        OBVIOUS
    <2>1. PICK o \in Cells(n) : o = g[r]
        BY <1>2
    <2>2. new[r] = data[o]
        BY <1>2, <2>1
    <2>3. place(r) \in Cells(n) /\ idx.positions[place(r)] = o
        BY <2>2, MirrorsFinds
    <2> HIDE DEF place
    <2>4. copy[place(r)] = data[o]
        BY <2>3 DEF Mirrors
    <2> QED
        BY <2>1, <2>2, <2>3, <2>4
<1> HIDE DEF e
<1>4. \A r, s \in Cells(n) : place(r) = place(s) => r = s
    <2> HIDE DEF place
    <2>1. \A r, s \in Cells(n) : g[r] = g[s] => r = s
        BY DEF Shuffles
    <2> QED
        BY <1>3, <2>1
<1>5. \A i \in 1..n : f[i] = [f[i - 1] EXCEPT ![place(i - 1)] = i - 1]
    BY <1>1 DEF RefreshRun, RefreshStep
<1> HIDE DEF new, place
<1>6. \A i \in 0..n : f[i] \in [Cells(n) -> Int]
    BY <1>1 DEF RefreshRun
<1> DEFINE right(a, i) == \A r \in Cells(n) : r < i => a[place(r)] = r
           S == {i \in 0..n : right(f[i], i)}
<1>7. 0 \in S
    BY DEF Cells
<1>8. ASSUME NEW i \in 1..n, i - 1 \in S PROVE i \in S
    <2>1. i \in 0..n /\ i - 1 \in 0..n /\ i - 1 \in Cells(n) /\ i \in Int
        BY DEF Cells
    <2>2. PICK b : b = f[i - 1]
        OBVIOUS
    <2>3. right(b, i - 1) /\ b \in [Cells(n) -> Int] /\ f[i] = [b EXCEPT ![place(i - 1)] = i - 1]
        BY <1>5, <1>6, <1>8, <2>1, <2>2
    <2>4. ASSUME NEW r \in Cells(n), r < i PROVE f[i][place(r)] = r
        <3>1. r \in Int
            BY DEF Cells
        <3>2. CASE r = i - 1
            BY <1>3, <2>3, <3>2
        <3>3. CASE r # i - 1
            <4>1. r < i - 1 /\ place(r) # place(i - 1)
                BY <1>4, <2>1, <2>4, <3>1, <3>3
            <4> QED
                BY <1>3, <2>3, <4>1
        <3> QED
            BY <3>2, <3>3
    <2> QED
        BY <2>1, <2>4
<1>9. n \in S
    <2>1. 0..n \subseteq S
        <3> HIDE DEF S
        <3> QED
            BY <1>7, <1>8, Upward
    <2>2. n \in 0..n
        OBVIOUS
    <2> HIDE DEF S
    <2> QED
        BY <2>1, <2>2
<1>10. PICK a : a = f[n]
    OBVIOUS
<1>11. /\ \A r \in Cells(n) : a[place(r)] = r
       /\ a \in [Cells(n) -> Int]
    <2>1. \A r \in Cells(n) : r < n
        BY DEF Cells
    <2>2. right(f[n], n)
        BY <1>9
    <2>3. n \in 0..n
        OBVIOUS
    <2> QED
        BY <1>6, <1>10, <2>1, <2>2, <2>3
<1>12. ASSUME NEW i \in Cells(n) PROVE \E r \in Cells(n) : place(r) = i
    <2>1. PICK o \in Cells(n) : o = idx.positions[i]
        BY DEF Mirrors
    <2>2. PICK r \in Cells(n) : g[r] = o
        BY DEF Shuffles
    <2>3. idx.positions[place(r)] = idx.positions[i] /\ place(r) \in Cells(n)
        BY <1>3, <2>1, <2>2
    <2> QED
        BY <2>3 DEF Mirrors
<1>13. Mirrors(copy, a, new, n)
    <2>1. ASSUME NEW i \in Cells(n) PROVE a[i] \in Cells(n) /\ place(a[i]) = i
        <3>1. PICK r \in Cells(n) : place(r) = i
            BY <1>12
        <3>2. a[place(r)] = r
            BY <1>11
        <3> QED
            BY <3>1, <3>2
    <2>2. \A i, j \in Cells(n) : a[i] = a[j] => i = j
        BY <2>1
    <2>3. \A r \in Cells(n) : \E i \in Cells(n) : a[i] = r
        BY <1>3, <1>11
    <2>4. \A i \in Cells(n) : copy[i] = new[a[i]]
        BY <1>3, <2>1
    <2>5. a \in [Cells(n) -> Cells(n)]
        BY <1>11, <2>1
    <2>6. Ascends(copy, n)
        BY DEF Mirrors
    <2> QED
        BY <2>2, <2>3, <2>4, <2>5, <2>6 DEF Mirrors
<1>14. e = [idx EXCEPT !.positions = a]
    BY <1>1, <1>10 DEF RefreshRun, e, new
<1>15. Plain(e)
    BY RefreshedPlain DEF e
<1>16. e.copy = copy /\ e.positions = a /\ e.type = idx.type /\ e.built = idx.built /\ e.fault = idx.fault
    BY <1>14 DEF Plain, IsIndex
<1> QED
    BY <1>13, <1>15, <1>16 DEF e, new

\* db_update_sort_uncluster with no row.
LEMMA SortUpdateNone ==
    ASSUME NEW n \in Nat, NEW idx, Plain(idx), NEW data, Mirrors(idx.copy, idx.positions, data, n),
           NEW rs, Len(rs) = 0, NEW value, NEW behind
    PROVE  LET e == SortUpdate(idx, data, n, rs, value, behind)
           IN  /\ e.type = idx.type /\ e.built = idx.built /\ e.fault = idx.fault
               /\ e.copy = idx.copy /\ e.positions = idx.positions
<1> DEFINE x0 == UpdateFirst(idx, n, behind)
           g == [k \in 0..0 |-> x0]
<1>1. SortUpdate(idx, data, n, rs, value, behind)
          = Updated(idx, n, (CHOOSE f : UpdateTo(idx, data, n, rs, value, behind, f))[Len(rs)], behind)
    BY DEF SortUpdate, UpdateTo, UpdateOne, UpdateFirst, Updated, ShiftingUp, ShiftingDown, UpStep, DownStep,
           UpdPut, UpdTake
<1> HIDE DEF x0
<1>2. UpdateTo(idx, data, n, rs, value, behind, g)
    <2>1. \A k \in 0..0 : k = 0
        OBVIOUS
    <2>2. g = [k \in 0..0 |-> IF k = 0 THEN x0 ELSE UpdateOne(idx, data, n, rs, value, behind, g[k - 1], k)]
        BY <2>1
    <2> QED
        BY <2>2 DEF UpdateTo, x0
<1>3. PICK f : /\ UpdateTo(idx, data, n, rs, value, behind, f)
               /\ SortUpdate(idx, data, n, rs, value, behind) = Updated(idx, n, f[0], behind)
    BY <1>1, <1>2
<1>4. f[0] = x0
    <2>1. 0 \in 0..0
        OBVIOUS
    <2>2. f = [k \in 0..0 |-> IF k = 0 THEN x0 ELSE UpdateOne(idx, data, n, rs, value, behind, f[k - 1], k)]
        BY <1>3 DEF UpdateTo, x0
    <2> QED
        BY <2>1, <2>2, Zenon
<1>5. ASSUME NEW a \in [Cells(n) -> Int] PROVE Filled(WithEnd(a, n, behind), n, behind) = a
    <2>1. \A i \in Cells(n) : i \in Cells(n + 2)
        BY DEF Cells
    <2>2. WithEnd(a, n, behind) = [i \in Cells(n + 2) |-> Cell(a, i, behind)]
        <3>1. Filled(a, n, behind) = a
            BY FilledSame
        <3> QED
            BY <3>1 DEF WithEnd, Filled
    <2>3. \A i \in Cells(n) : Cell(WithEnd(a, n, behind), i, behind) = a[i]
        BY <2>1, <2>2 DEF Cell
    <2> QED
        BY <2>3 DEF Filled
<1>6. idx.copy \in [Cells(n) -> Int] /\ idx.positions \in [Cells(n) -> Int]
    <2>1. \A i \in Cells(n) : i \in Int
        BY DEF Cells
    <2> QED
        BY <2>1 DEF Mirrors, Ascends
<1>7. x0.copy = WithEnd(idx.copy, n, behind) /\ x0.positions = WithEnd(idx.positions, n, behind) /\ x0.fault = idx.fault
    BY DEF x0, UpdateFirst
<1>8. Updated(idx, n, x0, behind) = [idx EXCEPT !.copy = idx.copy, !.positions = idx.positions, !.fault = idx.fault]
    BY <1>5, <1>6, <1>7 DEF Updated
<1>9. DOMAIN idx = {"type", "built", "copy", "positions", "room", "tree", "fault"}
    BY DEF Plain, IsIndex
<1>10. PICK e : e = SortUpdate(idx, data, n, rs, value, behind)
    OBVIOUS
<1>11. e = [idx EXCEPT !.copy = idx.copy, !.positions = idx.positions, !.fault = idx.fault]
    BY <1>3, <1>4, <1>8, <1>10
<1>12. /\ e.type = idx.type /\ e.built = idx.built /\ e.fault = idx.fault
       /\ e.copy = idx.copy /\ e.positions = idx.positions
    BY <1>9, <1>11
<1> QED
    BY <1>10, <1>12

===============================================================================
