------------------------------ MODULE QueryProofs -----------------------------
(***************************************************************************)
(* The properties of Query, for tables without an index or with a sorted   *)
(* one: for any tables, bounds, sums and aggregates, whatever lies behind  *)
(* the arrays, any width of an int and any number of partitions.           *)
(*                                                                         *)
(* The lemmas say of each operation what it gives under its conditions and *)
(* what it may give without them: the scan and the searches of the sorted  *)
(* indexes, the fetches, sums and aggregates, and the four joins, loop by  *)
(* loop.  QInv puts them together: the columns stay as the load left them, *)
(* and each vector, result and answer that the client holds is right while *)
(* the conditions are kept.  The tree indexes are not covered: NoTree.     *)
(***************************************************************************)
EXTENDS Query, SortingProofs

-------------------------------------------------------------------------------
(* Lists *)

\* A list of a set is what the properties of Query ask for.
LEMMA ListsExactly ==
    ASSUME NEW s, NEW X, Lists(s, X)
    PROVE  Exactly(s, X) /\ IsFiniteSet(X)
<1>1. s \in Seq(X) /\ Len(s) \in Nat /\ DOMAIN s = 1..Len(s) /\ \A i \in 1..Len(s) : s[i] \in X
    BY LenProperties, ElementOfSeq DEF Lists
<1>2. ValuesOf(s) = X
    <2>1. ValuesOf(s) \subseteq X
        BY <1>1 DEF ValuesOf
    <2>2. ASSUME NEW x \in X PROVE x \in ValuesOf(s)
        BY <1>1 DEF ValuesOf, Lists
    <2> QED
        BY <2>1, <2>2
<1>3. s \in Bijection(1..Len(s), X)
    <2>1. s \in [1..Len(s) -> X]
        BY <1>1
    <2>2. s \in Injection(1..Len(s), X)
        BY <2>1 DEF Injection, IsInjective, Lists, Distinct
    <2>3. s \in Surjection(1..Len(s), X)
        BY <2>1 DEF Surjection, Lists
    <2> QED
        BY <2>2, <2>3 DEF Bijection
<1>4. IsFiniteSet(1..Len(s)) /\ Cardinality(1..Len(s)) = Len(s)
    <2>1. Len(s) \in Int /\ 1 \in Int /\ (1 > Len(s) <=> Len(s) = 0) /\ Len(s) - 1 + 1 = Len(s)
        BY <1>1
    <2>2. /\ IsFiniteSet(1..Len(s))
          /\ Cardinality(1..Len(s)) = IF 1 > Len(s) THEN 0 ELSE Len(s) - 1 + 1
        BY <2>1, FS_Interval
    <2> QED
        BY <2>1, <2>2
<1>5. IsFiniteSet(X) /\ Cardinality(X) = Len(s)
    BY <1>3, <1>4, FS_Bijection DEF ExistsBijection
<1> QED
    BY <1>2, <1>5 DEF Exactly

-------------------------------------------------------------------------------
(* The scan *)

\* The places within the bounds among the first n.
ScanStep(v, lo, hi, f, n) ==
    IF n = 0 THEN << >>
    ELSE LET g == f[n - 1] IN IF InRange(v[n], lo, hi) THEN Append(g, n - 1) ELSE g
\* f is the recursive function of Scan.
Scans(v, lo, hi, f) == f = [n \in 0..Len(v) |-> ScanStep(v, lo, hi, f, n)]
\* The places within the bounds among the first m.
Found(v, lo, hi, m) == {k \in 0..(m - 1) : InRange(v[k + 1], lo, hi)}

\* A scan (db_select_ge_less_op and its kin) finds each place within the bounds
\* once.
LEMMA ScanFound ==
    ASSUME NEW v \in Seq(Int), NEW lo \in Int, NEW hi \in Int
    PROVE  Lists(Scan(v, lo, hi), Found(v, lo, hi, Len(v)))
<1> DEFINE n == Len(v)
           X == Seq(Int)
           N == [q \in (1..n) \X X |-> IF InRange(v[q[1]], lo, hi) THEN Append(q[2], q[1] - 1) ELSE q[2]]
<1>0. n \in Nat
    BY LenProperties
<1>1. Steps(N, n, X)
    <2> SUFFICES ASSUME NEW i \in 1..n, NEW g \in X
                 PROVE  (IF InRange(v[i], lo, hi) THEN Append(g, i - 1) ELSE g) \in X
        BY DEF Steps
    <2>1. i - 1 \in Int
        BY <1>0
    <2>2. Append(g, i - 1) \in X
        BY <2>1, AppendProperties
    <2> QED
        BY <2>2
<1>2. ASSUME NEW i \in 1..n, NEW g \in X
      PROVE  N[<<i, g>>] = IF InRange(v[i], lo, hi) THEN Append(g, i - 1) ELSE g
    OBVIOUS
<1>3. << >> \in X
    BY EmptySeq
<1> HIDE DEF N, X, n
<1>4. PICK f0 : Iterates(f0, N, n, << >>, X)
    BY <1>0, <1>1, <1>3, Iteration
<1>5. Scans(v, lo, hi, f0)
    <2>1. f0 \in [0..n -> X]
        BY <1>4 DEF Iterates
    <2>2. f0 = [i \in 0..n |-> IF i = 0 THEN << >> ELSE N[<<i, f0[i - 1]>>]]
        BY <1>0, <1>4, Unfolds
    <2>3. ASSUME NEW i \in 0..n
          PROVE  (IF i = 0 THEN << >> ELSE N[<<i, f0[i - 1]>>]) = ScanStep(v, lo, hi, f0, i)
        <3>1. i # 0 => i \in 1..n /\ i - 1 \in 0..n
            BY <1>0
        <3>2. i # 0 => f0[i - 1] \in X
            BY <3>1, <2>1
        <3>3. i # 0 => N[<<i, f0[i - 1]>>]
                       = IF InRange(v[i], lo, hi) THEN Append(f0[i - 1], i - 1) ELSE f0[i - 1]
            BY <3>1, <3>2, <1>2, Zenon
        <3> QED
            BY <3>3, Zenon DEF ScanStep
    <2> QED
        BY <2>2, <2>3, Zenon DEF Scans, n
<1>6. Scan(v, lo, hi) = (CHOOSE f : Scans(v, lo, hi, f))[n]
    BY DEF Scan, Scans, ScanStep, n
<1>7. PICK f : Scans(v, lo, hi, f) /\ Scan(v, lo, hi) = f[n]
    BY <1>5, <1>6
<1>8. ASSUME NEW i \in 0..n PROVE f[i] = ScanStep(v, lo, hi, f, i)
    BY <1>7, Zenon DEF Scans, n
<1> DEFINE S == {i \in 0..n : Lists(f[i], Found(v, lo, hi, i))}
<1>9. 0 \in S
    <2>1. 0 \in 0..n /\ f[0] = << >> /\ Found(v, lo, hi, 0) = {}
        BY <1>0, <1>8 DEF ScanStep, Found
    <2> QED
        BY <2>1, ListsNothing
<1>10. ASSUME NEW i \in 1..n, i - 1 \in S PROVE i \in S
    <2>0. i \in 0..n /\ i - 1 \in 0..n /\ i # 0 /\ Lists(f[i - 1], Found(v, lo, hi, i - 1))
        BY <1>0, <1>10
    <2>1. f[i] = IF InRange(v[i], lo, hi) THEN Append(f[i - 1], i - 1) ELSE f[i - 1]
        BY <2>0, <1>8 DEF ScanStep
    <2>2. \A k : k \in 0..(i - 1) <=> k \in 0..(i - 1 - 1) \/ k = i - 1
        BY <1>0
    <2>3. i - 1 + 1 = i /\ i - 1 \notin 0..(i - 1 - 1)
        BY <1>0
    <2>4. CASE InRange(v[i], lo, hi)
        <3>1. Found(v, lo, hi, i) = Found(v, lo, hi, i - 1) \union {i - 1}
            BY <2>2, <2>3, <2>4 DEF Found
        <3>2. i - 1 \notin Found(v, lo, hi, i - 1)
            BY <2>3 DEF Found
        <3>3. Lists(Append(f[i - 1], i - 1), Found(v, lo, hi, i - 1) \union {i - 1})
            BY <2>0, <3>2, ListsMore
        <3> QED
            BY <3>1, <3>3, <2>1, <2>0, <2>4
    <2>5. CASE ~ InRange(v[i], lo, hi)
        <3>1. Found(v, lo, hi, i) = Found(v, lo, hi, i - 1)
            BY <2>2, <2>3, <2>5 DEF Found
        <3> QED
            BY <3>1, <2>1, <2>0, <2>5
    <2> QED
        BY <2>4, <2>5
<1>11. 0..n \subseteq S
    <2> HIDE DEF S
    <2> QED BY <1>0, <1>9, <1>10, Upward
<1>12. n \in S
    BY <1>0, <1>11
<1> QED
    BY <1>12, <1>7 DEF n

-------------------------------------------------------------------------------
(* The cuts that a search makes *)

\* The values of an array.
Values(a, n) == {a[i] : i \in Cells(n)}

\* The cells from p on are those that reach the bound, but for values next to it.
LowerNear(a, n, p, lo) ==
    \A i \in Cells(n) : ~ (p <= i <=> a[i] >= lo) => NextTo(Values(a, n), a[i], lo)
\* The cells from p on are those that reach the bound.
LowerCut(a, n, p, lo) == \A i \in Cells(n) : p <= i <=> a[i] >= lo
\* The cells up to p are those below the bound, but for values next to it.
UpperNear(a, n, p, hi) ==
    \A i \in Cells(n) : ~ (i <= p <=> a[i] < hi) => NextTo(Values(a, n), a[i], hi)
\* The cells up to p are those below the bound.
UpperCut(a, n, p, hi) == \A i \in Cells(n) : i <= p <=> a[i] < hi

\* The search for a lower bound errs next to the bound only.
LEMMA FirstNear ==
    ASSUME NEW n \in Nat, n # 0, NEW a, Ascends(a, n), NEW lo \in Int, NEW p \in Cells(n),
           p = 0 \/ a[p] <= lo, p = n - 1 \/ lo <= a[p] \/ lo < a[p + 1]
    PROVE  LowerNear(a, n, p, lo)
<1>1. a \in [Cells(n) -> Int] /\ \A i, j \in Cells(n) : i <= j => a[i] <= a[j]
    BY DEF Ascends
<1>2. \A i \in Cells(n) : a[i] \in Int /\ i \in 0..(n - 1)
    BY <1>1 DEF Cells
<1>3. SUFFICES ASSUME NEW i \in Cells(n), ~ (p <= i <=> a[i] >= lo) PROVE NextTo(Values(a, n), a[i], lo)
    BY DEF LowerNear
<1>4. CASE i < p
    <2>1. a[i] >= lo /\ p # 0
        BY <1>4, <1>2, <1>3
    <2>2. a[i] <= a[p] /\ a[p] <= lo
        BY <2>1, <1>4, <1>1, <1>2
    <2>3. a[i] = lo
        BY <2>1, <2>2, <1>2
    <2> QED
        BY <2>3, <1>2, <1>1 DEF NextTo, Values
<1>5. CASE p <= i
    <2>1. a[i] < lo /\ a[p] <= a[i]
        BY <1>5, <1>1, <1>2, <1>3
    <2>2. ASSUME NEW j \in Cells(n) PROVE a[j] <= a[i] \/ lo <= a[j]
        <3>1. CASE j <= i
            BY <3>1, <1>1
        <3>2. CASE i < j
            <4>1. p # n - 1 /\ p + 1 \in Cells(n) /\ p + 1 <= j
                BY <3>2, <1>5, <1>2 DEF Cells
            <4>2. lo < a[p + 1] /\ a[p + 1] <= a[j]
                BY <4>1, <2>1, <1>1, <1>2
            <4> QED
                BY <4>1, <4>2, <1>2
        <3> QED
            BY <3>1, <3>2, <1>2
    <2> QED
        BY <2>1, <2>2, <1>2 DEF NextTo, Values
<1> QED
    BY <1>4, <1>5, <1>2

\* So does the one for a lower bound alone.
LEMMA AboveNear ==
    ASSUME NEW n \in Nat, n # 0, NEW a, Ascends(a, n), NEW lo \in Int, NEW p \in 0..n,
           p = 0 \/ a[p - 1] <= lo, p >= n - 1 \/ lo <= a[p]
    PROVE  LowerNear(a, n, p, lo)
<1>1. a \in [Cells(n) -> Int] /\ \A i, j \in Cells(n) : i <= j => a[i] <= a[j]
    BY DEF Ascends
<1>2. \A i \in Cells(n) : a[i] \in Int /\ i \in 0..(n - 1)
    BY <1>1 DEF Cells
<1>3. SUFFICES ASSUME NEW i \in Cells(n), ~ (p <= i <=> a[i] >= lo) PROVE NextTo(Values(a, n), a[i], lo)
    BY DEF LowerNear
<1>4. CASE i < p
    <2>1. a[i] >= lo /\ p # 0 /\ p - 1 \in Cells(n) /\ i <= p - 1
        BY <1>4, <1>2, <1>3 DEF Cells
    <2>2. a[i] <= a[p - 1] /\ a[p - 1] <= lo
        BY <2>1, <1>4, <1>1, <1>2
    <2>3. a[i] = lo
        BY <2>1, <2>2, <1>2
    <2> QED
        BY <2>3, <1>2, <1>1 DEF NextTo, Values
<1>5. CASE p <= i
    <2>1. a[i] < lo /\ p \in Cells(n)
        BY <1>5, <1>1, <1>2, <1>3 DEF Cells
    <2>2. a[p] <= a[i]
        BY <2>1, <1>1, <1>5
    <2>3. p = n - 1 /\ i = n - 1
        BY <2>1, <2>2, <1>2, <1>5
    <2>4. ASSUME NEW j \in Cells(n) PROVE a[j] <= a[i]
        BY <2>3, <1>1, <1>2
    <2> QED
        BY <2>1, <2>4, <1>2 DEF NextTo, Values
<1> QED
    BY <1>4, <1>5, <1>2

\* And the one for an upper bound, by whichever of two cells it ends.
LEMMA LastNear ==
    ASSUME NEW n \in Nat, n # 0, NEW a, Ascends(a, n), NEW hi \in Int, NEW p \in (-1)..(n - 1),
           p <= 0 \/ a[p] <= hi, p = n - 1 \/ hi <= a[p + 1]
    PROVE  UpperNear(a, n, p, hi) /\ UpperNear(a, n, p - 1, hi)
<1>1. a \in [Cells(n) -> Int] /\ \A i, j \in Cells(n) : i <= j => a[i] <= a[j]
    BY DEF Ascends
<1>2. \A i \in Cells(n) : a[i] \in Int /\ i \in 0..(n - 1)
    BY <1>1 DEF Cells
<1>3. ASSUME NEW i \in Cells(n), i <= p, a[i] >= hi PROVE NextTo(Values(a, n), a[i], hi)
    <2>1. p \in Cells(n) /\ a[i] <= a[p]
        <3>1. p \in Cells(n)
            BY <1>3, <1>2 DEF Cells
        <3> QED
            BY <3>1, <1>1, <1>3
    <2>2. CASE p = 0
        <3>1. \A j \in Cells(n) : a[i] <= a[j]
            BY <2>2, <1>1, <1>2, <1>3
        <3> QED
            BY <3>1, <1>3, <1>2 DEF NextTo, Values
    <2>3. CASE a[p] <= hi
        <3>1. a[i] = hi
            BY <2>1, <2>3, <1>2, <1>3
        <3> QED
            BY <3>1, <1>2, <1>1 DEF NextTo, Values
    <2> QED
        BY <2>1, <2>2, <2>3, <1>2
<1>4. ASSUME NEW i \in Cells(n), i > p PROVE a[i] >= hi
    <2>1. p + 1 \in Cells(n) /\ p # n - 1 /\ p + 1 <= i
        BY <1>4, <1>2 DEF Cells
    <2>2. hi <= a[p + 1] /\ a[p + 1] <= a[i]
        BY <2>1, <1>1
    <2> QED
        BY <2>1, <2>2, <1>2
<1>5. ASSUME NEW i \in Cells(n), i = p, a[i] < hi PROVE NextTo(Values(a, n), a[i], hi)
    <2>1. ASSUME NEW j \in Cells(n) PROVE a[j] <= a[i] \/ hi <= a[j]
        <3>1. CASE j <= i
            BY <3>1, <1>1
        <3>2. CASE i < j
            BY <3>2, <1>4, <1>2, <1>5
        <3> QED
            BY <3>1, <3>2, <1>2
    <2> QED
        BY <2>1, <1>2, <1>5 DEF NextTo, Values
<1>6. UpperNear(a, n, p, hi)
    <2> SUFFICES ASSUME NEW i \in Cells(n), ~ (i <= p <=> a[i] < hi) PROVE NextTo(Values(a, n), a[i], hi)
        BY DEF UpperNear
    <2>1. i <= p /\ a[i] >= hi
        BY <1>2, <1>4
    <2> QED
        BY <2>1, <1>3
<1>7. UpperNear(a, n, p - 1, hi)
    <2> SUFFICES ASSUME NEW i \in Cells(n), ~ (i <= p - 1 <=> a[i] < hi) PROVE NextTo(Values(a, n), a[i], hi)
        BY DEF UpperNear
    <2>1. (i <= p /\ a[i] >= hi) \/ (i = p /\ a[i] < hi)
        BY <1>2, <1>4
    <2> QED
        BY <2>1, <1>3, <1>5
<1> QED
    BY <1>6, <1>7

\* A lower bound that is a value, or below all, is found exactly.
LEMMA FirstCut ==
    ASSUME NEW n \in Nat, n # 0, NEW a, Ascends(a, n), Strict(a, n), NEW lo \in Int, NEW p \in Cells(n),
           p = 0 \/ a[p] <= lo, p = n - 1 \/ lo <= a[p] \/ lo < a[p + 1],
           (\A v \in Values(a, n) : lo <= v) \/ lo \in Values(a, n)
    PROVE  LowerCut(a, n, p, lo)
<1>1. a \in [Cells(n) -> Int] /\ \A i, j \in Cells(n) : i < j => a[i] < a[j]
    BY DEF Ascends, Strict
<1>2. \A i \in Cells(n) : a[i] \in Int /\ i \in 0..(n - 1)
    BY <1>1 DEF Cells
<1>3. CASE \A v \in Values(a, n) : lo <= v
    <2>1. \A i \in Cells(n) : lo <= a[i]
        BY <1>3 DEF Values
    <2>2. p = 0
        <3> SUFFICES ASSUME p # 0 PROVE FALSE
            OBVIOUS
        <3>1. 0 \in Cells(n) /\ 0 < p
            BY <1>2 DEF Cells
        <3>2. a[0] < a[p] /\ lo <= a[0]
            BY <3>1, <2>1, <1>1
        <3> QED
            BY <3>1, <3>2, <1>2
    <2>3. ASSUME NEW i \in Cells(n) PROVE p <= i /\ a[i] >= lo
        BY <2>1, <2>2, <1>2
    <2> QED
        BY <2>3 DEF LowerCut
<1>4. CASE lo \in Values(a, n)
    <2>1. PICK m \in Cells(n) : lo = a[m]
        BY <1>4 DEF Values
    <2>2. ~ (m < p)
        <3> SUFFICES ASSUME m < p PROVE FALSE
            OBVIOUS
        <3>1. a[m] < a[p] /\ p # 0
            BY <1>1, <1>2
        <3> QED
            BY <3>1, <2>1, <1>2
    <2>3. ~ (p < m)
        <3> SUFFICES ASSUME p < m PROVE FALSE
            OBVIOUS
        <3>1. a[p] < a[m] /\ p # n - 1 /\ p + 1 \in Cells(n) /\ p + 1 <= m
            BY <1>1, <1>2 DEF Cells
        <3>2. a[p + 1] <= a[m]
            BY <3>1, <1>1, <1>2
        <3> QED
            BY <3>1, <3>2, <2>1, <1>2
    <2>4. p = m
        BY <2>2, <2>3, <1>2
    <2>5. ASSUME NEW i \in Cells(n) PROVE m <= i <=> a[i] >= a[m]
        BY <1>1, <1>2
    <2> QED
        BY <2>1, <2>4, <2>5 DEF LowerCut
<1> QED
    BY <1>3, <1>4

\* A lower bound alone, between two values, is found exactly.
LEMMA AboveCut ==
    ASSUME NEW n \in Nat, n # 0, NEW a, Ascends(a, n), NEW lo \in Int, NEW p \in 0..n,
           p = 0 \/ a[p - 1] <= lo, p >= n - 1 \/ lo <= a[p],
           lo \notin Values(a, n), \E v \in Values(a, n) : lo < v
    PROVE  LowerCut(a, n, p, lo)
<1>1. a \in [Cells(n) -> Int] /\ \A i, j \in Cells(n) : i <= j => a[i] <= a[j]
    BY DEF Ascends
<1>2. \A i \in Cells(n) : a[i] \in Int /\ i \in 0..(n - 1) /\ a[i] # lo
    BY <1>1 DEF Cells, Values
<1>3. PICK m \in Cells(n) : lo < a[m]
    BY DEF Values
<1> SUFFICES ASSUME NEW i \in Cells(n) PROVE p <= i <=> a[i] >= lo
    BY DEF LowerCut
<1>4. CASE i < p
    <2>1. p # 0 /\ p - 1 \in Cells(n) /\ i <= p - 1
        BY <1>4, <1>2 DEF Cells
    <2>2. a[i] <= a[p - 1] /\ a[p - 1] <= lo
        BY <2>1, <1>4, <1>1, <1>2
    <2>3. ~ (a[i] >= lo)
        BY <2>1, <2>2, <1>2
    <2> QED
        BY <2>3, <1>4, <1>2
<1>5. CASE p <= i
    <2>1. p \in Cells(n)
        BY <1>5, <1>2 DEF Cells
    <2>2. CASE p >= n - 1
        <3>1. m <= i
            BY <2>2, <1>5, <1>2
        <3>2. a[m] <= a[i]
            BY <3>1, <1>1
        <3> QED
            BY <3>2, <1>2, <1>3, <1>5
    <2>3. CASE lo <= a[p]
        BY <2>1, <2>3, <1>1, <1>2, <1>5
    <2> QED
        BY <2>2, <2>3
<1> QED
    BY <1>4, <1>5, <1>2

\* An upper bound between two values, or above all, is found exactly.
LEMMA LastCut ==
    ASSUME NEW n \in Nat, n # 0, NEW a, Ascends(a, n), NEW hi \in Int, NEW p \in (-1)..(n - 1),
           p <= 0 \/ a[p] <= hi, p = n - 1 \/ hi <= a[p + 1],
           hi \notin Values(a, n), \E v \in Values(a, n) : v < hi
    PROVE  UpperCut(a, n, p, hi)
<1>1. a \in [Cells(n) -> Int] /\ \A i, j \in Cells(n) : i <= j => a[i] <= a[j]
    BY DEF Ascends
<1>2. \A i \in Cells(n) : a[i] \in Int /\ i \in 0..(n - 1) /\ a[i] # hi
    BY <1>1 DEF Cells, Values
<1>3. PICK m \in Cells(n) : a[m] < hi
    BY DEF Values
<1> SUFFICES ASSUME NEW i \in Cells(n) PROVE i <= p <=> a[i] < hi
    BY DEF UpperCut
<1>4. CASE i <= p
    <2>1. p \in Cells(n)
        BY <1>4, <1>2 DEF Cells
    <2>2. CASE p <= 0
        <3>1. a[i] <= a[m]
            BY <2>2, <1>4, <1>2, <1>1
        <3> QED
            BY <3>1, <1>2, <1>3, <1>4
    <2>3. CASE a[p] <= hi
        <3>1. a[i] <= a[p]
            BY <2>1, <1>4, <1>1
        <3> QED
            BY <3>1, <2>3, <2>1, <1>2, <1>4
    <2> QED
        BY <2>2, <2>3
<1>5. CASE p < i
    <2>1. p + 1 \in Cells(n) /\ p # n - 1 /\ p + 1 <= i
        BY <1>5, <1>2 DEF Cells
    <2>2. hi <= a[p + 1] /\ a[p + 1] <= a[i]
        BY <2>1, <1>1
    <2> QED
        BY <2>1, <2>2, <1>2, <1>5
<1> QED
    BY <1>4, <1>5, <1>2

-------------------------------------------------------------------------------
(* Sorted indexes *)

\* The sorted indexes (index.c).
SortTypes == {"CLUSTER_SORT", "UNCLUSTER_SORT"}

\* The places in the order of the values that a sorted index selects.
PlacesSelected(idx, data, n, lo, hi, behind) ==
    LET keys == IF idx.type = "CLUSTER_SORT" THEN data ELSE idx.copy
        first == Find(keys, n, lo, IF hi = INVALID_VAL /\ idx.type = "UNCLUSTER_SORT"
                                   THEN "GREATER" ELSE "GREATER_EQUAL", behind)
        last == Find(keys, n, hi, "LESS", behind)
    IN  IF hi = INVALID_VAL THEN Numbers(first, n - 1)
        ELSE IF last = -1 THEN << >>
        ELSE IF lo # INVALID_VAL THEN Numbers(first, last)
        ELSE Numbers(0, IF idx.type = "CLUSTER_SORT" THEN last - 1 ELSE last)

\* What the indexes need to select exactly.
SortAnswers(type, a, n, lo, hi) ==
    /\ Strict(a, n)
    /\ hi # INVALID_VAL => hi \notin Values(a, n) /\ \E v \in Values(a, n) : v < hi
    /\ lo # INVALID_VAL =>
           IF type = "UNCLUSTER_SORT" /\ hi = INVALID_VAL
           THEN lo \notin Values(a, n) /\ \E v \in Values(a, n) : lo < v
           ELSE (\A v \in Values(a, n) : lo <= v) \/ lo \in Values(a, n)
    /\ lo = INVALID_VAL => type = "UNCLUSTER_SORT"

\* The value is next to one of the bounds.
NearBound(values, v, lo, hi) ==
    \E b \in {lo, hi} : b # INVALID_VAL /\ NextTo(values, v, b)

\* The cells in "rows" are those within the bounds, but for values next to one.
AlmostWithin(a, n, rows, lo, hi) ==
    \A i \in Cells(n) : ~ (i \in rows <=> InRange(a[i], lo, hi)) => NearBound(Values(a, n), a[i], lo, hi)
\* The cells in "rows" are those within the bounds.
Within(a, n, rows, lo, hi) == \A i \in Cells(n) : i \in rows <=> InRange(a[i], lo, hi)

\* A sorted index selects within the bounds but for values next to them, and
\* exactly under the conditions.
LEMMA PlacesRight ==
    ASSUME NEW idx, idx.type \in SortTypes, NEW n \in Nat, n # 0, NEW data, NEW keys,
           keys = (IF idx.type = "CLUSTER_SORT" THEN data ELSE idx.copy), Ascends(keys, n),
           NEW lo \in Int, NEW hi \in Int, lo # INVALID_VAL \/ hi # INVALID_VAL, NEW behind \in Int
    PROVE  \E rows \in SUBSET Cells(n) :
               /\ Lists(PlacesSelected(idx, data, n, lo, hi, behind), rows)
               /\ Len(PlacesSelected(idx, data, n, lo, hi, behind)) \in 0..n
               /\ AlmostWithin(keys, n, rows, lo, hi)
               /\ SortAnswers(idx.type, keys, n, lo, hi) => Within(keys, n, rows, lo, hi)
<1> DEFINE places == PlacesSelected(idx, data, n, lo, hi, behind)
           lower == Find(keys, n, lo, "GREATER_EQUAL", behind)
           above == Find(keys, n, lo, "GREATER", behind)
           last == Find(keys, n, hi, "LESS", behind)
           held == SortAnswers(idx.type, keys, n, lo, hi)
           Good(rows) == /\ rows \in SUBSET Cells(n)
                         /\ Lists(places, rows)
                         /\ Len(places) \in 0..n
                         /\ AlmostWithin(keys, n, rows, lo, hi)
                         /\ held => Within(keys, n, rows, lo, hi)
<1>1. keys \in [Cells(n) -> Int] /\ \A i \in Cells(n) : i \in 0..(n - 1) /\ keys[i] \in Int
    BY DEF Ascends, Cells
<1>2. /\ lower \in Cells(n) /\ lower \in 0..(n - 1)
      /\ LowerNear(keys, n, lower, lo)
      /\ held /\ lo # INVALID_VAL /\ (hi # INVALID_VAL \/ idx.type # "UNCLUSTER_SORT")
             => LowerCut(keys, n, lower, lo)
    <2>1. /\ lower \in Cells(n) /\ (lower = 0 \/ keys[lower] <= lo)
          /\ lower = n - 1 \/ lo <= keys[lower] \/ lo < keys[lower + 1]
        BY FindFirst
    <2> HIDE DEF lower
    <2>2. LowerNear(keys, n, lower, lo)
        BY <2>1, FirstNear
    <2>3. ASSUME held, lo # INVALID_VAL, hi # INVALID_VAL \/ idx.type # "UNCLUSTER_SORT"
          PROVE  LowerCut(keys, n, lower, lo)
        <3>1. Strict(keys, n) /\ ((\A v \in Values(keys, n) : lo <= v) \/ lo \in Values(keys, n))
            BY <2>3 DEF SortAnswers
        <3> QED
            BY <3>1, <2>1, FirstCut
    <2> QED
        BY <2>1, <2>2, <2>3, <1>1
<1>3. /\ above \in 0..n
      /\ LowerNear(keys, n, above, lo)
      /\ held /\ lo # INVALID_VAL /\ hi = INVALID_VAL /\ idx.type = "UNCLUSTER_SORT"
             => LowerCut(keys, n, above, lo)
    <2>1. /\ above \in 0..n /\ (above = 0 \/ keys[above - 1] <= lo)
          /\ above >= n - 1 \/ lo <= keys[above]
        BY FindAbove
    <2> HIDE DEF above
    <2>2. LowerNear(keys, n, above, lo)
        BY <2>1, AboveNear
    <2>3. ASSUME held, lo # INVALID_VAL, hi = INVALID_VAL, idx.type = "UNCLUSTER_SORT"
          PROVE  LowerCut(keys, n, above, lo)
        <3>1. Strict(keys, n) /\ lo \notin Values(keys, n) /\ \E v \in Values(keys, n) : lo < v
            BY <2>3 DEF SortAnswers
        <3> QED
            BY <3>1, <2>1, AboveCut
    <2> QED
        BY <2>1, <2>2, <2>3
<1>4. /\ last \in (-1)..(n - 1)
      /\ UpperNear(keys, n, last, hi) /\ UpperNear(keys, n, last - 1, hi)
      /\ held /\ hi # INVALID_VAL => UpperCut(keys, n, last, hi)
    <2>1. /\ last \in (-1)..(n - 1) /\ (last <= 0 \/ keys[last] <= hi)
          /\ last = n - 1 \/ hi <= keys[last + 1]
        BY FindLast
    <2> HIDE DEF last
    <2>2. UpperNear(keys, n, last, hi) /\ UpperNear(keys, n, last - 1, hi)
        BY <2>1, LastNear
    <2>3. ASSUME held, hi # INVALID_VAL
          PROVE  UpperCut(keys, n, last, hi)
        <3>1. hi \notin Values(keys, n) /\ \E v \in Values(keys, n) : v < hi
            BY <2>3 DEF SortAnswers
        <3> QED
            BY <3>1, <2>1, LastCut
    <2> QED
        BY <2>1, <2>2, <2>3
<1>5. places = IF hi = INVALID_VAL
               THEN Numbers(IF idx.type = "UNCLUSTER_SORT" THEN above ELSE lower, n - 1)
               ELSE IF last = -1 THEN << >>
               ELSE IF lo # INVALID_VAL THEN Numbers(lower, last)
               ELSE Numbers(0, IF idx.type = "CLUSTER_SORT" THEN last - 1 ELSE last)
    BY DEF PlacesSelected
<1> HIDE DEF places, lower, above, last, held
<1>6. SUFFICES \E rows : Good(rows)
    BY DEF places, held
<1>7. CASE hi = INVALID_VAL
    <2> DEFINE from == IF idx.type = "UNCLUSTER_SORT" THEN above ELSE lower
               rows == from..(n - 1)
    <2>1. from \in 0..n /\ LowerNear(keys, n, from, lo) /\ (held => LowerCut(keys, n, from, lo))
        BY <1>2, <1>3, <1>7
    <2> HIDE DEF from
    <2>2. places = Numbers(from, n - 1)
        BY <1>5, <1>7 DEF from
    <2>3. Lists(places, rows) /\ Len(places) = IF n - 1 < from THEN 0 ELSE n - 1 - from + 1
        <3>1. from \in Int /\ n - 1 \in Int
            BY <2>1
        <3> QED
            BY <3>1, <2>2, NumbersListed, Zenon
    <2>4. Len(places) \in 0..n /\ rows \in SUBSET Cells(n)
        BY <2>1, <2>3 DEF Cells
    <2>5. ASSUME NEW i \in Cells(n) PROVE (i \in rows <=> from <= i) /\ (InRange(keys[i], lo, hi) <=> keys[i] >= lo)
        BY <1>1, <1>7, <2>1 DEF InRange
    <2> HIDE DEF rows
    <2>6. AlmostWithin(keys, n, rows, lo, hi)
        BY <2>1, <2>5, <1>7 DEF AlmostWithin, LowerNear, NearBound
    <2>7. held => Within(keys, n, rows, lo, hi)
        BY <2>1, <2>5 DEF Within, LowerCut
    <2>8. Good(rows)
        BY <2>3, <2>4, <2>6, <2>7
    <2> QED
        BY <2>8
<1>8. CASE hi # INVALID_VAL /\ last = -1
    <2> DEFINE rows == {}
    <2>1. Lists(places, rows) /\ Len(places) = 0 /\ places = << >>
        BY <1>5, <1>8, ListsNothing, EmptySeq
    <2>2. ASSUME NEW i \in Cells(n) PROVE ~ (i <= last) /\ (InRange(keys[i], lo, hi) => keys[i] < hi)
        BY <1>1, <1>8 DEF InRange
    <2>3. AlmostWithin(keys, n, rows, lo, hi)
        BY <2>2, <1>4, <1>8 DEF AlmostWithin, UpperNear, NearBound
    <2>4. held => Within(keys, n, rows, lo, hi)
        BY <2>2, <1>4, <1>8 DEF Within, UpperCut
    <2>5. Good(rows)
        BY <2>1, <2>3, <2>4
    <2> QED
        BY <2>5
<1>9. CASE hi # INVALID_VAL /\ last # -1 /\ lo # INVALID_VAL
    <2> DEFINE rows == lower..last
    <2>1. places = Numbers(lower, last)
        BY <1>5, <1>9
    <2>2. Lists(places, rows) /\ Len(places) = IF last < lower THEN 0 ELSE last - lower + 1
        <3>1. lower \in Int /\ last \in Int
            BY <1>2, <1>4
        <3> QED
            BY <3>1, <2>1, NumbersListed, Zenon
    <2>3. Len(places) \in 0..n /\ rows \in SUBSET Cells(n)
        BY <2>2, <1>2, <1>4 DEF Cells
    <2>4. ASSUME NEW i \in Cells(n)
          PROVE  /\ i \in rows <=> lower <= i /\ i <= last
                 /\ InRange(keys[i], lo, hi) <=> keys[i] >= lo /\ keys[i] < hi
        BY <1>1, <1>2, <1>4, <1>9 DEF InRange
    <2> HIDE DEF rows
    <2>5. AlmostWithin(keys, n, rows, lo, hi)
        BY <2>4, <1>2, <1>4, <1>9 DEF AlmostWithin, LowerNear, UpperNear, NearBound
    <2>6. held => Within(keys, n, rows, lo, hi)
        BY <2>4, <1>2, <1>4, <1>9 DEF Within, UpperCut, LowerCut
    <2>7. Good(rows)
        BY <2>2, <2>3, <2>5, <2>6
    <2> QED
        BY <2>7
<1>10. CASE hi # INVALID_VAL /\ last # -1 /\ lo = INVALID_VAL
    <2> DEFINE to == IF idx.type = "CLUSTER_SORT" THEN last - 1 ELSE last
               rows == 0..to
    <2>1. to \in (-1)..(n - 1) /\ UpperNear(keys, n, to, hi) /\ (held => UpperCut(keys, n, to, hi))
        <3>1. held => idx.type = "UNCLUSTER_SORT"
            BY <1>10 DEF held, SortAnswers
        <3> QED
            BY <3>1, <1>4, <1>10
    <2> HIDE DEF to
    <2>2. places = Numbers(0, to)
        BY <1>5, <1>10 DEF to
    <2>3. Lists(places, rows) /\ Len(places) = IF to < 0 THEN 0 ELSE to - 0 + 1
        <3>1. to \in Int /\ 0 \in Int
            BY <2>1
        <3> QED
            BY <3>1, <2>2, NumbersListed, Zenon
    <2>4. Len(places) \in 0..n /\ rows \in SUBSET Cells(n)
        BY <2>1, <2>3 DEF Cells
    <2>5. ASSUME NEW i \in Cells(n) PROVE (i \in rows <=> i <= to) /\ (InRange(keys[i], lo, hi) <=> keys[i] < hi)
        BY <1>1, <1>10, <2>1 DEF InRange
    <2> HIDE DEF rows
    <2>6. AlmostWithin(keys, n, rows, lo, hi)
        BY <2>1, <2>5, <1>10 DEF AlmostWithin, UpperNear, NearBound
    <2>7. held => Within(keys, n, rows, lo, hi)
        BY <2>1, <2>5 DEF Within, UpperCut
    <2>8. Good(rows)
        BY <2>3, <2>4, <2>6, <2>7
    <2> QED
        BY <2>8
<1> QED
    BY <1>7, <1>8, <1>9, <1>10

-------------------------------------------------------------------------------
(* Columns without a tree *)

\* A column without an index or with a sorted one, as a load leaves it.
SortedColumn(col) ==
    /\ col.size \in Nat /\ col.data \in [Cells(col.size) -> Int]
    /\ col.index.type \in SortTypes \union {"NONE"}
    /\ col.index.type \in SortTypes => col.size # 0 /\ col.index.built
    /\ col.index.type = "CLUSTER_SORT" => Ascends(col.data, col.size)
    /\ col.index.type = "UNCLUSTER_SORT" =>
           Mirrors(col.index.copy, col.index.positions, col.data, col.size)

\* As many values as cells: in order, they rise.
LEMMA StrictIfDifferent ==
    ASSUME NEW n \in Nat, NEW a, Ascends(a, n), Cardinality(Values(a, n)) = n
    PROVE  Strict(a, n)
<1>1. a \in [Cells(n) -> Int] /\ \A i, j \in Cells(n) : i <= j => a[i] <= a[j]
    BY DEF Ascends
<1>2. a \in [Cells(n) -> Values(a, n)]
    BY <1>1 DEF Values
<1>3. a \in Surjection(Cells(n), Values(a, n))
    BY <1>2 DEF Surjection, Values
<1>4. IsFiniteSet(Cells(n)) /\ Cardinality(Cells(n)) = n
    <2>1. 0 \in Int /\ n - 1 \in Int /\ (0 > n - 1 <=> n = 0) /\ n - 1 - 0 + 1 = n
        OBVIOUS
    <2>2. /\ IsFiniteSet(0..(n - 1))
          /\ Cardinality(0..(n - 1)) = IF 0 > n - 1 THEN 0 ELSE n - 1 - 0 + 1
        BY <2>1, FS_Interval
    <2> QED
        BY <2>1, <2>2 DEF Cells
<1>5. IsFiniteSet(Values(a, n))
    BY <1>3, <1>4, FS_Surjection
<1>6. a \in Injection(Cells(n), Values(a, n))
    BY <1>3, <1>4, <1>5, FS_SurjSameCardinalityImpliesInj
<1>7. \A i, j \in Cells(n) : a[i] = a[j] => i = j
    BY <1>6, <1>1 DEF Injection, IsInjective
<1>8. ASSUME NEW i \in Cells(n), NEW j \in Cells(n), i < j PROVE a[i] < a[j]
    <2>1. i # j /\ i <= j
        BY <1>8 DEF Cells
    <2>2. a[i] # a[j] /\ a[i] <= a[j] /\ a[i] \in Int /\ a[j] \in Int
        BY <2>1, <1>1, <1>7
    <2> QED
        BY <2>2
<1> QED
    BY <1>8 DEF Strict

\* The sorted copy has the values of the column.
LEMMA MirrorsValues ==
    ASSUME NEW n \in Nat, NEW data, NEW copy, NEW positions, Mirrors(copy, positions, data, n)
    PROVE  Values(copy, n) = Values(data, n)
<1>1. ASSUME NEW i \in Cells(n) PROVE copy[i] \in Values(data, n)
    BY DEF Mirrors, Values
<1>2. ASSUME NEW r \in Cells(n) PROVE data[r] \in Values(copy, n)
    <2>1. PICK i \in Cells(n) : positions[i] = r
        BY DEF Mirrors
    <2>2. copy[i] = data[r]
        BY <2>1 DEF Mirrors
    <2> QED
        BY <2>2 DEF Values
<1> QED
    BY <1>1, <1>2 DEF Values

\* The conditions of Query are those of the sorted indexes.
LEMMA AnswersKept ==
    ASSUME NEW col, SortedColumn(col), col.index.type \in SortTypes, NEW keys,
           keys = (IF col.index.type = "CLUSTER_SORT" THEN col.data ELSE col.index.copy),
           NEW lo \in Int, NEW hi \in Int, IndexAnswers(col, lo, hi)
    PROVE  SortAnswers(col.index.type, keys, col.size, lo, hi)
<1> DEFINE n == col.size
           values == Values(keys, n)
<1>1. n \in Nat /\ Ascends(keys, n)
    BY DEF SortedColumn, Mirrors, SortTypes
<1>2. values = {col.data[i] : i \in Cells(n)}
    <2>1. CASE col.index.type = "CLUSTER_SORT"
        BY <2>1 DEF Values
    <2>2. CASE col.index.type # "CLUSTER_SORT"
        <3>1. Mirrors(keys, col.index.positions, col.data, n)
            BY <2>2 DEF SortedColumn, SortTypes
        <3>2. values = Values(col.data, n)
            BY <3>1, <1>1, MirrorsValues
        <3> QED
            BY <3>2 DEF Values
    <2> QED
        BY <2>1, <2>2
<1>3. col.index.type \notin {"CLUSTER_BTREE", "UNCLUSTER_BTREE"}
    BY DEF SortTypes
<1>4. /\ Cardinality(values) = n
      /\ hi # INVALID_VAL => hi \notin values /\ \E v \in values : v < hi
      /\ lo # INVALID_VAL =>
             IF col.index.type = "UNCLUSTER_SORT" /\ hi = INVALID_VAL
             THEN lo \notin values /\ \E v \in values : lo < v
             ELSE (\A v \in values : lo <= v) \/ lo \in values
      /\ lo = INVALID_VAL => col.index.type = "UNCLUSTER_SORT"
    <2> HIDE DEF values
    <2> QED BY <1>2, <1>3 DEF IndexAnswers
<1>5. Strict(keys, n)
    BY <1>1, <1>4, StrictIfDifferent
<1> QED
    BY <1>4, <1>5 DEF SortAnswers

\* A select through a sorted index (db_select_index_op) comes to its end and
\* lists rows that are wrong at most next to the bounds, and are exact under the
\* conditions.
LEMMA AnswerRight ==
    ASSUME NEW col, SortedColumn(col), col.index.type \in SortTypes,
           NEW lo \in Int, NEW hi \in Int, lo # INVALID_VAL \/ hi # INVALID_VAL, NEW behind \in Int
    PROVE  LET a == Answer(col.index, col.data, col.size, lo, hi, behind)
           IN  /\ a.ok
               /\ \E rows \in SUBSET Cells(col.size) :
                      /\ Lists(a.positions, rows)
                      /\ AlmostWithin(col.data, col.size, rows, lo, hi)
                      /\ IndexAnswers(col, lo, hi) => Within(col.data, col.size, rows, lo, hi)
<1> DEFINE n == col.size
           idx == col.index
           data == col.data
           keys == IF idx.type = "CLUSTER_SORT" THEN data ELSE idx.copy
           places == PlacesSelected(idx, data, n, lo, hi, behind)
           held == IndexAnswers(col, lo, hi)
           stored == Filled(idx.positions, n + 1, behind)
           listed == IF idx.type = "CLUSTER_SORT" THEN places
                     ELSE [k \in DOMAIN places |-> stored[places[k]]]
           Good(s, rows) == /\ Lists(s, rows)
                            /\ AlmostWithin(data, n, rows, lo, hi)
                            /\ held => Within(data, n, rows, lo, hi)
<1>1. n \in Nat /\ n # 0 /\ Ascends(keys, n) /\ idx.built
    BY DEF SortedColumn, Mirrors, SortTypes
<1>2. SortedAnswer(idx, data, n, lo, hi, behind) = Answered(listed)
    BY DEF SortedAnswer, PlacesSelected
<1>3. Answer(idx, data, n, lo, hi, behind) = IF Len(listed) \in 0..n THEN Answered(listed) ELSE Crash
    <2> HIDE DEF listed, idx, data, n
    <2>1. idx.type = "CLUSTER_SORT" \/ idx.type = "UNCLUSTER_SORT"
        BY DEF SortTypes, idx
    <2>2. Answered(listed).positions = listed
        BY DEF Answered
    <2>3. SortedAnswer(idx, data, n, lo, hi, behind) = Answered(listed)
        BY <1>2
    <2>4. idx.built
        BY <1>1
    <2> QED
        BY <2>1, <2>2, <2>3, <2>4 DEF Answer
<1>4. PICK picked \in SUBSET Cells(n) :
          /\ Lists(places, picked)
          /\ Len(places) \in 0..n
          /\ AlmostWithin(keys, n, picked, lo, hi)
          /\ SortAnswers(idx.type, keys, n, lo, hi) => Within(keys, n, picked, lo, hi)
    <2> HIDE DEF n, data
    <2>1. n \in Nat /\ n # 0 /\ Ascends(keys, n)
        BY <1>1
    <2> QED
        BY <2>1, PlacesRight DEF n, data
<1>5. held => Within(keys, n, picked, lo, hi)
    BY <1>4, AnswersKept
<1> HIDE DEF held, places
<1>6. Len(listed) = Len(places) /\ \E rows \in SUBSET Cells(n) : Good(listed, rows)
    <2>1. CASE idx.type = "CLUSTER_SORT"
        <3>1. listed = places /\ keys = data
            BY <2>1
        <3>2. Good(listed, picked)
            BY <3>1, <1>4, <1>5
        <3> QED
            BY <3>1, <3>2, <1>4
    <2>2. CASE idx.type = "UNCLUSTER_SORT"
        <3> DEFINE pos == idx.positions
                   f == [i \in picked |-> pos[i]]
                   rows == {f[i] : i \in picked}
        <3>1. Mirrors(keys, pos, data, n)
            BY <2>2 DEF SortedColumn
        <3> HIDE DEF n, data, pos, keys
        <3>2. /\ pos \in [Cells(n) -> Cells(n)]
              /\ \A i, j \in Cells(n) : pos[i] = pos[j] => i = j
              /\ \A r \in Cells(n) : \E i \in Cells(n) : pos[i] = r
              /\ \A i \in Cells(n) : keys[i] = data[pos[i]]
            BY <3>1 DEF Mirrors
        <3>3. places \in Seq(picked) /\ Len(places) \in Nat /\ DOMAIN places = 1..Len(places)
              /\ \A k \in 1..Len(places) : places[k] \in picked
            BY <1>4, LenProperties, ElementOfSeq DEF Lists
        <3>4. ASSUME NEW i \in picked PROVE stored[i] = f[i] /\ f[i] = pos[i] /\ i \in Cells(n)
            <4>1. i \in Cells(n) /\ i \in Cells(n + 1)
                BY <1>1, <1>4 DEF Cells, n
            <4>2. stored[i] = pos[i]
                BY <4>1, <3>2 DEF Filled, Cell, pos
            <4> QED
                BY <4>1, <4>2
        <3> HIDE DEF stored, f
        <3>5. listed = [k \in 1..Len(places) |-> f[places[k]]]
            <4>1. listed = [k \in 1..Len(places) |-> stored[places[k]]]
                BY <2>2, <3>3
            <4>2. \A k \in 1..Len(places) : stored[places[k]] = f[places[k]]
                BY <3>3, <3>4
            <4> HIDE DEF listed
            <4> QED
                BY <4>1, <4>2, Zenon
        <3>6. DOMAIN f = picked /\ \A x, y \in picked : f[x] = f[y] => x = y
            <4>1. DOMAIN f = picked
                BY DEF f
            <4> QED
                BY <4>1, <3>2, <3>4
        <3> HIDE DEF listed
        <3>7. Lists(listed, rows)
            BY <3>5, <3>6, <1>4, ListsImage, SMTT(60)
        <3>8. Len(listed) = Len(places)
            <4>1. Len(listed) \in Nat /\ DOMAIN listed = 1..Len(listed)
                BY <3>7, LenProperties DEF Lists
            <4>2. DOMAIN listed = 1..Len(places)
                BY <3>5
            <4> QED
                BY <4>1, <4>2, <3>3, SameInterval, ZenonT(60)
        <3>9. rows \in SUBSET Cells(n)
            BY <3>2, <3>4
        <3>10. ASSUME NEW r \in Cells(n)
               PROVE  \E i \in Cells(n) : data[r] = keys[i] /\ (r \in rows <=> i \in picked)
            <4>1. PICK i \in Cells(n) : pos[i] = r
                BY <3>2
            <4>2. keys[i] = data[r]
                BY <4>1, <3>2
            <4>3. i \in picked => r \in rows
                BY <4>1, <3>4
            <4>4. ASSUME r \in rows PROVE i \in picked
                <5>1. PICK j \in picked : f[j] = r
                    BY <4>4
                <5>2. pos[j] = pos[i] /\ j \in Cells(n)
                    BY <5>1, <4>1, <3>4
                <5>3. j = i
                    BY <5>2, <3>2
                <5> QED
                    BY <5>1, <5>3
            <4> QED
                BY <4>2, <4>3, <4>4
        <3>11. Values(keys, n) = Values(data, n)
            BY <3>1, <1>1, MirrorsValues DEF n
        <3> HIDE DEF rows
        <3>12. AlmostWithin(data, n, rows, lo, hi)
            <4> SUFFICES ASSUME NEW r \in Cells(n), ~ (r \in rows <=> InRange(data[r], lo, hi))
                         PROVE  NearBound(Values(data, n), data[r], lo, hi)
                BY DEF AlmostWithin
            <4>1. PICK i \in Cells(n) : data[r] = keys[i] /\ (r \in rows <=> i \in picked)
                BY <3>10
            <4>2. ~ (i \in picked <=> InRange(keys[i], lo, hi))
                BY <4>1
            <4>3. NearBound(Values(keys, n), keys[i], lo, hi)
                BY <4>2, <1>4 DEF AlmostWithin
            <4> QED
                BY <4>1, <4>3, <3>11
        <3>13. held => Within(data, n, rows, lo, hi)
            <4> SUFFICES ASSUME held, NEW r \in Cells(n) PROVE r \in rows <=> InRange(data[r], lo, hi)
                BY DEF Within
            <4>1. PICK i \in Cells(n) : data[r] = keys[i] /\ (r \in rows <=> i \in picked)
                BY <3>10
            <4>2. i \in picked <=> InRange(keys[i], lo, hi)
                BY <1>5 DEF Within
            <4> QED
                BY <4>1, <4>2
        <3> QED
            BY <3>7, <3>8, <3>9, <3>12, <3>13
    <2> QED
        BY <2>1, <2>2 DEF SortTypes
<1>7. Answer(idx, data, n, lo, hi, behind) = Answered(listed)
    BY <1>3, <1>4, <1>6
<1>8. Answered(listed).ok /\ Answered(listed).positions = listed
    BY DEF Answered
<1> HIDE DEF listed
<1>9. PICK rows \in SUBSET Cells(n) : Good(listed, rows)
    BY <1>6
<1> QED
    BY <1>7, <1>8, <1>9 DEF held

-------------------------------------------------------------------------------
(* Loads *)

\* A load leaves columns of one length with the index built (build_index).
LEMMA LoadedSorted ==
    ASSUME NEW rows \in Seq(Int \X Int), NEW type \in SortTypes \union {"NONE"},
           type \in SortTypes => rows # << >>, NEW behind
    PROVE  LET cols == Loaded(rows, type, behind)
           IN  \A c \in Places : /\ SortedColumn(cols[c]) /\ cols[c].size = Len(rows)
                                 /\ cols[c].index.type = IF c = 2 THEN "NONE" ELSE type
<1> DEFINE n == Len(rows)
           col(c) == [i \in Cells(n) |-> rows[i + 1][c]]
           order == SortedPositions(SortUnits(col(1), n))
           sorted(c) == [i \in Cells(n) |-> col(c)[order[i]]]
           data(c) == IF type \in ClusteredTypes THEN sorted(c) ELSE col(c)
           index(c) == IF c = 2 \/ type = "NONE" THEN NewIndex("NONE")
                       ELSE IF type \in ClusteredTypes
                       THEN BuildClustered(NewIndex(type), data(1), n, behind)
                       ELSE BuildUnclustered(NewIndex(type), data(1), n)
           cols == Loaded(rows, type, behind)
<1>1. n \in Nat /\ (type \in SortTypes => n # 0)
    BY EmptySeq, LenProperties
<1>2. ASSUME NEW c \in Places PROVE col(c) \in [Cells(n) -> Int]
    <2>1. ASSUME NEW i \in Cells(n) PROVE rows[i + 1][c] \in Int
        <3>1. i + 1 \in 1..Len(rows)
            BY <1>1 DEF Cells
        <3>2. rows[i + 1] \in Int \X Int
            BY <3>1, ElementOfSeq
        <3>3. c = 1 \/ c = 2
            BY DEF Places
        <3> QED
            BY <3>2, <3>3
    <2> QED
        BY <2>1
<1>3. 1 \in Places /\ 2 \in Places
    BY DEF Places
<1>4. cols = [c \in Places |-> [data |-> data(c), size |-> n, index |-> index(c)]]
    BY Zenon DEF Loaded
<1> HIDE DEF cols, n, col
<1>5. type \in SortTypes => Mirrors(SortedValues(SortUnits(col(1), n)), order, col(1), n)
    BY <1>1, <1>2, <1>3, UnitsSorted
<1>6. type \in ClusteredTypes <=> type = "CLUSTER_SORT"
    BY DEF ClusteredTypes, SortTypes
<1>7. ASSUME NEW c \in Places PROVE data(c) \in [Cells(n) -> Int]
    <2>1. CASE type = "CLUSTER_SORT"
        <3>1. order \in [Cells(n) -> Cells(n)]
            BY <2>1, <1>5 DEF Mirrors, SortTypes
        <3> HIDE DEF order
        <3> QED
            BY <3>1, <2>1, <1>2, <1>6
    <2>2. CASE type # "CLUSTER_SORT"
        BY <2>2, <1>2, <1>6
    <2> QED
        BY <2>1, <2>2
<1>8. type = "CLUSTER_SORT" => Ascends(data(1), n)
    <2> SUFFICES ASSUME type = "CLUSTER_SORT" PROVE Ascends(data(1), n)
        OBVIOUS
    <2> DEFINE copy == SortedValues(SortUnits(col(1), n))
    <2>1. /\ Ascends(copy, n) /\ order \in [Cells(n) -> Cells(n)]
          /\ \A i \in Cells(n) : copy[i] = col(1)[order[i]]
        BY <1>5 DEF Mirrors, SortTypes
    <2>2. data(1) = sorted(1)
        BY <1>6
    <2> HIDE DEF copy, order
    <2>3. \A i \in Cells(n) : sorted(1)[i] = copy[i]
        BY <2>1
    <2>4. data(1) \in [Cells(n) -> Int] /\ \A i, j \in Cells(n) : copy[i] <= copy[j] => sorted(1)[i] <= sorted(1)[j]
        BY <2>3, <1>3, <1>7
    <2> HIDE DEF sorted
    <2> QED
        BY <2>1, <2>2, <2>4 DEF Ascends
<1>9. type = "UNCLUSTER_SORT" => Mirrors(SortedValues(SortUnits(data(1), n)),
                                       SortedPositions(SortUnits(data(1), n)), data(1), n)
    <2>1. type = "UNCLUSTER_SORT" => data(1) = col(1) /\ type \in SortTypes
        BY <1>6 DEF SortTypes
    <2> QED
        BY <2>1, <1>5
<1> HIDE DEF order, sorted, data
<1>10. \A c \in Places : index(c).type = IF c = 2 THEN "NONE" ELSE type
    <2>1. \A c \in Places : c = 1 \/ c = 2
        BY DEF Places
    <2>2. type = "NONE" \/ type = "CLUSTER_SORT" \/ type = "UNCLUSTER_SORT"
        BY DEF SortTypes
    <2> QED
        BY <2>1, <2>2, <1>6 DEF NewIndex, BuildClustered, BuildUnclustered, SortTypes
<1>11. type = "CLUSTER_SORT" => index(1).built
    BY <1>6 DEF NewIndex, BuildClustered
<1>12. type = "UNCLUSTER_SORT" =>
           /\ index(1).built
           /\ index(1).copy = SortedValues(SortUnits(data(1), n))
           /\ index(1).positions = SortedPositions(SortUnits(data(1), n))
    BY <1>6 DEF NewIndex, BuildUnclustered
<1> HIDE DEF index
<1>13. ASSUME NEW c \in Places
       PROVE  /\ SortedColumn([data |-> data(c), size |-> n, index |-> index(c)])
    <2> DEFINE full == [data |-> data(c), size |-> n, index |-> index(c)]
    <2> SUFFICES SortedColumn(full)
        OBVIOUS
    <2>1. full.data = data(c) /\ full.size = n /\ full.index = index(c)
        OBVIOUS
    <2>2. c = 1 \/ c = 2
        BY DEF Places
    <2>3. full.size \in Nat /\ full.data \in [Cells(full.size) -> Int]
        BY <2>1, <1>1, <1>7
    <2> HIDE DEF full
    <2>4. full.index.type \in SortTypes \union {"NONE"}
        BY <2>1, <1>10
    <2>5. CASE full.index.type = "NONE"
        BY <2>5, <2>3 DEF SortedColumn, SortTypes
    <2>6. CASE full.index.type \in SortTypes
        <3>1. c = 1 /\ full.index.type = type
            BY <2>6, <2>1, <2>2, <1>10 DEF SortTypes
        <3>2. full.size # 0
            BY <3>1, <2>6, <2>1, <1>1
        <3>3. full.index.built
            BY <3>1, <2>1, <2>6, <1>11, <1>12 DEF SortTypes
        <3>4. full.index.type = "CLUSTER_SORT" => Ascends(full.data, full.size)
            BY <3>1, <2>1, <1>8
        <3>5. full.index.type = "UNCLUSTER_SORT" =>
                  Mirrors(full.index.copy, full.index.positions, full.data, full.size)
            BY <3>1, <2>1, <1>9, <1>12
        <3> QED
            BY <2>3, <2>4, <3>2, <3>3, <3>4, <3>5 DEF SortedColumn
    <2> QED
        BY <2>4, <2>5, <2>6
<1>14. ASSUME NEW c \in Places
       PROVE  /\ SortedColumn(cols[c]) /\ cols[c].size = Len(rows)
              /\ cols[c].index.type = IF c = 2 THEN "NONE" ELSE type
    <2>1. cols[c] = [data |-> data(c), size |-> n, index |-> index(c)]
        BY <1>4
    <2> QED
        BY <2>1, <1>13, <1>10 DEF n
<1> QED
    BY <1>14 DEF cols

-------------------------------------------------------------------------------
(* What a join is for *)

\* Positions of the two tables.
Pair == Int \X Int

\* The inputs of a join: positions that differ, with a value for each.
Inputs(v1, s1, v2, s2) ==
    /\ v1 \in Seq(Int) /\ s1 \in Seq(Int) /\ Len(v1) = Len(s1) /\ Distinct(s1)
    /\ v2 \in Seq(Int) /\ s2 \in Seq(Int) /\ Len(v2) = Len(s2) /\ Distinct(s2)

\* What a join should answer about the rows of I and J.
PairsIn(v1, s1, v2, s2, I, J) ==
    {<<s1[p[1]], s2[p[2]]>> : p \in {q \in I \X J : v1[q[1]] = v2[q[2]]}}
\* Some of the rows of an input.
RowsOf(I, s) == I \subseteq 1..Len(s)
\* What a join should answer.
Wanted(v1, s1, v2, s2) == PairsIn(v1, s1, v2, s2, 1..Len(v1), 1..Len(v2))

\* A wanted pair is one of rows with the same value.
LEMMA PairsAre ==
    ASSUME NEW v1, NEW s1, NEW v2, NEW s2, NEW I, NEW J, NEW z
    PROVE  z \in PairsIn(v1, s1, v2, s2, I, J) <=>
               \E i \in I, j \in J : v1[i] = v2[j] /\ z = <<s1[i], s2[j]>>
<1>1. ASSUME z \in PairsIn(v1, s1, v2, s2, I, J)
      PROVE  \E i \in I, j \in J : v1[i] = v2[j] /\ z = <<s1[i], s2[j]>>
    <2>1. PICK p \in {q \in I \X J : v1[q[1]] = v2[q[2]]} : z = <<s1[p[1]], s2[p[2]]>>
        BY <1>1 DEF PairsIn
    <2>2. p[1] \in I /\ p[2] \in J /\ v1[p[1]] = v2[p[2]]
        BY <2>1
    <2> QED
        BY <2>1, <2>2
<1>2. ASSUME NEW i \in I, NEW j \in J, v1[i] = v2[j], z = <<s1[i], s2[j]>>
      PROVE  z \in PairsIn(v1, s1, v2, s2, I, J)
    <2>1. <<i, j>> \in {q \in I \X J : v1[q[1]] = v2[q[2]]}
        BY <1>2
    <2>2. <<i, j>>[1] = i /\ <<i, j>>[2] = j
        OBVIOUS
    <2> QED
        BY <2>1, <2>2, <1>2 DEF PairsIn
<1> QED
    BY <1>1, <1>2

\* A wanted pair comes from a row of each side.
LEMMA PairsOf ==
    ASSUME NEW v1, NEW s1, NEW v2, NEW s2, NEW I, NEW J, NEW z, z \in PairsIn(v1, s1, v2, s2, I, J)
    PROVE  \E i \in I, j \in J : z = <<s1[i], s2[j]>>
<1>1. \E i \in I, j \in J : v1[i] = v2[j] /\ z = <<s1[i], s2[j]>>
    BY PairsAre
<1> QED
    BY <1>1

\* The pairs of two sets of rows are those of the one and of the other.
LEMMA PairsTogether ==
    ASSUME NEW v1, NEW s1, NEW v2, NEW s2, NEW I1, NEW I2, NEW J1, NEW J2
    PROVE  /\ PairsIn(v1, s1, v2, s2, I1 \union I2, J1)
                  = PairsIn(v1, s1, v2, s2, I1, J1) \union PairsIn(v1, s1, v2, s2, I2, J1)
           /\ PairsIn(v1, s1, v2, s2, I1, J1 \union J2)
                  = PairsIn(v1, s1, v2, s2, I1, J1) \union PairsIn(v1, s1, v2, s2, I1, J2)
<1> DEFINE P(I, J) == PairsIn(v1, s1, v2, s2, I, J)
<1>1. \A I, J, z : z \in P(I, J) <=> \E i \in I, j \in J : v1[i] = v2[j] /\ z = <<s1[i], s2[j]>>
    BY PairsAre
<1> HIDE DEF P
<1>2. ASSUME NEW z PROVE z \in P(I1 \union I2, J1) <=> z \in P(I1, J1) \/ z \in P(I2, J1)
    BY <1>1
<1>3. ASSUME NEW z PROVE z \in P(I1, J1 \union J2) <=> z \in P(I1, J1) \/ z \in P(I1, J2)
    BY <1>1
<1>4. P(I1 \union I2, J1) = P(I1, J1) \union P(I2, J1)
    BY <1>2
<1>5. P(I1, J1 \union J2) = P(I1, J1) \union P(I1, J2)
    BY <1>3
<1> QED
    BY <1>4, <1>5 DEF P

\* Different rows have different pairs.
LEMMA PairsApart ==
    ASSUME NEW v1, NEW s1, NEW v2, NEW s2, Inputs(v1, s1, v2, s2),
           NEW I1, RowsOf(I1, s1), NEW I2, RowsOf(I2, s1),
           NEW J1, RowsOf(J1, s2), NEW J2, RowsOf(J2, s2),
           I1 \intersect I2 = {} \/ J1 \intersect J2 = {}
    PROVE  PairsIn(v1, s1, v2, s2, I1, J1) \intersect PairsIn(v1, s1, v2, s2, I2, J2) = {}
<1> SUFFICES ASSUME NEW z, z \in PairsIn(v1, s1, v2, s2, I1, J1), z \in PairsIn(v1, s1, v2, s2, I2, J2)
             PROVE  FALSE
    OBVIOUS
<1>1. PICK i1 \in I1, j1 \in J1 : z = <<s1[i1], s2[j1]>>
    BY PairsOf
<1>2. PICK i2 \in I2, j2 \in J2 : z = <<s1[i2], s2[j2]>>
    BY PairsOf
<1>3. s1[i1] = s1[i2] /\ s2[j1] = s2[j2]
    BY <1>1, <1>2
<1>4. i1 = i2 /\ j1 = j2
    BY <1>3 DEF Inputs, Distinct, RowsOf
<1> QED
    BY <1>4

\* Two rows make one pair or none.
LEMMA OnePair ==
    ASSUME NEW v1, NEW s1, NEW v2, NEW s2, NEW i, NEW j
    PROVE  PairsIn(v1, s1, v2, s2, {i}, {j}) = IF v1[i] = v2[j] THEN {<<s1[i], s2[j]>>} ELSE {}
<1> DEFINE P == PairsIn(v1, s1, v2, s2, {i}, {j})
<1>1. \A z : z \in P <=> v1[i] = v2[j] /\ z = <<s1[i], s2[j]>>
    BY PairsAre
<1> HIDE DEF P
<1>2. P = IF v1[i] = v2[j] THEN {<<s1[i], s2[j]>>} ELSE {}
    BY <1>1
<1> QED
    BY <1>2 DEF P

\* No rows make no pairs.
LEMMA NoPairs ==
    ASSUME NEW v1, NEW s1, NEW v2, NEW s2, NEW I, NEW J, I = {} \/ J = {}
    PROVE  PairsIn(v1, s1, v2, s2, I, J) = {}
BY PairsAre

\* The first i rows are those before and one more.
LEMMA UpTo ==
    ASSUME NEW n \in Nat, NEW i \in 1..n
    PROVE  /\ i - 1 \in 0..n /\ i \in 0..n /\ i # 0
           /\ 1..i = (1..(i - 1)) \union {i}
           /\ (1..(i - 1)) \intersect {i} = {}
           /\ 1..(i - 1) \in SUBSET (1..n) /\ {i} \in SUBSET (1..n) /\ 1..i \in SUBSET (1..n)
OBVIOUS

\* The length and the elements of a sequence of integers.
LEMMA Ranged ==
    ASSUME NEW s \in Seq(Int)
    PROVE  Len(s) \in Nat /\ DOMAIN s = 1..Len(s) /\ \A i \in 1..Len(s) : s[i] \in Int
BY LenProperties, ElementOfSeq

-------------------------------------------------------------------------------
(* The partners of a row *)

\* The partners among the first j rows.
PartnersStep(key, pos, v2, s2, behind, f, j) ==
    IF j = 0 THEN << >>
    ELSE IF At(v2, j, behind) = key THEN Append(f[j - 1], <<pos, s2[j]>>)
    ELSE f[j - 1]
\* f is the recursive function of Partners.
Partnered(key, pos, v2, s2, behind, f) ==
    f = [j \in 0..Len(s2) |-> PartnersStep(key, pos, v2, s2, behind, f, j)]

\* Its recursive function exists.
LEMMA PartneredSome ==
    ASSUME NEW key, NEW pos \in Int, NEW v2, NEW s2 \in Seq(Int), NEW behind
    PROVE  \E f \in [0..Len(s2) -> Seq(Pair)] : Partnered(key, pos, v2, s2, behind, f)
<1> DEFINE n == Len(s2)
           X == Seq(Pair)
           N == [q \in (1..n) \X X |-> IF At(v2, q[1], behind) = key THEN Append(q[2], <<pos, s2[q[1]]>>)
                                       ELSE q[2]]
<1>0. n \in Nat /\ \A j \in 1..n : s2[j] \in Int
    BY Ranged
<1>1. Steps(N, n, X)
    <2> SUFFICES ASSUME NEW j \in 1..n, NEW g \in X
                 PROVE  (IF At(v2, j, behind) = key THEN Append(g, <<pos, s2[j]>>) ELSE g) \in X
        BY DEF Steps
    <2>1. <<pos, s2[j]>> \in Pair
        BY <1>0 DEF Pair
    <2>2. Append(g, <<pos, s2[j]>>) \in X
        BY <2>1, AppendProperties
    <2> QED
        BY <2>2
<1>2. ASSUME NEW j \in 1..n, NEW g \in X
      PROVE  N[<<j, g>>] = IF At(v2, j, behind) = key THEN Append(g, <<pos, s2[j]>>) ELSE g
    OBVIOUS
<1>3. << >> \in X
    BY EmptySeq
<1> HIDE DEF N, X, n
<1>4. PICK f : Iterates(f, N, n, << >>, X)
    BY <1>0, <1>1, <1>3, Iteration
<1>5. f \in [0..n -> X]
    BY <1>4 DEF Iterates
<1>6. f = [i \in 0..n |-> IF i = 0 THEN << >> ELSE N[<<i, f[i - 1]>>]]
    BY <1>0, <1>4, Unfolds
<1>7. ASSUME NEW i \in 0..n
      PROVE  (IF i = 0 THEN << >> ELSE N[<<i, f[i - 1]>>]) = PartnersStep(key, pos, v2, s2, behind, f, i)
    <2>1. i # 0 => i \in 1..n /\ i - 1 \in 0..n
        BY <1>0
    <2>2. i # 0 => f[i - 1] \in X
        BY <2>1, <1>5
    <2>3. i # 0 => N[<<i, f[i - 1]>>]
                   = IF At(v2, i, behind) = key THEN Append(f[i - 1], <<pos, s2[i]>>) ELSE f[i - 1]
        BY <2>1, <2>2, <1>2, Zenon
    <2> QED
        BY <2>3, Zenon DEF PartnersStep
<1>8. Partnered(key, pos, v2, s2, behind, f)
    BY <1>6, <1>7, Zenon DEF Partnered, n
<1> QED
    BY <1>5, <1>8 DEF n, X

\* The inner loop of a nested join (db_nested_join_i) lists the pairs of a row.
LEMMA PartnersRight ==
    ASSUME NEW v2, NEW s2 \in Seq(Int), NEW behind, NEW key, NEW pos \in Int
    PROVE  /\ Partners(key, pos, v2, s2, behind) \in Seq(Pair)
           /\ Len(Partners(key, pos, v2, s2, behind)) <= Len(s2)
           /\ \A v1, s1, i : /\ Inputs(v1, s1, v2, s2) /\ i \in 1..Len(s1) /\ key = v1[i] /\ pos = s1[i]
                             => Lists(Partners(key, pos, v2, s2, behind),
                                      PairsIn(v1, s1, v2, s2, {i}, 1..Len(s2)))
<1> DEFINE n == Len(s2)
           X == Seq(Pair)
<1>0. n \in Nat /\ \A j \in 1..n : s2[j] \in Int
    BY Ranged
<1>1. Partners(key, pos, v2, s2, behind) = (CHOOSE f : Partnered(key, pos, v2, s2, behind, f))[n]
    BY DEF Partners, Partnered, PartnersStep
<1>2. PICK f : /\ Partnered(key, pos, v2, s2, behind, f)
               /\ Partners(key, pos, v2, s2, behind) = f[n]
    BY <1>1, PartneredSome
<1> HIDE DEF n, X
<1>3. ASSUME NEW j \in 0..n PROVE f[j] = PartnersStep(key, pos, v2, s2, behind, f, j)
    BY <1>2, Zenon DEF Partnered, n
<1> DEFINE Good(j) == /\ f[j] \in X /\ Len(f[j]) <= j
                      /\ \A v1, s1, i :
                             Inputs(v1, s1, v2, s2) /\ i \in 1..Len(s1) /\ key = v1[i] /\ pos = s1[i]
                             => Lists(f[j], PairsIn(v1, s1, v2, s2, {i}, 1..j))
           S == {j \in 0..n : Good(j)}
<1>4. 0 \in S
    <2>1. 0 \in 0..n /\ f[0] = << >>
        <3>1. 0 \in 0..n
            BY <1>0
        <3>2. f[0] = PartnersStep(key, pos, v2, s2, behind, f, 0)
            BY <3>1, <1>3
        <3> QED
            BY <3>1, <3>2 DEF PartnersStep
    <2>2. ASSUME NEW v1, NEW s1, NEW i PROVE Lists(f[0], PairsIn(v1, s1, v2, s2, {i}, 1..0))
        <3>1. PairsIn(v1, s1, v2, s2, {i}, 1..0) = {}
            BY NoPairs
        <3> QED
            BY <3>1, <2>1, ListsNothing
    <2>3. f[0] \in X /\ Len(f[0]) <= 0
        BY <2>1, EmptySeq DEF X
    <2>4. Good(0)
        BY <2>2, <2>3
    <2> QED
        BY <2>1, <2>4
<1>5. ASSUME NEW j \in 1..n, j - 1 \in S PROVE j \in S
    <2>0. j \in 0..n /\ j - 1 \in 0..n /\ j # 0 /\ Good(j - 1)
        BY <1>0, <1>5
    <2> DEFINE before == f[j - 1]
    <2>1. f[j] = IF At(v2, j, behind) = key THEN Append(before, <<pos, s2[j]>>) ELSE before
        BY <2>0, <1>3 DEF PartnersStep
    <2>2. before \in X /\ Len(before) \in Nat /\ Len(before) <= j - 1
        BY <2>0, LenProperties DEF X
    <2>3. <<pos, s2[j]>> \in Pair
        BY <1>0 DEF Pair
    <2>4. /\ Append(before, <<pos, s2[j]>>) \in X
          /\ Len(Append(before, <<pos, s2[j]>>)) = Len(before) + 1
        BY <2>2, <2>3, AppendProperties DEF X
    <2>5. f[j] \in X /\ Len(f[j]) <= j
        BY <2>0, <2>1, <2>2, <2>4
    <2>6. ASSUME NEW v1, NEW s1, NEW i, Inputs(v1, s1, v2, s2), i \in 1..Len(s1), key = v1[i], pos = s1[i]
          PROVE  Lists(f[j], PairsIn(v1, s1, v2, s2, {i}, 1..j))
        <3> DEFINE P(J) == PairsIn(v1, s1, v2, s2, {i}, J)
        <3>1. Lists(before, P(1..(j - 1)))
            BY <2>0, <2>6
        <3>2. /\ 1..j = (1..(j - 1)) \union {j} /\ (1..(j - 1)) \intersect {j} = {}
              /\ 1..(j - 1) \in SUBSET (1..n) /\ {j} \in SUBSET (1..n)
            BY <1>0, UpTo
        <3>3. P(1..j) = P(1..(j - 1)) \union P({j})
            BY <3>2, PairsTogether
        <3>4. P(1..(j - 1)) \intersect P({j}) = {}
            <4>1. {i} \in SUBSET (1..Len(s1))
                BY <2>6
            <4> QED
                BY <4>1, <3>2, <2>6, PairsApart DEF n, RowsOf
        <3>5. P({j}) = IF v1[i] = v2[j] THEN {<<pos, s2[j]>>} ELSE {}
            BY <2>6, OnePair, ZenonT(40)
        <3>6. At(v2, j, behind) = v2[j]
            <4>1. DOMAIN v2 = 1..n
                BY <2>6, Ranged DEF Inputs, n
            <4> QED
                BY <4>1 DEF At
        <3> HIDE DEF P
        <3>7. CASE v2[j] = key
            <4>1. f[j] = Append(before, <<pos, s2[j]>>) /\ P({j}) = {<<pos, s2[j]>>}
                BY <3>7, <3>5, <3>6, <2>1, <2>6
            <4>2. <<pos, s2[j]>> \notin P(1..(j - 1))
                BY <4>1, <3>4
            <4>3. Lists(Append(before, <<pos, s2[j]>>), P(1..(j - 1)) \union {<<pos, s2[j]>>})
                BY <4>2, <3>1, ListsMore
            <4> QED
                BY <4>1, <4>3, <3>3 DEF P
        <3>8. CASE v2[j] # key
            <4>1. f[j] = before /\ P({j}) = {}
                BY <3>8, <3>5, <3>6, <2>1, <2>6
            <4> QED
                BY <4>1, <3>1, <3>3 DEF P
        <3> QED
            BY <3>7, <3>8
    <2>7. Good(j)
        BY <2>5, <2>6
    <2> QED
        BY <2>0, <2>7
<1>6. 0..n \subseteq S
    <2> HIDE DEF S
    <2> QED BY <1>0, <1>4, <1>5, Upward
<1>7. n \in S
    BY <1>0, <1>6
<1> QED
    BY <1>7, <1>2 DEF n, X

-------------------------------------------------------------------------------
(* The answer of a join *)

\* What a join answered: it came to its end, with each pair once.
Joins(a, v1, s1, v2, s2) == a.ok /\ Lists(a.pairs, Wanted(v1, s1, v2, s2))
\* An answer of any kind.
IsAnswer(a) == a.ok \in BOOLEAN /\ a.pairs \in Seq(Pair)

\* A join that is lost did not come to its end.
LEMMA LostIs == IsAnswer(Lost) /\ ~ Lost.ok /\ Lost.pairs = << >>
BY EmptySeq DEF Lost, IsAnswer

\* A join that answers came to its end.
LEMMA PairedIs ==
    ASSUME NEW pairs \in Seq(Pair)
    PROVE  IsAnswer(Paired(pairs)) /\ Paired(pairs).ok /\ Paired(pairs).pairs = pairs
BY DEF Paired, IsAnswer

\* Within a sequence nothing behind it is read.
LEMMA AtPlace ==
    ASSUME NEW s, NEW i \in 1..Len(s), DOMAIN s = 1..Len(s), NEW behind
    PROVE  At(s, i, behind) = s[i]
BY DEF At

\* The pairs of one more row.
LEMMA RowsJoined ==
    ASSUME NEW v1, NEW s1, NEW v2, NEW s2, Inputs(v1, s1, v2, s2), NEW i \in 1..Len(s1), NEW behind,
           NEW before, Lists(before, PairsIn(v1, s1, v2, s2, 1..(i - 1), 1..Len(s2)))
    PROVE  Lists(before \o Partners(At(v1, i, behind), s1[i], v2, s2, behind),
                 PairsIn(v1, s1, v2, s2, 1..i, 1..Len(s2)))
<1> DEFINE J == 1..Len(s2)
           P(I) == PairsIn(v1, s1, v2, s2, I, J)
           more == Partners(At(v1, i, behind), s1[i], v2, s2, behind)
<1>1. /\ v1 \in Seq(Int) /\ s1 \in Seq(Int) /\ s2 \in Seq(Int)
      /\ Len(v1) = Len(s1) /\ Len(s1) \in Nat /\ DOMAIN v1 = 1..Len(v1) /\ s1[i] \in Int
    BY Ranged DEF Inputs
<1>2. At(v1, i, behind) = v1[i]
    BY <1>1 DEF At
<1>3. Lists(more, P({i}))
    BY <1>1, <1>2, PartnersRight
<1>4. 1..i = (1..(i - 1)) \union {i} /\ (1..(i - 1)) \intersect {i} = {}
      /\ RowsOf(1..(i - 1), s1) /\ RowsOf({i}, s1) /\ RowsOf(J, s2)
    BY <1>1, UpTo DEF RowsOf
<1>5. P(1..i) = P(1..(i - 1)) \union P({i})
    BY <1>4, PairsTogether
<1>6. P(1..(i - 1)) \intersect P({i}) = {}
    BY <1>4, PairsApart
<1> HIDE DEF P, more
<1>7. Lists(before, P(1..(i - 1)))
    BY DEF P
<1>8. Lists(before \o more, P(1..(i - 1)) \union P({i}))
    BY <1>3, <1>6, <1>7, ListsBoth
<1> QED
    BY <1>5, <1>8 DEF P, more

-------------------------------------------------------------------------------
(* Nested loops over ints *)

\* The pairs of the first i rows.
AllStep(v1, s1, v2, s2, behind, f, i) ==
    IF i = 0 THEN << >>
    ELSE f[i - 1] \o Partners(At(v1, i, behind), s1[i], v2, s2, behind)
\* f is the recursive function of AllPartners.
Everything(v1, s1, v2, s2, behind, f) ==
    f = [i \in 0..Len(s1) |-> AllStep(v1, s1, v2, s2, behind, f, i)]

\* Its recursive function exists.
LEMMA EverythingSome ==
    ASSUME NEW v1, NEW s1 \in Seq(Int), NEW v2, NEW s2 \in Seq(Int), NEW behind
    PROVE  \E f \in [0..Len(s1) -> Seq(Pair)] : Everything(v1, s1, v2, s2, behind, f)
<1> DEFINE n == Len(s1)
           X == Seq(Pair)
           more(i) == Partners(At(v1, i, behind), s1[i], v2, s2, behind)
           N == [q \in (1..n) \X X |-> q[2] \o more(q[1])]
<1>0. n \in Nat /\ \A j \in 1..n : s1[j] \in Int
    BY Ranged
<1>1. Steps(N, n, X)
    <2> SUFFICES ASSUME NEW j \in 1..n, NEW g \in X PROVE g \o more(j) \in X
        BY DEF Steps
    <2>1. more(j) \in X
        BY <1>0, PartnersRight
    <2> QED
        BY <2>1, ConcatProperties
<1>2. ASSUME NEW j \in 1..n, NEW g \in X PROVE N[<<j, g>>] = g \o more(j)
    OBVIOUS
<1>3. << >> \in X
    BY EmptySeq
<1> HIDE DEF N, X, n
<1>4. PICK f : Iterates(f, N, n, << >>, X)
    BY <1>0, <1>1, <1>3, Iteration
<1>5. f \in [0..n -> X]
    BY <1>4 DEF Iterates
<1>6. f = [i \in 0..n |-> IF i = 0 THEN << >> ELSE N[<<i, f[i - 1]>>]]
    BY <1>0, <1>4, Unfolds
<1>7. ASSUME NEW i \in 0..n
      PROVE  (IF i = 0 THEN << >> ELSE N[<<i, f[i - 1]>>]) = AllStep(v1, s1, v2, s2, behind, f, i)
    <2>1. i # 0 => i \in 1..n /\ i - 1 \in 0..n
        BY <1>0
    <2>2. i # 0 => f[i - 1] \in X
        BY <2>1, <1>5
    <2>3. i # 0 => N[<<i, f[i - 1]>>] = f[i - 1] \o more(i)
        BY <2>1, <2>2, <1>2, Zenon
    <2> QED
        BY <2>3, Zenon DEF AllStep
<1>8. Everything(v1, s1, v2, s2, behind, f)
    BY <1>6, <1>7, Zenon DEF Everything, n
<1> QED
    BY <1>5, <1>8 DEF n, X

\* The two loops of a nested join list all wanted pairs.
LEMMA AllPartnersRight ==
    ASSUME NEW v1, NEW s1 \in Seq(Int), NEW v2, NEW s2 \in Seq(Int), NEW behind
    PROVE  /\ AllPartners(v1, s1, v2, s2, behind) \in Seq(Pair)
           /\ Inputs(v1, s1, v2, s2)
                  => Lists(AllPartners(v1, s1, v2, s2, behind), Wanted(v1, s1, v2, s2))
<1> DEFINE n == Len(s1)
           P(I) == PairsIn(v1, s1, v2, s2, I, 1..Len(s2))
<1>0. n \in Nat
    BY Ranged
<1>1. AllPartners(v1, s1, v2, s2, behind) = (CHOOSE f : Everything(v1, s1, v2, s2, behind, f))[n]
    BY DEF AllPartners, Everything, AllStep
<1>2. PICK f : /\ Everything(v1, s1, v2, s2, behind, f)
               /\ AllPartners(v1, s1, v2, s2, behind) = f[n]
    BY <1>1, EverythingSome
<1> HIDE DEF n, P
<1>3. ASSUME NEW i \in 0..n PROVE f[i] = AllStep(v1, s1, v2, s2, behind, f, i)
    BY <1>2, Zenon DEF Everything, n
<1> DEFINE Good(i) == f[i] \in Seq(Pair) /\ (Inputs(v1, s1, v2, s2) => Lists(f[i], P(1..i)))
           S == {i \in 0..n : Good(i)}
<1>4. 0 \in S
    <2>1. 0 \in 0..n
        BY <1>0
    <2>2. f[0] = AllStep(v1, s1, v2, s2, behind, f, 0)
        BY <2>1, <1>3
    <2>3. f[0] = << >> /\ P(1..0) = {}
        BY <2>2, NoPairs DEF AllStep, P
    <2>4. Good(0)
        BY <2>3, ListsNothing, EmptySeq
    <2> QED
        BY <2>1, <2>4
<1>5. ASSUME NEW i \in 1..n, i - 1 \in S PROVE i \in S
    <2>0. i \in 0..n /\ i # 0 /\ Good(i - 1)
        BY <1>0, <1>5
    <2> DEFINE more == Partners(At(v1, i, behind), s1[i], v2, s2, behind)
    <2>1. f[i] = f[i - 1] \o more
        BY <2>0, <1>3 DEF AllStep
    <2>2. more \in Seq(Pair)
        <3>1. s1[i] \in Int
            BY Ranged DEF n
        <3> QED
            BY <3>1, PartnersRight
    <2>3. f[i] \in Seq(Pair)
        BY <2>0, <2>1, <2>2, ConcatProperties
    <2>4. Inputs(v1, s1, v2, s2) => Lists(f[i], P(1..i))
        BY <2>0, <2>1, RowsJoined DEF n, P
    <2>5. Good(i)
        BY <2>3, <2>4
    <2> QED
        BY <2>0, <2>5
<1>6. 0..n \subseteq S
    <2> HIDE DEF S
    <2> QED BY <1>0, <1>4, <1>5, Upward
<1>7. n \in S
    BY <1>0, <1>6
<1>8. Inputs(v1, s1, v2, s2) => Wanted(v1, s1, v2, s2) = P(1..n)
    BY DEF Wanted, P, n, Inputs
<1> QED
    BY <1>7, <1>8, <1>2

\* As many pairs as rows that are alike at most.
LEMMA WantedAlike ==
    ASSUME NEW v1, NEW s1, NEW v2, NEW s2, Inputs(v1, s1, v2, s2)
    PROVE  /\ Wanted(v1, s1, v2, s2) = {<<s1[p[1]], s2[p[2]]>> : p \in Alike(v1, v2)}
           /\ Cardinality(Wanted(v1, s1, v2, s2)) <= Cardinality(Alike(v1, v2))
           /\ Cardinality(Alike(v1, v2)) \in Nat
           /\ Cardinality(Wanted(v1, s1, v2, s2)) \in Nat
<1>1. DOMAIN v1 = 1..Len(v1) /\ DOMAIN v2 = 1..Len(v2) /\ Len(v1) \in Nat /\ Len(v2) \in Nat
    BY Ranged DEF Inputs
<1>2. Wanted(v1, s1, v2, s2) = {<<s1[p[1]], s2[p[2]]>> : p \in Alike(v1, v2)}
    BY <1>1 DEF Wanted, PairsIn, Alike
<1>3. IsFiniteSet(DOMAIN v1) /\ IsFiniteSet(DOMAIN v2)
    <2>1. \A n \in Nat : IsFiniteSet(1..n)
        BY FS_Interval
    <2> QED
        BY <1>1, <2>1
<1>4. IsFiniteSet((DOMAIN v1) \X (DOMAIN v2))
    BY <1>3, FS_Product
<1>5. IsFiniteSet(Alike(v1, v2))
    BY <1>4, FS_Subset DEF Alike
<1> DEFINE f == [p \in Alike(v1, v2) |-> <<s1[p[1]], s2[p[2]]>>]
           image == {f[p] : p \in Alike(v1, v2)}
<1>6. f \in Surjection(Alike(v1, v2), image)
    BY DEF Surjection
<1>7. IsFiniteSet(image) /\ Cardinality(image) <= Cardinality(Alike(v1, v2))
    <2> HIDE DEF f, image
    <2> QED BY <1>5, <1>6, FS_Surjection
<1>8. image = Wanted(v1, s1, v2, s2)
    BY <1>2
<1> QED
    BY <1>2, <1>5, <1>7, <1>8, FS_CardinalityType

\* db_nested_join_i answers exactly while the pairs fit in the room taken for them.
LEMMA NestedIntRight ==
    ASSUME NEW v1, NEW s1 \in Seq(Int), NEW v2, NEW s2 \in Seq(Int), NEW behind
    PROVE  LET a == NestedJoinInt(v1, s1, v2, s2, behind)
           IN  /\ IsAnswer(a)
               /\ Inputs(v1, s1, v2, s2) /\ JoinKept("nested-loop", v1, v2)
                      => Joins(a, v1, s1, v2, s2)
<1> DEFINE a == NestedJoinInt(v1, s1, v2, s2, behind)
           pairs == AllPartners(v1, s1, v2, s2, behind)
<1>1. /\ pairs \in Seq(Pair)
      /\ Inputs(v1, s1, v2, s2) => Lists(pairs, Wanted(v1, s1, v2, s2))
    BY AllPartnersRight
<1>2. a = IF Len(pairs) > Len(s1) THEN Lost ELSE Paired(pairs)
    BY DEF NestedJoinInt
<1> HIDE DEF a, pairs
<1>3. IsAnswer(a)
    BY <1>1, <1>2, LostIs, PairedIs
<1>4. ASSUME Inputs(v1, s1, v2, s2), JoinKept("nested-loop", v1, v2)
      PROVE  Joins(a, v1, s1, v2, s2)
    <2>1. Lists(pairs, Wanted(v1, s1, v2, s2))
        BY <1>1, <1>4
    <2>2. Len(pairs) = Cardinality(Wanted(v1, s1, v2, s2))
        BY <2>1, ListsExactly DEF Exactly
    <2>3. Cardinality(Alike(v1, v2)) <= Len(v1) /\ Len(v1) = Len(s1) /\ Len(s1) \in Nat
        BY <1>4, Ranged DEF JoinKept, Inputs
    <2>4. ~ (Len(pairs) > Len(s1))
        BY <2>2, <2>3, <1>4, WantedAlike
    <2>5. a = Paired(pairs)
        BY <2>4, <1>2
    <2> QED
        BY <2>1, <2>5, <1>1, PairedIs DEF Joins
<1> QED
    BY <1>3, <1>4 DEF a

-------------------------------------------------------------------------------
(* Nested loops over longs *)

\* What the loop over longs carries.
Progress == [pairs : Seq(Pair), room : Nat, ok : BOOLEAN]
\* The inner loop of db_nested_join_l, with the room taken anew before it.
LongNext(v1, s1, v2, s2, behind, a, i) ==
    LET pairs == a.pairs \o Partners(At(v1, i, behind), s1[i], v2, s2, behind)
        room == IF Len(a.pairs) + Len(s2) > a.room THEN 2 * a.room ELSE a.room
    IN  [pairs |-> pairs, room |-> room, ok |-> a.ok /\ Len(a.pairs) + Len(s2) <= room]
\* Before the first row.
LongStart(s1) == [pairs |-> << >>, room |-> Len(s1), ok |-> TRUE]
\* The loop over the rows, up to the i-th.
LongStep(v1, s1, v2, s2, behind, f, i) ==
    IF i = 0 THEN LongStart(s1) ELSE LongNext(v1, s1, v2, s2, behind, f[i - 1], i)
\* f is the recursive function of NestedJoinLong.
LongRows(v1, s1, v2, s2, behind, f) ==
    f = [i \in 0..Len(s1) |-> LongStep(v1, s1, v2, s2, behind, f, i)]

\* One more row leaves pairs, room and a verdict.
LEMMA LongNextType ==
    ASSUME NEW v1, NEW s1 \in Seq(Int), NEW v2, NEW s2 \in Seq(Int), NEW behind,
           NEW i \in 1..Len(s1), NEW a \in Progress
    PROVE  LongNext(v1, s1, v2, s2, behind, a, i) \in Progress
<1> DEFINE more == Partners(At(v1, i, behind), s1[i], v2, s2, behind)
           pairs == a.pairs \o more
           room == IF Len(a.pairs) + Len(s2) > a.room THEN 2 * a.room ELSE a.room
           ok == a.ok /\ Len(a.pairs) + Len(s2) <= room
<1>1. a.pairs \in Seq(Pair) /\ a.room \in Nat /\ a.ok \in BOOLEAN
    BY DEF Progress
<1>2. s1[i] \in Int
    BY Ranged
<1>3. more \in Seq(Pair)
    BY <1>2, PartnersRight
<1>4. pairs \in Seq(Pair)
    <2> HIDE DEF more
    <2> QED BY <1>1, <1>3, ConcatProperties
<1>5. room \in Nat
    BY <1>1
<1>6. LongNext(v1, s1, v2, s2, behind, a, i) = [pairs |-> pairs, room |-> room, ok |-> ok]
    BY DEF LongNext
<1>7. ok \in BOOLEAN
    BY <1>1
<1> HIDE DEF pairs, room, ok
<1> QED
    BY <1>4, <1>5, <1>6, <1>7 DEF Progress

\* Its recursive function exists.
LEMMA LongRowsSome ==
    ASSUME NEW v1, NEW s1 \in Seq(Int), NEW v2, NEW s2 \in Seq(Int), NEW behind
    PROVE  \E f \in [0..Len(s1) -> Progress] : LongRows(v1, s1, v2, s2, behind, f)
<1> DEFINE n == Len(s1)
           next(a, i) == LongNext(v1, s1, v2, s2, behind, a, i)
           N == [q \in (1..n) \X Progress |-> next(q[2], q[1])]
<1>0. n \in Nat
    BY Ranged
<1>1. Steps(N, n, Progress)
    <2>1. \A j \in 1..n, g \in Progress : next(g, j) \in Progress
        BY LongNextType
    <2> HIDE DEF next
    <2> QED
        BY <2>1 DEF Steps
<1>2. ASSUME NEW j \in 1..n, NEW g \in Progress PROVE N[<<j, g>>] = next(g, j)
    OBVIOUS
<1>3. LongStart(s1) \in Progress
    BY <1>0, EmptySeq DEF LongStart, Progress
<1> HIDE DEF N, n
<1>4. PICK f : Iterates(f, N, n, LongStart(s1), Progress)
    BY <1>0, <1>1, <1>3, Iteration
<1>5. f \in [0..n -> Progress]
    BY <1>4 DEF Iterates
<1>6. f = [i \in 0..n |-> IF i = 0 THEN LongStart(s1) ELSE N[<<i, f[i - 1]>>]]
    BY <1>0, <1>4, Unfolds
<1>7. ASSUME NEW i \in 0..n
      PROVE  (IF i = 0 THEN LongStart(s1) ELSE N[<<i, f[i - 1]>>]) = LongStep(v1, s1, v2, s2, behind, f, i)
    <2>1. i # 0 => i \in 1..n /\ i - 1 \in 0..n
        BY <1>0
    <2>2. i # 0 => f[i - 1] \in Progress
        BY <2>1, <1>5
    <2>3. i # 0 => N[<<i, f[i - 1]>>] = next(f[i - 1], i)
        BY <2>1, <2>2, <1>2, Zenon
    <2> QED
        BY <2>3, Zenon DEF LongStep
<1>8. LongRows(v1, s1, v2, s2, behind, f)
    BY <1>6, <1>7, Zenon DEF LongRows, n
<1> QED
    BY <1>5, <1>8 DEF n

\* db_nested_join_l answers exactly if the outer side is not the smaller one.
LEMMA NestedLongRight ==
    ASSUME NEW v1, NEW s1 \in Seq(Int), NEW v2, NEW s2 \in Seq(Int), NEW behind
    PROVE  LET a == NestedJoinLong(v1, s1, v2, s2, behind)
           IN  /\ IsAnswer(a)
               /\ Inputs(v1, s1, v2, s2) /\ Len(s2) <= Len(s1) => Joins(a, v1, s1, v2, s2)
<1> DEFINE n == Len(s1)
           P(I) == PairsIn(v1, s1, v2, s2, I, 1..Len(s2))
           answer == NestedJoinLong(v1, s1, v2, s2, behind)
           held == Inputs(v1, s1, v2, s2) /\ Len(s2) <= Len(s1)
<1>0. n \in Nat /\ Len(s2) \in Nat
    BY Ranged
<1> DEFINE rows == CHOOSE f : LongRows(v1, s1, v2, s2, behind, f)
<1>1. answer = IF rows[n].ok THEN Paired(rows[n].pairs) ELSE Lost
    BY DEF NestedJoinLong, LongRows, LongStep, LongNext, LongStart
<1>2. LongRows(v1, s1, v2, s2, behind, rows)
    BY LongRowsSome
<1>3. PICK f : LongRows(v1, s1, v2, s2, behind, f) /\ f = rows
    BY <1>2
<1>4. answer = IF f[n].ok THEN Paired(f[n].pairs) ELSE Lost
    BY <1>1, <1>3
<1> HIDE DEF n, P, answer, rows, held
<1>5. ASSUME NEW i \in 0..n PROVE f[i] = LongStep(v1, s1, v2, s2, behind, f, i)
    BY <1>3, Zenon DEF LongRows, n
<1> DEFINE Good(i) ==
               /\ f[i] \in Progress
               /\ held => /\ f[i].ok /\ Lists(f[i].pairs, P(1..i))
                          /\ Len(f[i].pairs) <= f[i].room /\ Len(s2) <= f[i].room
           S == {i \in 0..n : Good(i)}
<1>6. 0 \in S
    <2>1. 0 \in 0..n
        BY <1>0
    <2>2. f[0] = LongStep(v1, s1, v2, s2, behind, f, 0)
        BY <2>1, <1>5
    <2>3. f[0] = LongStart(s1) /\ P(1..0) = {}
        BY <2>2, NoPairs DEF LongStep, P
    <2>4. /\ LongStart(s1).pairs = << >> /\ LongStart(s1).ok /\ LongStart(s1).room = n
          /\ LongStart(s1) \in Progress /\ Len(<< >>) = 0
        BY <1>0, EmptySeq DEF LongStart, Progress, n
    <2>5. /\ f[0].pairs = << >> /\ f[0].ok /\ f[0].room = n /\ f[0] \in Progress
        BY <2>3, <2>4
    <2>6. Lists(f[0].pairs, P(1..0))
        BY <2>3, <2>5, ListsNothing
    <2>7. Len(f[0].pairs) <= f[0].room /\ (held => Len(s2) <= f[0].room)
        BY <2>4, <2>5, <1>0 DEF held, n
    <2>8. Good(0)
        BY <2>5, <2>6, <2>7, Zenon
    <2> QED
        BY <2>1, <2>8
<1>7. ASSUME NEW i \in 1..n, i - 1 \in S PROVE i \in S
    <2>0. i \in 0..n /\ i # 0 /\ Good(i - 1)
        BY <1>0, <1>7
    <2> DEFINE b == f[i - 1]
               more == Partners(At(v1, i, behind), s1[i], v2, s2, behind)
               room == IF Len(b.pairs) + Len(s2) > b.room THEN 2 * b.room ELSE b.room
    <2>1. f[i] = LongNext(v1, s1, v2, s2, behind, b, i)
        BY <2>0, <1>5 DEF LongStep
    <2>2. f[i] \in Progress
        BY <2>0, <2>1, LongNextType DEF n
    <2>3. /\ f[i].pairs = b.pairs \o more /\ f[i].room = room
          /\ f[i].ok <=> (b.ok /\ Len(b.pairs) + Len(s2) <= room)
        <3>1. f[i] = [pairs |-> b.pairs \o more, room |-> room,
                      ok |-> b.ok /\ Len(b.pairs) + Len(s2) <= room]
            BY <2>1, Zenon DEF LongNext
        <3> HIDE DEF b, more, room
        <3>2. f[i].pairs = b.pairs \o more /\ f[i].room = room
            BY <3>1
        <3>3. f[i].ok <=> (b.ok /\ Len(b.pairs) + Len(s2) <= room)
            <4> DEFINE ok == b.ok /\ Len(b.pairs) + Len(s2) <= room
            <4>1. \A p, r : \A o \in BOOLEAN : [pairs |-> p, room |-> r, ok |-> o].ok = o
                OBVIOUS
            <4>2. ok \in BOOLEAN
                OBVIOUS
            <4>3. f[i] = [pairs |-> b.pairs \o more, room |-> room, ok |-> ok]
                BY <3>1
            <4> HIDE DEF ok
            <4>4. f[i].ok = ok
                BY <4>2, <4>3
            <4> QED
                BY <4>4 DEF ok
        <3> QED
            BY <3>2, <3>3, Zenon
    <2>4. more \in Seq(Pair) /\ Len(more) \in Nat /\ Len(more) <= Len(s2)
        <3>1. s1[i] \in Int
            BY Ranged DEF n
        <3>2. more \in Seq(Pair) /\ Len(more) <= Len(s2)
            BY <3>1, PartnersRight
        <3> HIDE DEF more
        <3> QED
            BY <3>2, LenProperties
    <2>5. b.pairs \in Seq(Pair) /\ Len(b.pairs) \in Nat /\ b.room \in Nat
        BY <2>0, LenProperties DEF Progress
    <2>6. Len(b.pairs \o more) = Len(b.pairs) + Len(more)
        BY <2>4, <2>5, ConcatProperties
    <2>7. ASSUME held
          PROVE  /\ f[i].ok /\ Lists(f[i].pairs, P(1..i))
                 /\ Len(f[i].pairs) <= f[i].room /\ Len(s2) <= f[i].room
        <3>1. /\ b.ok /\ Lists(b.pairs, P(1..(i - 1)))
              /\ Len(b.pairs) <= b.room /\ Len(s2) <= b.room
            BY <2>0, <2>7
        <3>2. Lists(f[i].pairs, P(1..i))
            BY <3>1, <2>3, <2>7, RowsJoined DEF n, P, held
        <3>3. Len(b.pairs) + Len(s2) <= room /\ Len(s2) <= room
            BY <3>1, <2>5, <1>0, SMTT(30)
        <3> HIDE DEF room, b, more
        <3>4. room \in Int /\ Len(b.pairs) + Len(more) <= room
            BY <3>3, <2>4, <2>5, <1>0 DEF room
        <3> QED
            BY <3>1, <3>2, <3>3, <3>4, <2>3, <2>6
    <2>8. Good(i)
        BY <2>2, <2>7
    <2> QED
        BY <2>0, <2>8
<1>8. 0..n \subseteq S
    <2> HIDE DEF S
    <2> QED BY <1>0, <1>6, <1>7, Upward
<1>9. Good(n)
    BY <1>0, <1>8
<1>10. f[n].pairs \in Seq(Pair) /\ f[n].ok \in BOOLEAN
    BY <1>9 DEF Progress
<1>11. IsAnswer(answer)
    BY <1>4, <1>10, LostIs, PairedIs
<1>12. ASSUME held PROVE Joins(answer, v1, s1, v2, s2)
    <2>1. answer = Paired(f[n].pairs) /\ Lists(f[n].pairs, P(1..n))
        BY <1>12, <1>9, <1>4
    <2>2. P(1..n) = Wanted(v1, s1, v2, s2)
        BY <1>12 DEF Wanted, P, n, held, Inputs
    <2> QED
        BY <2>1, <2>2, <1>10, PairedIs DEF Joins
<1> QED
    BY <1>11, <1>12 DEF answer, held

-------------------------------------------------------------------------------
(* The positions of a key *)

\* The positions of the key among the first i rows.
MatchStep(v, s, key, behind, f, i) ==
    IF i = 0 THEN << >>
    ELSE IF At(v, i, behind) = key THEN Append(f[i - 1], s[i]) ELSE f[i - 1]
\* f is the recursive function of Matches.
Matched(v, s, key, behind, f) == f = [i \in 0..Len(s) |-> MatchStep(v, s, key, behind, f, i)]
\* The positions of a key among the first n.
Holders(v, s, key, n) == {s[i] : i \in {k \in 1..n : v[k] = key}}

\* Its recursive function exists.
LEMMA MatchedSome ==
    ASSUME NEW v, NEW s \in Seq(Int), NEW key, NEW behind
    PROVE  \E f \in [0..Len(s) -> Seq(Int)] : Matched(v, s, key, behind, f)
<1> DEFINE n == Len(s)
           X == Seq(Int)
           N == [q \in (1..n) \X X |-> IF At(v, q[1], behind) = key THEN Append(q[2], s[q[1]]) ELSE q[2]]
<1>0. n \in Nat /\ \A j \in 1..n : s[j] \in Int
    BY Ranged
<1>1. Steps(N, n, X)
    <2> SUFFICES ASSUME NEW j \in 1..n, NEW g \in X
                 PROVE  (IF At(v, j, behind) = key THEN Append(g, s[j]) ELSE g) \in X
        BY DEF Steps
    <2>1. Append(g, s[j]) \in X
        BY <1>0, AppendProperties
    <2> QED
        BY <2>1
<1>2. ASSUME NEW j \in 1..n, NEW g \in X
      PROVE  N[<<j, g>>] = IF At(v, j, behind) = key THEN Append(g, s[j]) ELSE g
    OBVIOUS
<1>3. << >> \in X
    BY EmptySeq
<1> HIDE DEF N, X, n
<1>4. PICK f : Iterates(f, N, n, << >>, X)
    BY <1>0, <1>1, <1>3, Iteration
<1>5. f \in [0..n -> X]
    BY <1>4 DEF Iterates
<1>6. f = [i \in 0..n |-> IF i = 0 THEN << >> ELSE N[<<i, f[i - 1]>>]]
    BY <1>0, <1>4, Unfolds
<1>7. ASSUME NEW i \in 0..n
      PROVE  (IF i = 0 THEN << >> ELSE N[<<i, f[i - 1]>>]) = MatchStep(v, s, key, behind, f, i)
    <2>1. i # 0 => i \in 1..n /\ i - 1 \in 0..n
        BY <1>0
    <2>2. i # 0 => f[i - 1] \in X
        BY <2>1, <1>5
    <2>3. i # 0 => N[<<i, f[i - 1]>>]
                   = IF At(v, i, behind) = key THEN Append(f[i - 1], s[i]) ELSE f[i - 1]
        BY <2>1, <2>2, <1>2, Zenon
    <2> QED
        BY <2>3, Zenon DEF MatchStep
<1>8. Matched(v, s, key, behind, f)
    BY <1>6, <1>7, Zenon DEF Matched, n
<1> QED
    BY <1>5, <1>8 DEF n, X

\* The hash table gives the positions of a key (get).
LEMMA MatchesRight ==
    ASSUME NEW v, NEW s \in Seq(Int), NEW key, NEW behind
    PROVE  /\ Matches(v, s, key, behind) \in Seq(Int)
           /\ DOMAIN v = 1..Len(s) /\ Distinct(s)
                  => Lists(Matches(v, s, key, behind), Holders(v, s, key, Len(s)))
<1> DEFINE n == Len(s)
           found == Matches(v, s, key, behind)
           held == DOMAIN v = 1..Len(s) /\ Distinct(s)
<1>0. n \in Nat /\ \A i \in 1..n : s[i] \in Int
    BY Ranged
<1>1. found = (CHOOSE f : Matched(v, s, key, behind, f))[n]
    BY DEF Matches, Matched, MatchStep
<1>2. PICK f : Matched(v, s, key, behind, f) /\ found = f[n]
    BY <1>1, MatchedSome
<1> HIDE DEF n, found, held
<1>3. ASSUME NEW i \in 0..n PROVE f[i] = MatchStep(v, s, key, behind, f, i)
    BY <1>2, Zenon DEF Matched, n
<1> DEFINE Good(i) == f[i] \in Seq(Int) /\ (held => Lists(f[i], Holders(v, s, key, i)))
           S == {i \in 0..n : Good(i)}
<1>4. 0 \in S
    <2>1. 0 \in 0..n
        BY <1>0
    <2>2. f[0] = MatchStep(v, s, key, behind, f, 0)
        BY <2>1, <1>3
    <2>3. f[0] = << >> /\ Holders(v, s, key, 0) = {}
        BY <2>2 DEF MatchStep, Holders
    <2>4. Good(0)
        BY <2>3, ListsNothing, EmptySeq
    <2> QED
        BY <2>1, <2>4
<1>5. ASSUME NEW i \in 1..n, i - 1 \in S PROVE i \in S
    <2>0. i \in 0..n /\ i # 0 /\ Good(i - 1)
        BY <1>0, <1>5
    <2>1. f[i] = IF At(v, i, behind) = key THEN Append(f[i - 1], s[i]) ELSE f[i - 1]
        BY <2>0, <1>3 DEF MatchStep
    <2>2. f[i] \in Seq(Int)
        BY <2>0, <2>1, <1>0, AppendProperties
    <2>3. ASSUME held PROVE Lists(f[i], Holders(v, s, key, i))
        <3>1. At(v, i, behind) = v[i]
            BY <2>3 DEF At, held, n
        <3>2. \A k : k \in 1..i <=> k \in 1..(i - 1) \/ k = i
            BY <1>0, UpTo
        <3>3. Lists(f[i - 1], Holders(v, s, key, i - 1))
            BY <2>0, <2>3
        <3>4. CASE v[i] = key
            <4>1. Holders(v, s, key, i) = Holders(v, s, key, i - 1) \union {s[i]}
                BY <3>2, <3>4 DEF Holders
            <4>2. s[i] \notin Holders(v, s, key, i - 1)
                <5> SUFFICES ASSUME s[i] \in Holders(v, s, key, i - 1) PROVE FALSE
                    OBVIOUS
                <5>1. PICK k \in 1..(i - 1) : s[k] = s[i]
                    BY DEF Holders
                <5>2. k \in 1..n /\ k # i
                    BY <1>0
                <5> QED
                    BY <5>1, <5>2, <2>3 DEF held, Distinct, n
            <4>3. Lists(Append(f[i - 1], s[i]), Holders(v, s, key, i - 1) \union {s[i]})
                BY <3>3, <4>2, ListsMore
            <4> QED
                BY <4>1, <4>3, <2>1, <3>1, <3>4
        <3>5. CASE v[i] # key
            <4>1. Holders(v, s, key, i) = Holders(v, s, key, i - 1)
                BY <3>2, <3>5 DEF Holders
            <4> QED
                BY <4>1, <3>3, <2>1, <3>1, <3>5
        <3> QED
            BY <3>4, <3>5
    <2>4. Good(i)
        BY <2>2, <2>3
    <2> QED
        BY <2>0, <2>4
<1>6. 0..n \subseteq S
    <2> HIDE DEF S
    <2> QED BY <1>0, <1>4, <1>5, Upward
<1>7. Good(n)
    BY <1>0, <1>6
<1> QED
    BY <1>7, <1>2 DEF n, found, held

\* A list of nothing is empty, a list of one element is that element.
LEMMA ListsFew ==
    ASSUME NEW s, NEW X, Lists(s, X)
    PROVE  /\ s = << >> <=> X = {}
           /\ \A e : X = {e} => Len(s) = 1 /\ s[1] = e
<1>1. s \in Seq(X) /\ Len(s) \in Nat /\ \A i \in 1..Len(s) : s[i] \in X
    BY LenProperties, ElementOfSeq DEF Lists
<1>2. s = << >> <=> Len(s) = 0
    BY <1>1, EmptySeq
<1>3. ASSUME X = {} PROVE s = << >>
    <2> SUFFICES ASSUME Len(s) # 0 PROVE FALSE
        BY <1>2
    <2>1. 1 \in 1..Len(s)
        BY <1>1
    <2>2. s[1] \in X
        BY <1>1, <2>1
    <2> QED
        BY <2>2, <1>3
<1>4. ASSUME NEW x \in X PROVE Len(s) # 0
    <2>1. \E i \in 1..Len(s) : s[i] = x
        BY DEF Lists
    <2> QED
        BY <2>1, <1>1
<1>5. ASSUME NEW e, X = {e} PROVE Len(s) = 1 /\ s[1] = e
    <2>1. Len(s) # 0
        BY <1>4, <1>5
    <2>2. 1 \in 1..Len(s) /\ Len(s) \in 1..Len(s)
        BY <1>1, <2>1
    <2>3. s[1] = e /\ s[Len(s)] = e
        BY <2>2, <1>1, <1>5
    <2>4. 1 = Len(s)
        BY <2>2, <2>3 DEF Lists, Distinct
    <2> QED
        BY <2>3, <2>4
<1> QED
    BY <1>2, <1>3, <1>4, <1>5

\* A set of one element at most has no two that differ.
LEMMA AtMostOne ==
    ASSUME NEW S, IsFiniteSet(S), Cardinality(S) <= 1, NEW x \in S, NEW y \in S
    PROVE  x = y
<1>1. {x} \in SUBSET S
    OBVIOUS
<1>2. IsFiniteSet({x}) /\ Cardinality({x}) = 1 /\ Cardinality(S) \in Nat
    BY FS_Singleton, FS_CardinalityType
<1>3. Cardinality({x}) <= Cardinality(S) /\ (Cardinality(S) = Cardinality({x}) => S = {x})
    BY <1>1, FS_Subset
<1>4. S = {x}
    BY <1>2, <1>3
<1> QED
    BY <1>4

-------------------------------------------------------------------------------
(* The hash join *)

\* What the probes of the hash join carry.
Probing == [ok : BOOLEAN, pairs : Seq(Pair), value : Int]
\* One probe of db_hash_join_i.
HashNext(v1, s1, behind, a, key, pos) ==
    LET found == Matches(v1, s1, key, behind)
        value == IF Len(found) = 1 THEN found[1] ELSE a.value
    IN  IF ~ a.ok \/ ReadsBefore(key, SlotsFor(Len(s1))) THEN [a EXCEPT !.ok = FALSE]
        ELSE IF found = << >> THEN a
        ELSE [a EXCEPT !.value = value, !.pairs = Append(@, <<value, pos>>)]
\* Before the first probe.
HashStart == [ok |-> TRUE, pairs |-> << >>, value |-> 0]
\* The probes up to the j-th.
HashStep(v1, s1, v2, s2, behind, f, j) ==
    IF j = 0 THEN HashStart
    ELSE HashNext(v1, s1, behind, f[j - 1], At(v2, j, behind), s2[j])
\* f is the recursive function of HashJoinInt.
HashProbes(v1, s1, v2, s2, behind, f) ==
    f = [j \in 0..Len(s2) |-> HashStep(v1, s1, v2, s2, behind, f, j)]

\* One more probe leaves pairs, the last value and a verdict.
LEMMA HashNextType ==
    ASSUME NEW v1, NEW s1 \in Seq(Int), NEW behind, NEW a \in Probing, NEW key, NEW pos \in Int
    PROVE  HashNext(v1, s1, behind, a, key, pos) \in Probing
<1> DEFINE found == Matches(v1, s1, key, behind)
           value == IF Len(found) = 1 THEN found[1] ELSE a.value
           stop == ~ a.ok \/ ReadsBefore(key, SlotsFor(Len(s1)))
<1>1. found \in Seq(Int) /\ (Len(found) = 1 => found[1] \in Int)
    <2>1. found \in Seq(Int)
        BY MatchesRight
    <2> HIDE DEF found
    <2> QED
        BY <2>1, Ranged
<1>2. a.value \in Int /\ a.pairs \in Seq(Pair)
    BY DEF Probing
<1>3. value \in Int
    <2> HIDE DEF found
    <2> QED BY <1>1, <1>2
<1>4. HashNext(v1, s1, behind, a, key, pos)
        = IF stop THEN [a EXCEPT !.ok = FALSE]
          ELSE IF found = << >> THEN a
          ELSE [a EXCEPT !.value = value, !.pairs = Append(@, <<value, pos>>)]
    BY Zenon DEF HashNext
<1> HIDE DEF found, value, stop
<1>5. <<value, pos>> \in Pair
    BY <1>3 DEF Pair
<1>6. Append(a.pairs, <<value, pos>>) \in Seq(Pair)
    BY <1>2, <1>5, AppendProperties
<1>7. /\ [a EXCEPT !.ok = FALSE] \in Probing
      /\ [a EXCEPT !.value = value, !.pairs = Append(@, <<value, pos>>)] \in Probing
    BY <1>3, <1>6 DEF Probing
<1> QED
    BY <1>4, <1>7

\* Its recursive function exists.
LEMMA HashProbesSome ==
    ASSUME NEW v1, NEW s1 \in Seq(Int), NEW v2, NEW s2 \in Seq(Int), NEW behind
    PROVE  \E f \in [0..Len(s2) -> Probing] : HashProbes(v1, s1, v2, s2, behind, f)
<1> DEFINE n == Len(s2)
           next(a, j) == HashNext(v1, s1, behind, a, At(v2, j, behind), s2[j])
           N == [q \in (1..n) \X Probing |-> next(q[2], q[1])]
<1>0. n \in Nat /\ \A j \in 1..n : s2[j] \in Int
    BY Ranged
<1>1. Steps(N, n, Probing)
    <2>1. \A j \in 1..n, g \in Probing : next(g, j) \in Probing
        BY <1>0, HashNextType
    <2> HIDE DEF next
    <2> QED
        BY <2>1 DEF Steps
<1>2. ASSUME NEW j \in 1..n, NEW g \in Probing PROVE N[<<j, g>>] = next(g, j)
    OBVIOUS
<1>3. HashStart \in Probing
    BY EmptySeq DEF HashStart, Probing
<1> HIDE DEF N, n
<1>4. PICK f : Iterates(f, N, n, HashStart, Probing)
    BY <1>0, <1>1, <1>3, Iteration
<1>5. f \in [0..n -> Probing]
    BY <1>4 DEF Iterates
<1>6. f = [i \in 0..n |-> IF i = 0 THEN HashStart ELSE N[<<i, f[i - 1]>>]]
    BY <1>0, <1>4, Unfolds
<1>7. ASSUME NEW i \in 0..n
      PROVE  (IF i = 0 THEN HashStart ELSE N[<<i, f[i - 1]>>]) = HashStep(v1, s1, v2, s2, behind, f, i)
    <2>1. i # 0 => i \in 1..n /\ i - 1 \in 0..n
        BY <1>0
    <2>2. i # 0 => f[i - 1] \in Probing
        BY <2>1, <1>5
    <2>3. i # 0 => N[<<i, f[i - 1]>>] = next(f[i - 1], i)
        BY <2>1, <2>2, <1>2, Zenon
    <2> QED
        BY <2>3, Zenon DEF HashStep
<1>8. HashProbes(v1, s1, v2, s2, behind, f)
    BY <1>6, <1>7, Zenon DEF HashProbes, n
<1> QED
    BY <1>5, <1>8 DEF n

\* A probe adds the pair of its row if one row at most has the key.
LEMMA HashNextRight ==
    ASSUME NEW v1, NEW s1, NEW v2, NEW s2, Inputs(v1, s1, v2, s2), NEW behind,
           NEW a \in Probing, a.ok, NEW j \in 1..Len(s2),
           ~ ReadsBefore(v2[j], SlotsFor(Len(v1))),
           Cardinality({i \in DOMAIN v1 : v1[i] = v2[j]}) <= 1,
           Lists(a.pairs, PairsIn(v1, s1, v2, s2, 1..Len(s1), 1..(j - 1)))
    PROVE  LET b == HashNext(v1, s1, behind, a, At(v2, j, behind), s2[j])
           IN  b.ok /\ Lists(b.pairs, PairsIn(v1, s1, v2, s2, 1..Len(s1), 1..j))
<1> DEFINE n1 == Len(s1)
           n2 == Len(s2)
           I == 1..n1
           P(J) == PairsIn(v1, s1, v2, s2, I, J)
           key == v2[j]
           found == Matches(v1, s1, key, behind)
           b == HashNext(v1, s1, behind, a, key, s2[j])
           value == IF Len(found) = 1 THEN found[1] ELSE a.value
<1>1. /\ v1 \in Seq(Int) /\ s1 \in Seq(Int) /\ v2 \in Seq(Int) /\ s2 \in Seq(Int)
      /\ n1 \in Nat /\ n2 \in Nat /\ Len(v1) = n1 /\ DOMAIN v1 = I /\ DOMAIN v2 = 1..n2
      /\ Distinct(s1)
    BY Ranged DEF Inputs
<1>2. At(v2, j, behind) = key
    BY <1>1 DEF At
<1>3. Lists(found, Holders(v1, s1, key, n1))
    BY <1>1, MatchesRight
<1>4. b = IF found = << >> THEN a ELSE [a EXCEPT !.value = value, !.pairs = Append(@, <<value, s2[j]>>)]
    BY <1>1, Zenon DEF HashNext
<1>5. /\ 1..j = (1..(j - 1)) \union {j} /\ (1..(j - 1)) \intersect {j} = {}
      /\ RowsOf(1..(j - 1), s2) /\ RowsOf({j}, s2) /\ RowsOf(I, s1)
    BY <1>1, UpTo DEF RowsOf
<1>6. P(1..j) = P(1..(j - 1)) \union P({j}) /\ P(1..(j - 1)) \intersect P({j}) = {}
    BY <1>5, PairsTogether, PairsApart
<1>7. \A z : z \in P({j}) <=> \E i \in I : v1[i] = key /\ z = <<s1[i], s2[j]>>
    BY PairsAre
<1>8. Lists(a.pairs, P(1..(j - 1)))
    OBVIOUS
<1> HIDE DEF found, b, value, P
<1>9. CASE \A i \in I : v1[i] # key
    <2>1. Holders(v1, s1, key, n1) = {} /\ P({j}) = {}
        BY <1>9, <1>7 DEF Holders
    <2>2. found = << >>
        BY <2>1, <1>3, ListsFew
    <2>3. b = a /\ P(1..j) = P(1..(j - 1))
        BY <2>1, <2>2, <1>4, <1>6
    <2> QED
        BY <2>3, <1>2, <1>8 DEF b, P
<1>10. CASE \E i \in I : v1[i] = key
    <2>1. PICK i \in I : v1[i] = key
        BY <1>10
    <2>2. ASSUME NEW k \in I, v1[k] = key PROVE k = i
        <3> DEFINE S == {m \in DOMAIN v1 : v1[m] = v2[j]}
        <3>1. IsFiniteSet(I)
            <4>1. \A n \in Nat : IsFiniteSet(1..n)
                BY FS_Interval
            <4> QED
                BY <4>1, <1>1
        <3>2. S \in SUBSET I /\ k \in S /\ i \in S /\ Cardinality(S) <= 1
            BY <1>1, <2>1, <2>2
        <3> HIDE DEF S
        <3>3. IsFiniteSet(S)
            BY <3>1, <3>2, FS_Subset
        <3> QED
            BY <3>2, <3>3, AtMostOne
    <2>3. Holders(v1, s1, key, n1) = {s1[i]} /\ P({j}) = {<<s1[i], s2[j]>>}
        <3>1. Holders(v1, s1, key, n1) = {s1[i]}
            BY <2>1, <2>2 DEF Holders
        <3>2. \A z : z \in P({j}) <=> z = <<s1[i], s2[j]>>
            BY <2>1, <2>2, <1>7
        <3>3. P({j}) = {<<s1[i], s2[j]>>}
            <4> DEFINE Q == P({j})
                       e == <<s1[i], s2[j]>>
            <4>1. \A z : z \in Q <=> z = e
                BY <3>2
            <4> HIDE DEF Q, e
            <4>2. Q = {e}
                BY <4>1
            <4> QED
                BY <4>2 DEF Q, e
        <3> QED
            BY <3>1, <3>3
    <2>4. Len(found) = 1 /\ found[1] = s1[i] /\ found # << >>
        BY <2>3, <1>3, ListsFew, ZenonT(60)
    <2>5. value = s1[i]
        BY <2>4 DEF value
    <2>6. b = [a EXCEPT !.value = value, !.pairs = Append(@, <<value, s2[j]>>)]
        BY <2>4, <1>4
    <2>7. b.ok /\ b.pairs = Append(a.pairs, <<value, s2[j]>>)
        BY <2>6 DEF Probing
    <2>8. <<value, s2[j]>> \notin P(1..(j - 1))
        BY <2>3, <2>5, <1>6
    <2>9. Lists(b.pairs, P(1..(j - 1)) \union {<<value, s2[j]>>})
        BY <2>7, <2>8, <1>8, ListsMore
    <2> QED
        BY <2>3, <2>5, <2>7, <2>9, <1>2, <1>6 DEF b, P
<1> QED
    BY <1>9, <1>10

\* db_hash_join_i answers exactly under its conditions.
LEMMA HashRight ==
    ASSUME NEW v1, NEW s1 \in Seq(Int), NEW v2, NEW s2 \in Seq(Int), NEW behind
    PROVE  LET a == HashJoinInt(v1, s1, v2, s2, behind)
           IN  /\ IsAnswer(a)
               /\ Inputs(v1, s1, v2, s2) /\ JoinKept("hash", v1, v2) => Joins(a, v1, s1, v2, s2)
<1> DEFINE n == Len(s2)
           P(J) == PairsIn(v1, s1, v2, s2, 1..Len(s1), J)
           answer == HashJoinInt(v1, s1, v2, s2, behind)
           held == Inputs(v1, s1, v2, s2) /\ JoinKept("hash", v1, v2)
           probes == CHOOSE f : HashProbes(v1, s1, v2, s2, behind, f)
<1>0. n \in Nat /\ \A j \in 1..n : s2[j] \in Int
    BY Ranged
<1>1. answer = IF probes[n].ok THEN Paired(probes[n].pairs) ELSE Lost
    BY DEF HashJoinInt, HashProbes, HashStep, HashNext, HashStart
<1>2. HashProbes(v1, s1, v2, s2, behind, probes)
    BY HashProbesSome
<1>3. PICK f : HashProbes(v1, s1, v2, s2, behind, f) /\ f = probes
    BY <1>2
<1>4. answer = IF f[n].ok THEN Paired(f[n].pairs) ELSE Lost
    BY <1>1, <1>3
<1> HIDE DEF n, P, answer, probes, held
<1>5. ASSUME NEW j \in 0..n PROVE f[j] = HashStep(v1, s1, v2, s2, behind, f, j)
    BY <1>3, Zenon DEF HashProbes, n
<1> DEFINE Good(j) == f[j] \in Probing /\ (held => f[j].ok /\ Lists(f[j].pairs, P(1..j)))
           S == {j \in 0..n : Good(j)}
<1>6. 0 \in S
    <2>1. 0 \in 0..n
        BY <1>0
    <2>2. f[0] = HashStep(v1, s1, v2, s2, behind, f, 0)
        BY <2>1, <1>5
    <2>3. f[0] = HashStart /\ P(1..0) = {}
        BY <2>2, NoPairs DEF HashStep, P
    <2>4. f[0].pairs = << >> /\ f[0].ok /\ f[0] \in Probing
        BY <2>3, EmptySeq DEF HashStart, Probing
    <2>5. Lists(f[0].pairs, P(1..0))
        BY <2>3, <2>4, ListsNothing
    <2>6. Good(0)
        BY <2>4, <2>5
    <2> QED
        BY <2>1, <2>6
<1>7. ASSUME NEW j \in 1..n, j - 1 \in S PROVE j \in S
    <2>0. j \in 0..n /\ j # 0 /\ Good(j - 1)
        BY <1>0, <1>7
    <2> DEFINE a == f[j - 1]
               b == HashNext(v1, s1, behind, a, At(v2, j, behind), s2[j])
    <2>1. f[j] = b
        BY <2>0, <1>5 DEF HashStep
    <2>2. b \in Probing
        BY <2>0, <1>0, HashNextType
    <2>3. ASSUME held PROVE b.ok /\ Lists(b.pairs, P(1..j))
        <3>1. a \in Probing /\ a.ok /\ Lists(a.pairs, P(1..(j - 1)))
            BY <2>0, <2>3
        <3>2. Inputs(v1, s1, v2, s2) /\ j \in 1..Len(s2) /\ j \in DOMAIN v2
            BY <2>3, Ranged DEF held, n, Inputs
        <3>3. /\ ~ ReadsBefore(v2[j], SlotsFor(Len(v1)))
              /\ Cardinality({i \in DOMAIN v1 : v1[i] = v2[j]}) <= 1
            BY <3>2, <2>3 DEF held, JoinKept
        <3> HIDE DEF a
        <3> QED
            BY <3>1, <3>2, <3>3, HashNextRight DEF P
    <2> HIDE DEF b
    <2>4. Good(j)
        BY <2>1, <2>2, <2>3
    <2> QED
        BY <2>0, <2>4
<1>8. 0..n \subseteq S
    <2> HIDE DEF S
    <2> QED BY <1>0, <1>6, <1>7, Upward
<1>9. Good(n)
    BY <1>0, <1>8
<1>10. f[n].pairs \in Seq(Pair)
    BY <1>9 DEF Probing
<1>11. IsAnswer(answer)
    BY <1>4, <1>10, LostIs, PairedIs
<1>12. ASSUME held PROVE Joins(answer, v1, s1, v2, s2)
    <2>1. answer = Paired(f[n].pairs) /\ Lists(f[n].pairs, P(1..n))
        BY <1>12, <1>9, <1>4
    <2>2. P(1..n) = Wanted(v1, s1, v2, s2)
        BY <1>12 DEF Wanted, P, n, held, Inputs
    <2> QED
        BY <2>1, <2>2, <1>10, PairedIs DEF Joins
<1> QED
    BY <1>11, <1>12 DEF answer, held

\* Rising from each value to the next is rising throughout.
LEMMA AscendingAll ==
    ASSUME NEW v \in Seq(Int), Ascending(v), NEW i \in 1..Len(v), NEW j \in 1..Len(v), i < j
    PROVE  v[i] < v[j]
<1>0. Len(v) \in Nat /\ \A k \in 1..Len(v) : v[k] \in Int
    BY Ranged
<1> DEFINE n == Len(v) - i
           S == {d \in 0..n : d # 0 => v[i] < v[i + d]}
<1>1. n \in Nat /\ \A d \in 1..n : i + d \in 2..Len(v) /\ i + d - 1 = i + (d - 1) /\ i + d - 1 \in 1..Len(v)
    BY <1>0
<1>2. 0 \in S
    BY <1>1
<1>3. ASSUME NEW d \in 1..n, d - 1 \in S PROVE d \in S
    <2>1. v[i + (d - 1)] < v[i + d]
        BY <1>1 DEF Ascending
    <2>2. v[i + d] \in Int /\ v[i + (d - 1)] \in Int /\ v[i] \in Int /\ d \in 0..n /\ i + 0 = i
        <3>1. i + d \in 1..Len(v) /\ i + (d - 1) \in 1..Len(v) /\ d \in 0..n /\ i + 0 = i
            BY <1>0, <1>1
        <3> QED
            BY <3>1, <1>0
    <2>3. CASE d - 1 = 0
        BY <2>1, <2>2, <2>3
    <2>4. CASE d - 1 # 0
        <3>1. v[i] < v[i + (d - 1)]
            BY <1>3, <2>4
        <3>2. v[i] < v[i + d]
            BY <3>1, <2>1, <2>2
        <3> QED
            BY <3>2, <2>2
    <2> QED
        BY <2>3, <2>4
<1>4. 0..n \subseteq S
    <2> HIDE DEF S
    <2> QED BY <1>1, <1>2, <1>3, Upward
<1>5. j - i \in 0..n /\ j - i # 0 /\ i + (j - i) = j
    BY <1>0
<1>6. j - i \in S
    BY <1>4, <1>5
<1> QED
    BY <1>5, <1>6

-------------------------------------------------------------------------------
(* The sort-merge join *)

\* The answers of a join.
Answers == [ok : BOOLEAN, pairs : Seq(Pair)]
\* The pairs of places up to which a sort-merge join may have come.
JoinFronts(s1, s2) == (1..(Len(s1) + 2)) \X (1..(Len(s2) + 2))
\* One turn of the loop of db_sort_join_i, given the function f of the rest.
JoinStep(v1, s1, v2, s2, behind, f, p) ==
    LET i == p[1]
        j == p[2]
        with(pair, a) == IF a.ok THEN Paired(<<pair>> \o a.pairs) ELSE Lost
    IN  IF i > Len(s1) + 1 \/ j > Len(s2) + 1 THEN Lost
        ELSE IF i > Len(s1) /\ j > Len(s2) THEN Paired(<< >>)
        ELSE IF At(v1, i, behind) < At(v2, j, behind) THEN f[<<i + 1, j>>]
        ELSE IF At(v1, i, behind) > At(v2, j, behind) THEN f[<<i, j + 1>>]
        ELSE IF i > Len(s1) \/ j > Len(s2) THEN Lost
        ELSE with(<<s1[i], s2[j]>>, f[<<i + 1, j + 1>>])
\* f is the recursive function of SortJoinInt.
MergeJoins(v1, s1, v2, s2, behind, f) ==
    f = [p \in JoinFronts(s1, s2) |-> JoinStep(v1, s1, v2, s2, behind, f, p)]

\* The turns that may be left.
JoinRank(s1, s2) == [p \in JoinFronts(s1, s2) |-> Len(s1) + 2 - p[1] + Len(s2) + 2 - p[2]]

\* Each turn leaves fewer.
LEMMA JoinFrontsMove ==
    ASSUME NEW s1, NEW s2, Len(s1) \in Nat, Len(s2) \in Nat
    PROVE  /\ Ranks(JoinRank(s1, s2), JoinFronts(s1, s2), Len(s1) + Len(s2) + 2)
           /\ \A p \in JoinFronts(s1, s2) :
                  /\ p[1] \in 1..(Len(s1) + 2) /\ p[2] \in 1..(Len(s2) + 2) /\ p = <<p[1], p[2]>>
                  /\ p[1] <= Len(s1) + 1 /\ p[2] <= Len(s2) + 1 =>
                         \A e \in {<<p[1] + 1, p[2]>>, <<p[1], p[2] + 1>>, <<p[1] + 1, p[2] + 1>>} :
                             e \in JoinFronts(s1, s2) /\ JoinRank(s1, s2)[e] < JoinRank(s1, s2)[p]
<1> DEFINE D == JoinFronts(s1, s2)
           rank(p) == Len(s1) + 2 - p[1] + Len(s2) + 2 - p[2]
<1>1. \A p \in D : p[1] \in 1..(Len(s1) + 2) /\ p[2] \in 1..(Len(s2) + 2) /\ p = <<p[1], p[2]>>
    BY DEF JoinFronts
<1>2. \A p \in D : rank(p) \in 0..(Len(s1) + Len(s2) + 2)
    BY <1>1, SMTT(60)
<1>3. JoinRank(s1, s2) = [p \in D |-> rank(p)]
    BY DEF JoinRank
<1>4. Ranks(JoinRank(s1, s2), D, Len(s1) + Len(s2) + 2)
    <2> HIDE DEF rank, D
    <2> QED
        BY <1>2, <1>3 DEF Ranks
<1>5. ASSUME NEW p \in D, p[1] <= Len(s1) + 1, p[2] <= Len(s2) + 1,
             NEW e \in {<<p[1] + 1, p[2]>>, <<p[1], p[2] + 1>>, <<p[1] + 1, p[2] + 1>>}
      PROVE  e \in D /\ JoinRank(s1, s2)[e] < JoinRank(s1, s2)[p]
    <2>1. p[1] + 1 \in 1..(Len(s1) + 2) /\ p[2] + 1 \in 1..(Len(s2) + 2)
        BY <1>1, <1>5, SMTT(60)
    <2>2. e \in D
        BY <1>1, <2>1 DEF JoinFronts
    <2>3. \/ e[1] = p[1] + 1 /\ e[2] = p[2]
          \/ e[1] = p[1] /\ e[2] = p[2] + 1
          \/ e[1] = p[1] + 1 /\ e[2] = p[2] + 1
        BY <1>5
    <2>4. p[1] \in Nat /\ p[2] \in Nat
        BY <1>1
    <2>6. e[1] \in Nat /\ e[2] \in Nat
        BY <2>3, <2>4
    <2> DEFINE a == p[1]
               b == p[2]
               c == e[1]
               d == e[2]
    <2>8. /\ a \in Nat /\ b \in Nat /\ c \in Nat /\ d \in Nat
          /\ (c = a + 1 /\ d = b) \/ (c = a /\ d = b + 1) \/ (c = a + 1 /\ d = b + 1)
          /\ rank(e) = Len(s1) + 2 - c + Len(s2) + 2 - d
          /\ rank(p) = Len(s1) + 2 - a + Len(s2) + 2 - b
        BY <2>3, <2>4, <2>6
    <2> HIDE DEF a, b, c, d, rank
    <2>7. rank(e) < rank(p)
        BY <2>8
    <2> QED
        BY <2>2, <2>7, <1>3
<1> QED
    BY <1>1, <1>4, <1>5

\* A turn gives an answer if the next ones do.
LEMMA JoinStepType ==
    ASSUME NEW v1, NEW s1 \in Seq(Int), NEW v2, NEW s2 \in Seq(Int), NEW behind,
           NEW p \in JoinFronts(s1, s2), NEW f,
           p[1] <= Len(s1) + 1 /\ p[2] <= Len(s2) + 1 =>
               \A e \in {<<p[1] + 1, p[2]>>, <<p[1], p[2] + 1>>, <<p[1] + 1, p[2] + 1>>} : f[e] \in Answers
    PROVE  JoinStep(v1, s1, v2, s2, behind, f, p) \in Answers
<1> DEFINE i == p[1]
           j == p[2]
           stop == i > Len(s1) + 1 \/ j > Len(s2) + 1
           last == i > Len(s1) \/ j > Len(s2)
           r == JoinStep(v1, s1, v2, s2, behind, f, p)
           more == f[<<i + 1, j + 1>>]
           pair == <<s1[i], s2[j]>>
<1>1. /\ i \in 1..(Len(s1) + 2) /\ j \in 1..(Len(s2) + 2) /\ Len(s1) \in Nat /\ Len(s2) \in Nat
      /\ \A k \in 1..Len(s1) : s1[k] \in Int
      /\ \A k \in 1..Len(s2) : s2[k] \in Int
    BY Ranged DEF JoinFronts
<1>2. ~ stop => i <= Len(s1) + 1 /\ j <= Len(s2) + 1
    BY <1>1
<1>3. ~ last => pair \in Pair
    <2>1. ~ last => i \in 1..Len(s1) /\ j \in 1..Len(s2)
        BY <1>1, SMTT(30)
    <2>2. ~ last => s1[i] \in Int /\ s2[j] \in Int
        BY <2>1, <1>1
    <2> QED
        BY <2>2 DEF Pair
<1>4. /\ Lost \in Answers
      /\ \A s \in Seq(Pair) : Paired(s) \in Answers
      /\ << >> \in Seq(Pair)
    BY EmptySeq DEF Lost, Paired, Answers
<1>5. ~ stop /\ ~ last => (IF more.ok THEN Paired(<<pair>> \o more.pairs) ELSE Lost) \in Answers
    <2> SUFFICES ASSUME ~ stop, ~ last PROVE (IF more.ok THEN Paired(<<pair>> \o more.pairs) ELSE Lost) \in Answers
        OBVIOUS
    <2>1. more \in Answers
        BY <1>2
    <2> HIDE DEF more, pair, stop, last
    <2>2. more.pairs \in Seq(Pair) /\ <<pair>> \in Seq(Pair)
        BY <2>1, <1>3 DEF Answers
    <2>3. <<pair>> \o more.pairs \in Seq(Pair)
        BY <2>2, ConcatProperties
    <2> QED
        BY <2>3, <1>4
<1>6. ~ stop => f[<<i + 1, j>>] \in Answers /\ f[<<i, j + 1>>] \in Answers
    BY <1>2
<1>7. r = IF stop THEN Lost
          ELSE IF i > Len(s1) /\ j > Len(s2) THEN Paired(<< >>)
          ELSE IF At(v1, i, behind) < At(v2, j, behind) THEN f[<<i + 1, j>>]
          ELSE IF At(v1, i, behind) > At(v2, j, behind) THEN f[<<i, j + 1>>]
          ELSE IF last THEN Lost
          ELSE IF more.ok THEN Paired(<<pair>> \o more.pairs) ELSE Lost
    BY DEF JoinStep
<1> HIDE DEF stop, last, more, pair, r
<1>8. r \in Answers
    BY <1>4, <1>5, <1>6, <1>7
<1> QED
    BY <1>8 DEF r

\* The loop ends: its recursive function exists.
LEMMA MergeJoinsSome ==
    ASSUME NEW v1, NEW s1 \in Seq(Int), NEW v2, NEW s2 \in Seq(Int), NEW behind
    PROVE  \E f : MergeJoins(v1, s1, v2, s2, behind, f)
<1> DEFINE D == JoinFronts(s1, s2)
           step(f, p) == JoinStep(v1, s1, v2, s2, behind, f, p)
           G == [q \in D \X [D -> Answers] |-> step(q[2], q[1])]
           rank == JoinRank(s1, s2)
           N == Len(s1) + Len(s2) + 2
           near(p) == {<<p[1] + 1, p[2]>>, <<p[1], p[2] + 1>>, <<p[1] + 1, p[2] + 1>>}
<1>1. Len(s1) \in Nat /\ Len(s2) \in Nat
    BY LenProperties
<1>2. /\ Ranks(rank, D, N) /\ N \in Nat
      /\ \A p \in D : p[1] \in Nat /\ p[2] \in Nat
      /\ \A p \in D : p[1] <= Len(s1) + 1 /\ p[2] <= Len(s2) + 1 =>
                          \A e \in near(p) : e \in D /\ rank[e] < rank[p]
    <2>1. Ranks(rank, D, N) /\ N \in Nat
        BY <1>1, JoinFrontsMove
    <2>2. \A p \in D : p[1] \in 1..(Len(s1) + 2) /\ p[2] \in 1..(Len(s2) + 2)
        BY <1>1, JoinFrontsMove
    <2>3. \A p \in D : p[1] \in Nat /\ p[2] \in Nat
        BY <2>2, <1>1
    <2>4. ASSUME NEW p \in D, p[1] <= Len(s1) + 1 /\ p[2] <= Len(s2) + 1, NEW e \in near(p)
          PROVE  e \in D /\ rank[e] < rank[p]
        <3>1. \A q \in JoinFronts(s1, s2) :
                  q[1] <= Len(s1) + 1 /\ q[2] <= Len(s2) + 1 =>
                         \A g \in {<<q[1] + 1, q[2]>>, <<q[1], q[2] + 1>>, <<q[1] + 1, q[2] + 1>>} :
                             g \in JoinFronts(s1, s2) /\ JoinRank(s1, s2)[g] < JoinRank(s1, s2)[q]
            BY <1>1, JoinFrontsMove
        <3>2. \A g \in near(p) : g \in D /\ rank[g] < rank[p]
            BY <3>1, <2>4
        <3> QED
            BY <3>2
    <2> HIDE DEF near, D, rank, N
    <2> QED
        BY <2>1, <2>3, <2>4
<1> HIDE DEF D, rank, N
<1>3. ASSUME NEW p \in D, NEW f \in [D -> Answers] PROVE step(f, p) \in Answers
    <2>1. p[1] <= Len(s1) + 1 /\ p[2] <= Len(s2) + 1 => \A e \in near(p) : f[e] \in Answers
        BY <1>2
    <2> QED
        BY <2>1, JoinStepType DEF D
<1>4. ASSUME NEW p \in D, NEW f \in [D -> Answers], NEW g \in [D -> Answers],
             \A e \in D : rank[e] < rank[p] => f[e] = g[e]
      PROVE  step(f, p) = step(g, p)
    <2>1. CASE p[1] > Len(s1) + 1 \/ p[2] > Len(s2) + 1
        BY <2>1 DEF JoinStep
    <2>2. CASE ~ (p[1] > Len(s1) + 1 \/ p[2] > Len(s2) + 1)
        <3>1. p[1] <= Len(s1) + 1 /\ p[2] <= Len(s2) + 1
            <4>1. p[1] \in Nat /\ p[2] \in Nat
                BY <1>2
            <4> QED
                BY <4>1, <1>1, <2>2
        <3>2. \A e \in near(p) : f[e] = g[e]
            BY <1>2, <1>4, <3>1
        <3>3. /\ f[<<p[1] + 1, p[2]>>] = g[<<p[1] + 1, p[2]>>]
              /\ f[<<p[1], p[2] + 1>>] = g[<<p[1], p[2] + 1>>]
              /\ f[<<p[1] + 1, p[2] + 1>>] = g[<<p[1] + 1, p[2] + 1>>]
            BY <3>2
        <3> QED
            BY <3>3 DEF JoinStep
    <2> QED
        BY <2>1, <2>2
<1> HIDE DEF step
<1>5. G \in [D \X [D -> Answers] -> Answers]
    BY <1>3
<1>6. \A p \in D : \A f \in [D -> Answers] : G[<<p, f>>] = step(f, p)
    OBVIOUS
<1> HIDE DEF G
<1>7. Descends(G, D, Answers, rank)
    <2>1. ASSUME NEW p \in D, NEW f \in [D -> Answers], NEW g \in [D -> Answers],
                 \A e \in D : rank[e] < rank[p] => f[e] = g[e]
          PROVE  G[<<p, f>>] = G[<<p, g>>]
        BY <1>6, <2>1, <1>4
    <2> QED
        BY <1>5, <2>1 DEF Descends
<1>8. Lost \in Answers
    BY EmptySeq DEF Lost, Answers
<1>9. PICK f : Solves(f, G, D, Answers)
    BY <1>2, <1>7, <1>8, Recursion
<1>10. f = [p \in D |-> step(f, p)]
    <2>1. f \in [D -> Answers] /\ \A p \in D : f[p] = G[<<p, f>>]
        BY <1>9 DEF Solves
    <2>2. \A p \in D : G[<<p, f>>] = step(f, p)
        BY <2>1, <1>6
    <2>3. f = [p \in D |-> f[p]]
        BY <2>1
    <2> QED
        BY <2>1, <2>2, <2>3
<1> QED
    BY <1>10 DEF MergeJoins, D, step

\* Rows with no value in common make no pairs.
LEMMA NoneAlike ==
    ASSUME NEW v1, NEW s1, NEW v2, NEW s2, NEW I, NEW J, \A i \in I, j \in J : v1[i] # v2[j]
    PROVE  PairsIn(v1, s1, v2, s2, I, J) = {}
BY PairsAre

\* A rising sequence does not fall.
LEMMA AscendingUp ==
    ASSUME NEW v \in Seq(Int), Ascending(v), NEW i \in 1..Len(v), NEW j \in i..Len(v)
    PROVE  v[i] <= v[j] /\ v[i] \in Int /\ v[j] \in Int /\ (i # j => v[i] < v[j])
<1>1. Len(v) \in Nat /\ \A k \in 1..Len(v) : v[k] \in Int
    BY Ranged
<1>2. j \in 1..Len(v) /\ (i # j => i < j)
    BY <1>1
<1>3. i # j => v[i] < v[j]
    BY <1>2, AscendingAll
<1> QED
    BY <1>1, <1>2, <1>3

\* What the sort-merge join needs: both sides rise and end with the same value.
MergeKept(v1, s1, v2, s2) ==
    /\ Inputs(v1, s1, v2, s2) /\ Len(s2) <= Len(s1)
    /\ Ascending(v1) /\ Ascending(v2)
    /\ Len(s1) # 0 => Len(s2) # 0 /\ v1[Len(s1)] = v2[Len(s2)]
\* The wanted pairs of the rows that are left.
RestPairs(v1, s1, v2, s2, i, j) == PairsIn(v1, s1, v2, s2, i..Len(s1), j..Len(s2))

\* The lengths of the two sides.
LEMMA KeptMerge ==
    ASSUME NEW v1, NEW s1, NEW v2, NEW s2, MergeKept(v1, s1, v2, s2)
    PROVE  /\ Len(s1) \in Nat /\ Len(s2) \in Nat /\ v1 \in Seq(Int) /\ v2 \in Seq(Int)
           /\ Len(v1) = Len(s1) /\ Len(v2) = Len(s2)
           /\ DOMAIN v1 = 1..Len(s1) /\ DOMAIN v2 = 1..Len(s2)
           /\ DOMAIN s1 = 1..Len(s1) /\ DOMAIN s2 = 1..Len(s2)
BY Ranged DEF MergeKept, Inputs

\* The smaller value on the left has no partner and is not the last one.
LEMMA LowerLeft ==
    ASSUME NEW v1, NEW s1, NEW v2, NEW s2, MergeKept(v1, s1, v2, s2),
           NEW i \in 1..Len(s1), NEW j \in 1..Len(s2), v1[i] < v2[j]
    PROVE  i + 1 <= Len(s1) /\ RestPairs(v1, s1, v2, s2, i, j) = RestPairs(v1, s1, v2, s2, i + 1, j)
<1> DEFINE n1 == Len(s1)
           n2 == Len(s2)
<1>1. /\ n1 \in Nat /\ n2 \in Nat /\ v1 \in Seq(Int) /\ v2 \in Seq(Int) /\ Len(v1) = n1 /\ Len(v2) = n2
    BY KeptMerge
<1>2. Ascending(v1) /\ Ascending(v2) /\ v1[n1] = v2[n2]
    BY <1>1 DEF MergeKept
<1>3. v2[j] <= v2[n2] /\ v2[j] \in Int /\ v2[n2] \in Int
    <2>1. j \in 1..Len(v2) /\ n2 \in j..Len(v2)
        BY <1>1
    <2> QED
        BY <2>1, <1>1, <1>2, AscendingUp
<1>4. v1[i] \in Int
    BY <1>1, Ranged
<1>5. i # n1
    BY <1>2, <1>3, <1>4
<1>6. PairsIn(v1, s1, v2, s2, {i}, j..n2) = {}
    <2>1. ASSUME NEW k \in j..n2 PROVE v1[i] # v2[k]
        <3>1. v2[j] <= v2[k] /\ v2[k] \in Int
            BY <1>1, <1>2, AscendingUp
        <3> QED
            BY <3>1, <1>3, <1>4
    <2>2. \A h \in {i}, k \in j..n2 : v1[h] # v2[k]
        BY <2>1
    <2> QED
        BY <2>2, NoneAlike
<1>7. i..n1 = {i} \union ((i + 1)..n1)
    BY <1>1, SMTT(60)
<1>8. RestPairs(v1, s1, v2, s2, i, j) = RestPairs(v1, s1, v2, s2, i + 1, j)
    <2>1. PairsIn(v1, s1, v2, s2, {i} \union ((i + 1)..n1), j..n2)
              = PairsIn(v1, s1, v2, s2, {i}, j..n2) \union PairsIn(v1, s1, v2, s2, (i + 1)..n1, j..n2)
        BY PairsTogether
    <2> QED
        BY <2>1, <1>6, <1>7 DEF RestPairs
<1> QED
    BY <1>1, <1>5, <1>8

\* The smaller value on the right has no partner and is not the last one.
LEMMA LowerRight ==
    ASSUME NEW v1, NEW s1, NEW v2, NEW s2, MergeKept(v1, s1, v2, s2),
           NEW i \in 1..Len(s1), NEW j \in 1..Len(s2), v1[i] > v2[j]
    PROVE  j + 1 <= Len(s2) /\ RestPairs(v1, s1, v2, s2, i, j) = RestPairs(v1, s1, v2, s2, i, j + 1)
<1> DEFINE n1 == Len(s1)
           n2 == Len(s2)
<1>1. /\ n1 \in Nat /\ n2 \in Nat /\ v1 \in Seq(Int) /\ v2 \in Seq(Int) /\ Len(v1) = n1 /\ Len(v2) = n2
    BY KeptMerge
<1>2. Ascending(v1) /\ Ascending(v2) /\ v1[n1] = v2[n2]
    BY <1>1 DEF MergeKept
<1>3. v1[i] <= v1[n1] /\ v1[i] \in Int /\ v1[n1] \in Int
    BY <1>1, <1>2, AscendingUp, SMTT(30)
<1>4. v2[j] \in Int
    BY <1>1, Ranged
<1>5. j # n2
    BY <1>2, <1>3, <1>4
<1>6. PairsIn(v1, s1, v2, s2, i..n1, {j}) = {}
    <2>1. ASSUME NEW k \in i..n1 PROVE v1[k] # v2[j]
        <3>1. v1[i] <= v1[k] /\ v1[k] \in Int
            BY <1>1, <1>2, AscendingUp
        <3> QED
            BY <3>1, <1>3, <1>4
    <2>2. \A k \in i..n1, h \in {j} : v1[k] # v2[h]
        BY <2>1
    <2> QED
        BY <2>2, NoneAlike
<1>7. j..n2 = {j} \union ((j + 1)..n2)
    BY <1>1, SMTT(60)
<1>8. RestPairs(v1, s1, v2, s2, i, j) = RestPairs(v1, s1, v2, s2, i, j + 1)
    <2>1. PairsIn(v1, s1, v2, s2, i..n1, {j} \union ((j + 1)..n2))
              = PairsIn(v1, s1, v2, s2, i..n1, {j}) \union PairsIn(v1, s1, v2, s2, i..n1, (j + 1)..n2)
        BY PairsTogether
    <2> QED
        BY <2>1, <1>6, <1>7 DEF RestPairs
<1> QED
    BY <1>1, <1>5, <1>8

\* Equal values make one pair, and both sides go on or both end.
LEMMA SameFront ==
    ASSUME NEW v1, NEW s1, NEW v2, NEW s2, MergeKept(v1, s1, v2, s2),
           NEW i \in 1..Len(s1), NEW j \in 1..Len(s2), v1[i] = v2[j]
    PROVE  /\ i + 1 <= Len(s1) <=> j + 1 <= Len(s2)
           /\ Lists(<< <<s1[i], s2[j]>> >>, PairsIn(v1, s1, v2, s2, {i}, {j}))
           /\ RestPairs(v1, s1, v2, s2, i, j)
                  = PairsIn(v1, s1, v2, s2, {i}, {j}) \union RestPairs(v1, s1, v2, s2, i + 1, j + 1)
           /\ PairsIn(v1, s1, v2, s2, {i}, {j}) \intersect RestPairs(v1, s1, v2, s2, i + 1, j + 1) = {}
<1> DEFINE n1 == Len(s1)
           n2 == Len(s2)
           P(I, J) == PairsIn(v1, s1, v2, s2, I, J)
<1>1. /\ n1 \in Nat /\ n2 \in Nat /\ v1 \in Seq(Int) /\ v2 \in Seq(Int) /\ Len(v1) = n1 /\ Len(v2) = n2
    BY KeptMerge
<1>2. Ascending(v1) /\ Ascending(v2) /\ v1[n1] = v2[n2]
    BY <1>1 DEF MergeKept
<1>3. /\ v1[i] \in Int /\ v1[n1] \in Int /\ (i # n1 => v1[i] < v1[n1])
      /\ v2[j] \in Int /\ v2[n2] \in Int /\ (j # n2 => v2[j] < v2[n2])
    BY <1>1, <1>2, AscendingUp, SMTT(30)
<1>4. i + 1 <= n1 <=> j + 1 <= n2
    <2>1. i = n1 <=> j = n2
        BY <1>2, <1>3
    <2> QED
        BY <2>1, <1>1
<1>5. i..n1 = {i} \union ((i + 1)..n1) /\ j..n2 = {j} \union ((j + 1)..n2)
    BY <1>1, SMTT(60)
<1>6. P({i}, (j + 1)..n2) = {}
    <2>1. ASSUME NEW k \in (j + 1)..n2 PROVE v1[i] # v2[k]
        <3>1. k \in j..n2 /\ j # k
            BY <1>1
        <3>2. v2[j] < v2[k] /\ v2[k] \in Int
            BY <3>1, <1>1, <1>2, AscendingUp
        <3> QED
            BY <3>2, <1>3
    <2>2. \A h \in {i}, k \in (j + 1)..n2 : v1[h] # v2[k]
        BY <2>1
    <2> QED
        BY <2>2, NoneAlike
<1>7. P((i + 1)..n1, {j}) = {}
    <2>1. ASSUME NEW k \in (i + 1)..n1 PROVE v1[k] # v2[j]
        <3>1. k \in i..n1 /\ i # k
            BY <1>1
        <3>2. v1[i] < v1[k] /\ v1[k] \in Int
            BY <3>1, <1>1, <1>2, AscendingUp
        <3> QED
            BY <3>2, <1>3
    <2>2. \A k \in (i + 1)..n1, h \in {j} : v1[k] # v2[h]
        BY <2>1
    <2> QED
        BY <2>2, NoneAlike
<1>8. /\ P({i} \union ((i + 1)..n1), j..n2) = P({i}, j..n2) \union P((i + 1)..n1, j..n2)
      /\ P({i}, {j} \union ((j + 1)..n2)) = P({i}, {j}) \union P({i}, (j + 1)..n2)
      /\ P((i + 1)..n1, {j} \union ((j + 1)..n2)) = P((i + 1)..n1, {j}) \union P((i + 1)..n1, (j + 1)..n2)
    <2>1. PairsIn(v1, s1, v2, s2, {i} \union ((i + 1)..n1), j..n2)
              = PairsIn(v1, s1, v2, s2, {i}, j..n2) \union PairsIn(v1, s1, v2, s2, (i + 1)..n1, j..n2)
        BY PairsTogether
    <2>2. PairsIn(v1, s1, v2, s2, {i}, {j} \union ((j + 1)..n2))
              = PairsIn(v1, s1, v2, s2, {i}, {j}) \union PairsIn(v1, s1, v2, s2, {i}, (j + 1)..n2)
        BY PairsTogether
    <2>3. PairsIn(v1, s1, v2, s2, (i + 1)..n1, {j} \union ((j + 1)..n2))
              = PairsIn(v1, s1, v2, s2, (i + 1)..n1, {j}) \union PairsIn(v1, s1, v2, s2, (i + 1)..n1, (j + 1)..n2)
        BY PairsTogether
    <2> QED
        BY <2>1, <2>2, <2>3
<1>9. P(i..n1, j..n2) = P({i}, {j}) \union P((i + 1)..n1, (j + 1)..n2)
    <2> HIDE DEF P, n1, n2
    <2>1. P(i..n1, j..n2) = P({i}, j..n2) \union P((i + 1)..n1, j..n2)
        BY <1>5, <1>8
    <2>2. P({i}, j..n2) = P({i}, {j})
        BY <1>5, <1>6, <1>8
    <2>3. P((i + 1)..n1, j..n2) = P((i + 1)..n1, (j + 1)..n2)
        BY <1>5, <1>7, <1>8
    <2> QED
        BY <2>1, <2>2, <2>3
<1>10. P({i}, {j}) \intersect P((i + 1)..n1, (j + 1)..n2) = {}
    <2>1. RowsOf({i}, s1) /\ RowsOf((i + 1)..n1, s1) /\ RowsOf({j}, s2) /\ RowsOf((j + 1)..n2, s2)
        BY <1>1, SMTT(60) DEF RowsOf
    <2>2. {i} \intersect ((i + 1)..n1) = {}
        OBVIOUS
    <2>3. Inputs(v1, s1, v2, s2)
        BY DEF MergeKept
    <2> QED
        BY <2>1, <2>2, <2>3, PairsApart
<1>11. Lists(<< <<s1[i], s2[j]>> >>, P({i}, {j}))
    <2> DEFINE e == <<s1[i], s2[j]>>
    <2>1. P({i}, {j}) = {e}
        BY OnePair
    <2> HIDE DEF e, P
    <2>2. Lists(Append(<< >>, e), {} \union {e})
        BY ListsNothing, ListsMore
    <2>3. Append(<< >>, e) = <<e>> /\ {} \union {e} = {e}
        OBVIOUS
    <2>4. Lists(<<e>>, P({i}, {j}))
        BY <2>1, <2>2, <2>3
    <2> QED
        BY <2>4 DEF e
<1> QED
    BY <1>4, <1>9, <1>10, <1>11 DEF RestPairs

\* One step is right if the next one is.
FrontRight(v1, s1, v2, s2, a, i, j) ==
    /\ i <= Len(s1) + 1 /\ j <= Len(s2) + 1
    /\ i <= Len(s1) <=> j <= Len(s2)
    => a.ok /\ Lists(a.pairs, RestPairs(v1, s1, v2, s2, i, j))
\* A turn answers with the pairs that are left if the next one does.
LEMMA JoinStepRight ==
    ASSUME NEW v1, NEW s1, NEW v2, NEW s2, MergeKept(v1, s1, v2, s2), NEW behind, NEW f,
           NEW p \in JoinFronts(s1, s2),
           p[1] <= Len(s1) + 1 /\ p[2] <= Len(s2) + 1 =>
               \A e \in {<<p[1] + 1, p[2]>>, <<p[1], p[2] + 1>>, <<p[1] + 1, p[2] + 1>>} :
                   FrontRight(v1, s1, v2, s2, f[e], e[1], e[2])
    PROVE  FrontRight(v1, s1, v2, s2, JoinStep(v1, s1, v2, s2, behind, f, p), p[1], p[2])
<1> DEFINE i == p[1]
           j == p[2]
           n1 == Len(s1)
           n2 == Len(s2)
           r == JoinStep(v1, s1, v2, s2, behind, f, p)
           good(a, k, l) == FrontRight(v1, s1, v2, s2, a, k, l)
<1>1. i \in 1..(n1 + 2) /\ j \in 1..(n2 + 2) /\ n1 \in Nat /\ n2 \in Nat
    BY KeptMerge DEF JoinFronts
<1> SUFFICES ASSUME i <= n1 + 1, j <= n2 + 1, i <= n1 <=> j <= n2
             PROVE  r.ok /\ Lists(r.pairs, RestPairs(v1, s1, v2, s2, i, j))
    BY DEF FrontRight
<1>2. good(f[<<i + 1, j>>], i + 1, j) /\ good(f[<<i, j + 1>>], i, j + 1) /\ good(f[<<i + 1, j + 1>>], i + 1, j + 1)
    <2>1. \A e \in {<<i + 1, j>>, <<i, j + 1>>, <<i + 1, j + 1>>} : good(f[e], e[1], e[2])
        OBVIOUS
    <2> HIDE DEF good
    <2> QED
        BY <2>1
<1>3. CASE i > n1
    <2>1. i > n1 /\ j > n2
        BY <1>1, <1>3
    <2>2. r = Paired(<< >>)
        BY <1>1, <2>1 DEF JoinStep
    <2>3. i..n1 = {}
        BY <1>1, <2>1
    <2>4. RestPairs(v1, s1, v2, s2, i, j) = {}
        BY <2>3, NoPairs DEF RestPairs
    <2> QED
        BY <2>2, <2>4, ListsNothing DEF Paired
<1>4. CASE ~ (i > n1)
    <2>1. i \in 1..n1 /\ j \in 1..n2
        BY <1>1, <1>4
    <2>2. At(v1, i, behind) = v1[i] /\ At(v2, j, behind) = v2[j] /\ v1[i] \in Int /\ v2[j] \in Int
        <3>1. /\ v1 \in Seq(Int) /\ v2 \in Seq(Int) /\ Len(v1) = n1 /\ Len(v2) = n2
              /\ DOMAIN v1 = 1..n1 /\ DOMAIN v2 = 1..n2
            BY KeptMerge
        <3>2. v1[i] \in Int /\ v2[j] \in Int
            BY <2>1, <3>1, Ranged
        <3>3. i \in DOMAIN v1 /\ j \in DOMAIN v2
            BY <2>1, <3>1
        <3> HIDE DEF i, j
        <3> QED
            BY <3>2, <3>3 DEF At
    <2>3. r = IF v1[i] < v2[j] THEN f[<<i + 1, j>>]
              ELSE IF v1[i] > v2[j] THEN f[<<i, j + 1>>]
              ELSE IF f[<<i + 1, j + 1>>].ok THEN Paired(<< <<s1[i], s2[j]>> >> \o f[<<i + 1, j + 1>>].pairs) ELSE Lost
        <3>1. ~ (i > n1 + 1) /\ ~ (j > n2 + 1) /\ ~ (i > n1) /\ ~ (j > n2)
            BY <1>1, <2>1
        <3> QED
            BY <2>2, <3>1 DEF JoinStep
    <2> HIDE DEF r
    <2>4. CASE v1[i] < v2[j]
        <3>1. i + 1 <= n1 /\ RestPairs(v1, s1, v2, s2, i, j) = RestPairs(v1, s1, v2, s2, i + 1, j)
            BY <2>1, <2>4, LowerLeft
        <3>2. i + 1 <= n1 + 1 /\ j <= n2 + 1 /\ (i + 1 <= n1 <=> j <= n2)
            BY <1>1, <2>1, <3>1
        <3>3. f[<<i + 1, j>>].ok /\ Lists(f[<<i + 1, j>>].pairs, RestPairs(v1, s1, v2, s2, i + 1, j))
            BY <1>2, <3>2 DEF FrontRight
        <3> QED
            BY <2>3, <2>4, <3>1, <3>3
    <2>5. CASE v1[i] > v2[j]
        <3>1. j + 1 <= n2 /\ RestPairs(v1, s1, v2, s2, i, j) = RestPairs(v1, s1, v2, s2, i, j + 1)
            BY <2>1, <2>5, LowerRight
        <3>2. i <= n1 + 1 /\ j + 1 <= n2 + 1 /\ (i <= n1 <=> j + 1 <= n2)
            BY <1>1, <2>1, <3>1
        <3>3. f[<<i, j + 1>>].ok /\ Lists(f[<<i, j + 1>>].pairs, RestPairs(v1, s1, v2, s2, i, j + 1))
            BY <1>2, <3>2 DEF FrontRight
        <3>4. ~ (v1[i] < v2[j])
            BY <2>2, <2>5
        <3> QED
            BY <2>3, <2>5, <3>1, <3>3, <3>4
    <2>6. CASE v1[i] = v2[j]
        <3> DEFINE one == << <<s1[i], s2[j]>> >>
                   a == f[<<i + 1, j + 1>>]
                   A == PairsIn(v1, s1, v2, s2, {i}, {j})
                   B == RestPairs(v1, s1, v2, s2, i + 1, j + 1)
        <3>1. /\ i + 1 <= n1 <=> j + 1 <= n2
              /\ Lists(one, A) /\ A \intersect B = {}
              /\ RestPairs(v1, s1, v2, s2, i, j) = A \union B
            <4> HIDE DEF i, j
            <4>1. /\ i + 1 <= Len(s1) <=> j + 1 <= Len(s2)
                  /\ Lists(<< <<s1[i], s2[j]>> >>, PairsIn(v1, s1, v2, s2, {i}, {j}))
                  /\ RestPairs(v1, s1, v2, s2, i, j)
                         = PairsIn(v1, s1, v2, s2, {i}, {j}) \union RestPairs(v1, s1, v2, s2, i + 1, j + 1)
                  /\ PairsIn(v1, s1, v2, s2, {i}, {j}) \intersect RestPairs(v1, s1, v2, s2, i + 1, j + 1) = {}
                BY <2>1, <2>6, SameFront
            <4> QED
                BY <4>1
        <3>2. i + 1 <= n1 + 1 /\ j + 1 <= n2 + 1
            BY <1>1, <2>1, SMTT(60)
        <3>3. a.ok /\ Lists(a.pairs, B)
            BY <1>2, <3>1, <3>2 DEF FrontRight
        <3>4. r = Paired(one \o a.pairs)
            BY <2>2, <2>3, <2>6, <3>3
        <3> HIDE DEF one, a, A, B
        <3>5. Lists(one \o a.pairs, A \union B)
            BY <3>1, <3>3, ListsBoth
        <3> QED
            BY <3>1, <3>4, <3>5 DEF Paired
    <2> QED
        BY <2>2, <2>4, <2>5, <2>6
<1> QED
    BY <1>3, <1>4

\* db_sort_join_i answers exactly under its conditions.
LEMMA MergeRight ==
    ASSUME NEW v1, NEW s1 \in Seq(Int), NEW v2, NEW s2 \in Seq(Int), NEW behind
    PROVE  LET a == SortJoinInt(v1, s1, v2, s2, behind)
           IN  /\ IsAnswer(a)
               /\ Inputs(v1, s1, v2, s2) /\ Len(s2) <= Len(s1) /\ JoinKept("sort-merge", v1, v2)
                      => Joins(a, v1, s1, v2, s2)
<1> DEFINE D == JoinFronts(s1, s2)
           rank == JoinRank(s1, s2)
           N == Len(s1) + Len(s2) + 2
           held == MergeKept(v1, s1, v2, s2)
           near(p) == {<<p[1] + 1, p[2]>>, <<p[1], p[2] + 1>>, <<p[1] + 1, p[2] + 1>>}
           answer == SortJoinInt(v1, s1, v2, s2, behind)
<1>1. Len(s1) \in Nat /\ Len(s2) \in Nat /\ N \in Nat
    BY LenProperties
<1>2. /\ Ranks(rank, D, N)
      /\ \A p \in D : p[1] <= Len(s1) + 1 /\ p[2] <= Len(s2) + 1 =>
                          \A e \in near(p) : e \in D /\ rank[e] < rank[p]
    BY <1>1, JoinFrontsMove
<1>3. PICK f : MergeJoins(v1, s1, v2, s2, behind, f)
    BY MergeJoinsSome
<1>4. answer = (CHOOSE g : MergeJoins(v1, s1, v2, s2, behind, g))[<<1, 1>>]
    BY DEF SortJoinInt, MergeJoins, JoinStep, JoinFronts
<1>5. PICK g : MergeJoins(v1, s1, v2, s2, behind, g) /\ answer = g[<<1, 1>>]
    BY <1>3, <1>4
<1> DEFINE S == {p \in D : g[p] \in Answers /\ (held => FrontRight(v1, s1, v2, s2, g[p], p[1], p[2]))}
<1>6. \A p \in D : g[p] = JoinStep(v1, s1, v2, s2, behind, g, p)
    BY <1>5 DEF MergeJoins
<1>7. ASSUME NEW p \in D, \A e \in D : rank[e] < rank[p] => e \in S PROVE p \in S
    <2>1. p[1] <= Len(s1) + 1 /\ p[2] <= Len(s2) + 1 => \A e \in near(p) : e \in S
        BY <1>2, <1>7
    <2>2. p[1] <= Len(s1) + 1 /\ p[2] <= Len(s2) + 1 => \A e \in near(p) : g[e] \in Answers
        BY <2>1
    <2>3. held => (p[1] <= Len(s1) + 1 /\ p[2] <= Len(s2) + 1 =>
                       \A e \in near(p) : FrontRight(v1, s1, v2, s2, g[e], e[1], e[2]))
        BY <2>1
    <2>4. g[p] \in Answers
        <3>1. p \in JoinFronts(s1, s2)
            OBVIOUS
        <3>2. JoinStep(v1, s1, v2, s2, behind, g, p) \in Answers
            BY <2>2, <3>1, JoinStepType
        <3> QED
            BY <3>2, <1>6
    <2>5. ASSUME held PROVE FrontRight(v1, s1, v2, s2, g[p], p[1], p[2])
        <3>1. FrontRight(v1, s1, v2, s2, JoinStep(v1, s1, v2, s2, behind, g, p), p[1], p[2])
            BY <2>3, <2>5, JoinStepRight
        <3> QED
            BY <3>1, <1>6
    <2> QED
        BY <2>4, <2>5
<1>8. D \subseteq S
    <2>1. Inherited(S, D, rank)
        <3> HIDE DEF S, D, rank
        <3> QED
            BY <1>7 DEF Inherited
    <2> HIDE DEF S, D, rank, N
    <2> QED
        BY <2>1, <1>1, <1>2, Downward
<1>9. <<1, 1>> \in D
    BY <1>1 DEF JoinFronts
<1>10. answer \in Answers /\ (held => FrontRight(v1, s1, v2, s2, answer, 1, 1))
    BY <1>5, <1>8, <1>9
<1>11. IsAnswer(answer)
    BY <1>10 DEF Answers, IsAnswer
<1>12. ASSUME Inputs(v1, s1, v2, s2) /\ Len(s2) <= Len(s1) /\ JoinKept("sort-merge", v1, v2)
       PROVE  Joins(answer, v1, s1, v2, s2)
    <2>1. Len(v1) = Len(s1) /\ Len(v2) = Len(s2)
        BY <1>12 DEF Inputs
    <2>2. held
        <3>1. Ascending(v1) /\ Ascending(v2) /\ (v1 # << >> => v2 # << >> /\ v1[Len(v1)] = v2[Len(v2)])
            BY <1>12 DEF JoinKept
        <3>2. Len(s1) # 0 => v1 # << >>
            BY <2>1, EmptySeq
        <3>3. v2 # << >> => Len(s2) # 0
            BY <2>1, <1>12, EmptySeq DEF Inputs
        <3> QED
            BY <3>1, <3>2, <3>3, <2>1, <1>12 DEF MergeKept
    <2>3. Len(s1) # 0 => Len(s2) # 0
        BY <2>2 DEF MergeKept
    <2>4. 1 <= Len(s1) + 1 /\ 1 <= Len(s2) + 1 /\ (1 <= Len(s1) <=> 1 <= Len(s2))
        BY <1>1, <1>12, <2>3
    <2>5. answer.ok /\ Lists(answer.pairs, RestPairs(v1, s1, v2, s2, 1, 1))
        BY <1>10, <2>2, <2>4 DEF FrontRight
    <2>6. RestPairs(v1, s1, v2, s2, 1, 1) = Wanted(v1, s1, v2, s2)
        BY <2>1 DEF RestPairs, Wanted
    <2> QED
        BY <2>5, <2>6 DEF Joins
<1> QED
    BY <1>11, <1>12

-------------------------------------------------------------------------------
(* The partitions *)

\* An element or what is behind the sequence: an integer.
LEMMA AtInt ==
    ASSUME NEW v \in Seq(Int), NEW i, NEW behind \in Int
    PROVE  At(v, i, behind) \in Int
BY Ranged DEF At

\* The partition of a key.
Slot(key) == Abs(key) % Partitions
\* The rows of a slot among the first i.
PartitionStep(v, s, slot, behind, f, i) ==
    IF i = 0 THEN << >>
    ELSE IF Slot(At(v, i, behind)) = slot THEN Append(f[i - 1], <<At(v, i, behind), s[i]>>)
    ELSE f[i - 1]
\* f is the recursive function of Partition.
Parted(v, s, slot, behind, f) == f = [i \in 0..Len(s) |-> PartitionStep(v, s, slot, behind, f, i)]
\* The rows of a slot among the first n.
SlotRows(v, s, slot, n) == {<<v[i], s[i]>> : i \in {k \in 1..n : Slot(v[k]) = slot}}

\* Every key has one of the slots.
LEMMA SlotInside == \A key \in Int : Slot(key) \in 0..(Partitions - 1)
<1>1. \A n \in Nat, c \in Nat \ {0} : n % c \in 0..(c - 1)
    OBVIOUS
<1>2. \A key \in Int : Abs(key) \in Nat
    BY DEF Abs
<1> QED
    BY <1>1, <1>2, PartitionsAssumption DEF Slot

\* Its recursive function exists.
LEMMA PartedSome ==
    ASSUME NEW v \in Seq(Int), NEW s \in Seq(Int), NEW slot, NEW behind \in Int
    PROVE  \E f \in [0..Len(s) -> Seq(Pair)] : Parted(v, s, slot, behind, f)
<1> DEFINE n == Len(s)
           X == Seq(Pair)
           N == [q \in (1..n) \X X |-> IF Slot(At(v, q[1], behind)) = slot
                                       THEN Append(q[2], <<At(v, q[1], behind), s[q[1]]>>) ELSE q[2]]
<1>0. n \in Nat /\ \A j \in 1..n : s[j] \in Int /\ At(v, j, behind) \in Int
    BY Ranged, AtInt
<1>1. Steps(N, n, X)
    <2> SUFFICES ASSUME NEW j \in 1..n, NEW g \in X
                 PROVE  (IF Slot(At(v, j, behind)) = slot THEN Append(g, <<At(v, j, behind), s[j]>>) ELSE g) \in X
        BY DEF Steps
    <2>1. <<At(v, j, behind), s[j]>> \in Pair
        BY <1>0 DEF Pair
    <2>2. Append(g, <<At(v, j, behind), s[j]>>) \in X
        BY <2>1, AppendProperties
    <2> QED
        BY <2>2
<1>2. ASSUME NEW j \in 1..n, NEW g \in X
      PROVE  N[<<j, g>>] = IF Slot(At(v, j, behind)) = slot THEN Append(g, <<At(v, j, behind), s[j]>>) ELSE g
    OBVIOUS
<1>3. << >> \in X
    BY EmptySeq
<1> HIDE DEF N, X, n
<1>4. PICK f : Iterates(f, N, n, << >>, X)
    BY <1>0, <1>1, <1>3, Iteration
<1>5. f \in [0..n -> X]
    BY <1>4 DEF Iterates
<1>6. f = [i \in 0..n |-> IF i = 0 THEN << >> ELSE N[<<i, f[i - 1]>>]]
    BY <1>0, <1>4, Unfolds
<1>7. ASSUME NEW i \in 0..n
      PROVE  (IF i = 0 THEN << >> ELSE N[<<i, f[i - 1]>>]) = PartitionStep(v, s, slot, behind, f, i)
    <2>1. i # 0 => i \in 1..n /\ i - 1 \in 0..n
        BY <1>0
    <2>2. i # 0 => f[i - 1] \in X
        BY <2>1, <1>5
    <2>3. i # 0 => N[<<i, f[i - 1]>>]
                   = IF Slot(At(v, i, behind)) = slot THEN Append(f[i - 1], <<At(v, i, behind), s[i]>>) ELSE f[i - 1]
        BY <2>1, <2>2, <1>2, Zenon
    <2> QED
        BY <2>3, Zenon DEF PartitionStep
<1>8. Parted(v, s, slot, behind, f)
    BY <1>6, <1>7, Zenon DEF Parted, n
<1> QED
    BY <1>5, <1>8 DEF n, X

\* A partition (db_grace_join_i) lists the rows of its slot.
LEMMA PartitionRight ==
    ASSUME NEW v \in Seq(Int), NEW s \in Seq(Int), NEW slot, NEW behind \in Int
    PROVE  /\ Partition(v, s, slot, behind) \in Seq(Pair)
           /\ Len(v) = Len(s) /\ Distinct(s)
                  => Lists(Partition(v, s, slot, behind), SlotRows(v, s, slot, Len(s)))
<1> DEFINE n == Len(s)
           part == Partition(v, s, slot, behind)
           held == Len(v) = Len(s) /\ Distinct(s)
<1>0. n \in Nat /\ \A i \in 1..n : s[i] \in Int /\ At(v, i, behind) \in Int
    BY Ranged, AtInt
<1>1. part = (CHOOSE f : Parted(v, s, slot, behind, f))[n]
    BY DEF Partition, Parted, PartitionStep, Slot
<1>2. PICK f : Parted(v, s, slot, behind, f) /\ part = f[n]
    BY <1>1, PartedSome
<1> HIDE DEF n, part, held
<1>3. ASSUME NEW i \in 0..n PROVE f[i] = PartitionStep(v, s, slot, behind, f, i)
    BY <1>2, Zenon DEF Parted, n
<1> DEFINE Good(i) == f[i] \in Seq(Pair) /\ (held => Lists(f[i], SlotRows(v, s, slot, i)))
           S == {i \in 0..n : Good(i)}
<1>4. 0 \in S
    <2>1. 0 \in 0..n
        BY <1>0
    <2>2. f[0] = PartitionStep(v, s, slot, behind, f, 0)
        BY <2>1, <1>3
    <2>3. f[0] = << >> /\ SlotRows(v, s, slot, 0) = {}
        BY <2>2 DEF PartitionStep, SlotRows
    <2>4. Good(0)
        BY <2>3, ListsNothing, EmptySeq
    <2> QED
        BY <2>1, <2>4
<1>5. ASSUME NEW i \in 1..n, i - 1 \in S PROVE i \in S
    <2>0. i \in 0..n /\ i # 0 /\ Good(i - 1)
        BY <1>0, <1>5
    <2> DEFINE e == <<At(v, i, behind), s[i]>>
    <2>1. f[i] = IF Slot(At(v, i, behind)) = slot THEN Append(f[i - 1], e) ELSE f[i - 1]
        BY <2>0, <1>3 DEF PartitionStep
    <2>2. f[i] \in Seq(Pair)
        <3>1. e \in Pair
            BY <1>0 DEF Pair
        <3> HIDE DEF e
        <3> QED
            BY <3>1, <2>0, <2>1, AppendProperties
    <2>3. ASSUME held PROVE Lists(f[i], SlotRows(v, s, slot, i))
        <3>1. At(v, i, behind) = v[i] /\ e = <<v[i], s[i]>>
            BY <2>3, Ranged DEF At, held, n
        <3>2. \A k : k \in 1..i <=> k \in 1..(i - 1) \/ k = i
            BY <1>0, UpTo
        <3>3. Lists(f[i - 1], SlotRows(v, s, slot, i - 1))
            BY <2>0, <2>3
        <3>4. CASE Slot(v[i]) = slot
            <4>1. SlotRows(v, s, slot, i) = SlotRows(v, s, slot, i - 1) \union {<<v[i], s[i]>>}
                BY <3>2, <3>4 DEF SlotRows
            <4>2. e \notin SlotRows(v, s, slot, i - 1)
                <5> SUFFICES ASSUME e \in SlotRows(v, s, slot, i - 1) PROVE FALSE
                    OBVIOUS
                <5>1. PICK k \in 1..(i - 1) : e = <<v[k], s[k]>>
                    BY DEF SlotRows
                <5>2. k \in 1..n /\ k # i /\ s[k] = s[i]
                    BY <1>0, <5>1
                <5> QED
                    BY <5>2, <2>3 DEF held, Distinct, n
            <4>3. Lists(Append(f[i - 1], e), SlotRows(v, s, slot, i - 1) \union {e})
                BY <3>3, <4>2, ListsMore
            <4> QED
                BY <4>1, <4>3, <2>1, <3>1, <3>4
        <3>5. CASE Slot(v[i]) # slot
            <4>1. SlotRows(v, s, slot, i) = SlotRows(v, s, slot, i - 1)
                BY <3>2, <3>5 DEF SlotRows
            <4> QED
                BY <4>1, <3>3, <2>1, <3>1, <3>5
        <3> QED
            BY <3>4, <3>5
    <2>4. Good(i)
        BY <2>2, <2>3
    <2> QED
        BY <2>0, <2>4
<1>6. 0..n \subseteq S
    <2> HIDE DEF S
    <2> QED BY <1>0, <1>4, <1>5, Upward
<1>7. Good(n)
    BY <1>0, <1>6
<1> QED
    BY <1>7, <1>2 DEF n, part, held

-------------------------------------------------------------------------------
(* A probe of a partition *)

\* What the probes of the partition join carry.
Gracing == [ok : BOOLEAN, pairs : Seq(Pair), values : Seq(Int), room : Nat]

\* The keys and positions of a partition.
LEMMA PairParts ==
    ASSUME NEW part \in Seq(Pair)
    PROVE  /\ Len(part) \in Nat /\ DOMAIN part = 1..Len(part)
           /\ \A i \in 1..Len(part) : part[i] \in Pair /\ part[i][1] \in Int /\ part[i][2] \in Int
           /\ Keys(part) \in Seq(Int) /\ Poss(part) \in Seq(Int)
           /\ Len(Keys(part)) = Len(part) /\ Len(Poss(part)) = Len(part)
<1>1. Len(part) \in Nat /\ DOMAIN part = 1..Len(part) /\ \A i \in 1..Len(part) : part[i] \in Pair
    BY LenProperties, ElementOfSeq
<1>2. \A i \in 1..Len(part) : part[i][1] \in Int /\ part[i][2] \in Int
    BY <1>1 DEF Pair
<1> DEFINE K == [i \in 1..Len(part) |-> part[i][1]]
           P == [i \in 1..Len(part) |-> part[i][2]]
<1>3. Keys(part) = K /\ Poss(part) = P
    BY <1>1 DEF Keys, Poss
<1>4. K \in Seq(Int) /\ P \in Seq(Int)
    BY <1>1, <1>2
<1>5. Len(K) = Len(part) /\ Len(P) = Len(part)
    BY <1>1
<1> QED
    BY <1>1, <1>2, <1>3, <1>4, <1>5

\* A pair of a partition join is one of numbers.
LEMMA GracePairType ==
    ASSUME NEW bval \in Int, NEW cur \in Int, NEW value \in Int
    PROVE  GracePair(bval, cur, value) \in Pair
<1> DEFINE no == -bval - 1
<1>1. no \in Int
    OBVIOUS
<1>2. \A a, b \in Int : a * b \in Int
    OBVIOUS
<1>3. bval * cur \in Int /\ value * no \in Int /\ bval * value \in Int /\ cur * no \in Int
    BY <1>1, <1>2
<1>4. bval * cur + value * no \in Int /\ bval * value + cur * no \in Int
    BY <1>3
<1>5. GracePair(bval, cur, value) = <<bval * cur + value * no, bval * value + cur * no>>
    BY DEF GracePair
<1> QED
    BY <1>4, <1>5 DEF Pair

\* What a probe makes of what it found.
ProbeValues(a, found, behind) ==
    [k \in 1..(IF Len(found) > Len(a.values) THEN Len(found) ELSE Len(a.values)) |->
        IF Len(found) <= Len(a.values) /\ k <= Len(found) THEN found[k] ELSE At(a.values, k, behind)]
\* The pairs that a probe adds.
ProbePairs(bval, cur, found, values) == [k \in 1..Len(found) |-> GracePair(bval, cur, values[k])]
\* When a probe is the last one.
ProbeStops(a, part, key, found) ==
    ~ a.ok \/ ReadsBefore(key, SlotsFor(Len(part))) \/ Len(found) = 0 \/ Len(a.pairs) + Len(found) > a.room

\* A probe stops the join or adds its pairs.
LEMMA ProbeIs ==
    ASSUME NEW a, NEW bval, NEW part, NEW key, NEW cur, NEW behind
    PROVE  LET found == Matches(Keys(part), Poss(part), key, behind)
               values == ProbeValues(a, found, behind)
           IN  GraceProbe(a, bval, part, key, cur, behind)
               = IF ProbeStops(a, part, key, found) THEN [a EXCEPT !.ok = FALSE]
                 ELSE [a EXCEPT !.values = values, !.pairs = @ \o ProbePairs(bval, cur, found, values)]
BY DEF GraceProbe, ProbeValues, ProbePairs, ProbeStops

\* One more probe leaves pairs, room, values and a verdict.
LEMMA GraceProbeType ==
    ASSUME NEW a \in Gracing, NEW bval \in Int, NEW part \in Seq(Pair), NEW key, NEW cur \in Int, NEW behind \in Int
    PROVE  GraceProbe(a, bval, part, key, cur, behind) \in Gracing
<1> DEFINE found == Matches(Keys(part), Poss(part), key, behind)
           values == ProbeValues(a, found, behind)
           pairs == ProbePairs(bval, cur, found, values)
<1>1. found \in Seq(Int)
    BY PairParts, MatchesRight
<1>2. a.values \in Seq(Int) /\ a.pairs \in Seq(Pair)
    BY DEF Gracing
<1> HIDE DEF found
<1>3. Len(found) \in Nat /\ Len(a.values) \in Nat /\ \A k \in 1..Len(found) : found[k] \in Int
    BY <1>1, <1>2, Ranged
<1> DEFINE m == IF Len(found) > Len(a.values) THEN Len(found) ELSE Len(a.values)
<1>4. m \in Nat /\ Len(found) <= m
    BY <1>3
<1>5. \A k \in 1..m : (IF Len(found) <= Len(a.values) /\ k <= Len(found) THEN found[k] ELSE At(a.values, k, behind)) \in Int
    <2> SUFFICES ASSUME NEW k \in 1..m
                 PROVE  (IF Len(found) <= Len(a.values) /\ k <= Len(found) THEN found[k] ELSE At(a.values, k, behind)) \in Int
        OBVIOUS
    <2>1. At(a.values, k, behind) \in Int
        BY <1>2, AtInt
    <2>2. k <= Len(found) => found[k] \in Int
        BY <1>3, <1>4
    <2> QED
        BY <2>1, <2>2
<1>6. values \in Seq(Int) /\ \A k \in 1..Len(found) : values[k] \in Int
    <2>1. values = [k \in 1..m |-> IF Len(found) <= Len(a.values) /\ k <= Len(found)
                                   THEN found[k] ELSE At(a.values, k, behind)]
        BY DEF ProbeValues
    <2> HIDE DEF m, values
    <2>2. values \in Seq(Int)
        BY <2>1, <1>4, <1>5
    <2>3. \A k \in 1..Len(found) : k \in 1..m
        BY <1>3, <1>4
    <2> QED
        BY <2>1, <2>2, <2>3, <1>5
<1> HIDE DEF values
<1>7. pairs \in Seq(Pair)
    <2>1. \A k \in 1..Len(found) : GracePair(bval, cur, values[k]) \in Pair
        BY <1>6, GracePairType
    <2>2. pairs = [k \in 1..Len(found) |-> GracePair(bval, cur, values[k])]
        BY DEF ProbePairs
    <2> HIDE DEF pairs
    <2> QED
        BY <2>1, <2>2, <1>3
<1> HIDE DEF pairs
<1>8. a.pairs \o pairs \in Seq(Pair)
    BY <1>2, <1>7, ConcatProperties
<1>9. GraceProbe(a, bval, part, key, cur, behind)
          = IF ProbeStops(a, part, key, found) THEN [a EXCEPT !.ok = FALSE]
            ELSE [a EXCEPT !.values = values, !.pairs = a.pairs \o pairs]
    BY ProbeIs DEF found, values, pairs
<1>10. /\ [a EXCEPT !.ok = FALSE] \in Gracing
       /\ [a EXCEPT !.values = values, !.pairs = a.pairs \o pairs] \in Gracing
    BY <1>6, <1>8 DEF Gracing
<1> QED
    BY <1>9, <1>10

-------------------------------------------------------------------------------
(* The probes of a partition *)

\* The probes up to the i-th.
ProbeStep(start, bval, small, big, behind, f, i) ==
    IF i = 0 THEN start
    ELSE GraceProbe(f[i - 1], bval, small, big[i][1], big[i][2], behind)
\* f is the recursive function of a partition's probes.
Probed(start, bval, small, big, behind, f) ==
    f = [i \in 0..Len(big) |-> ProbeStep(start, bval, small, big, behind, f, i)]
\* The last of the probes.
Probes(start, bval, small, big, behind) ==
    (CHOOSE f : Probed(start, bval, small, big, behind, f))[Len(big)]

\* Their recursive function exists.
LEMMA ProbedSome ==
    ASSUME NEW start \in Gracing, NEW bval \in Int, NEW small \in Seq(Pair), NEW big \in Seq(Pair),
           NEW behind \in Int
    PROVE  \E f \in [0..Len(big) -> Gracing] : Probed(start, bval, small, big, behind, f)
<1> DEFINE n == Len(big)
           X == Gracing
           next(g, j) == GraceProbe(g, bval, small, big[j][1], big[j][2], behind)
           N == [q \in (1..n) \X X |-> next(q[2], q[1])]
<1>0. n \in Nat /\ \A j \in 1..n : big[j][1] \in Int /\ big[j][2] \in Int
    BY PairParts
<1>1. Steps(N, n, X)
    <2>1. \A j \in 1..n, g \in X : next(g, j) \in X
        BY <1>0, GraceProbeType
    <2> HIDE DEF next
    <2> QED
        BY <2>1 DEF Steps
<1>2. ASSUME NEW j \in 1..n, NEW g \in X PROVE N[<<j, g>>] = next(g, j)
    OBVIOUS
<1> HIDE DEF N, n
<1>4. PICK f : Iterates(f, N, n, start, X)
    BY <1>0, <1>1, Iteration
<1>5. f \in [0..n -> X]
    BY <1>4 DEF Iterates
<1>6. f = [i \in 0..n |-> IF i = 0 THEN start ELSE N[<<i, f[i - 1]>>]]
    BY <1>0, <1>4, Unfolds
<1>7. ASSUME NEW i \in 0..n
      PROVE  (IF i = 0 THEN start ELSE N[<<i, f[i - 1]>>]) = ProbeStep(start, bval, small, big, behind, f, i)
    <2>1. i # 0 => i \in 1..n /\ i - 1 \in 0..n
        BY <1>0
    <2>2. i # 0 => f[i - 1] \in X
        BY <2>1, <1>5
    <2>3. i # 0 => N[<<i, f[i - 1]>>] = next(f[i - 1], i)
        BY <2>1, <2>2, <1>2, Zenon
    <2> QED
        BY <2>3, Zenon DEF ProbeStep
<1>8. Probed(start, bval, small, big, behind, f)
    BY <1>6, <1>7, Zenon DEF Probed, n
<1> QED
    BY <1>5, <1>8 DEF n

\* What the probes leave; of a single one, what that one leaves.
LEMMA ProbesAre ==
    ASSUME NEW start \in Gracing, NEW bval \in Int, NEW small \in Seq(Pair), NEW big \in Seq(Pair),
           NEW behind \in Int
    PROVE  /\ Probes(start, bval, small, big, behind) \in Gracing
           /\ Len(big) = 1 => Probes(start, bval, small, big, behind)
                                  = GraceProbe(start, bval, small, big[1][1], big[1][2], behind)
<1> DEFINE n == Len(big)
           r == Probes(start, bval, small, big, behind)
<1>0. n \in Nat /\ \A j \in 1..n : big[j][1] \in Int /\ big[j][2] \in Int
    BY PairParts
<1>1. PICK f : Probed(start, bval, small, big, behind, f) /\ r = f[n]
    BY ProbedSome DEF Probes
<1> HIDE DEF n, r
<1>2. ASSUME NEW i \in 0..n PROVE f[i] = ProbeStep(start, bval, small, big, behind, f, i)
    BY <1>1, Zenon DEF Probed, n
<1> DEFINE S == {i \in 0..n : f[i] \in Gracing}
<1>3. 0 \in 0..n /\ f[0] = start
    <2>1. 0 \in 0..n
        BY <1>0
    <2> QED
        BY <2>1, <1>2 DEF ProbeStep
<1>4. ASSUME NEW i \in 1..n
      PROVE  i \in 0..n /\ f[i] = GraceProbe(f[i - 1], bval, small, big[i][1], big[i][2], behind)
    <2>1. i \in 0..n /\ i # 0
        BY <1>0
    <2> QED
        BY <2>1, <1>2 DEF ProbeStep
<1>5. ASSUME NEW i \in 1..n, i - 1 \in S PROVE i \in S
    <2>1. f[i - 1] \in Gracing /\ big[i][1] \in Int /\ big[i][2] \in Int
        BY <1>0, <1>5
    <2>2. GraceProbe(f[i - 1], bval, small, big[i][1], big[i][2], behind) \in Gracing
        BY <2>1, GraceProbeType
    <2> QED
        BY <2>2, <1>4
<1>6. 0..n \subseteq S
    <2>1. 0 \in S
        BY <1>3
    <2> HIDE DEF S
    <2> QED BY <1>0, <1>5, <2>1, Upward
<1>7. r \in Gracing
    BY <1>0, <1>1, <1>6
<1>8. ASSUME n = 1 PROVE r = GraceProbe(start, bval, small, big[1][1], big[1][2], behind)
    <2>1. 1 \in 1..n /\ 1 - 1 = 0
        BY <1>8
    <2>2. f[1] = GraceProbe(f[1 - 1], bval, small, big[1][1], big[1][2], behind)
        BY <2>1, <1>4
    <2> QED
        BY <2>1, <2>2, <1>1, <1>3, <1>8
<1> QED
    BY <1>7, <1>8 DEF r, n

\* A slot with an empty side is skipped, another one is probed.
LEMMA GracePartitionIs ==
    ASSUME NEW a, NEW part1, NEW part2, NEW behind
    PROVE  LET bval == IF Len(part1) > Len(part2) THEN 1 ELSE 0
               small == IF bval = 1 THEN part2 ELSE part1
               big == IF bval = 1 THEN part1 ELSE part2
               start == IF Len(a.pairs) + Len(part1) > a.room THEN [a EXCEPT !.room = 2 * @] ELSE a
           IN  GracePartition(a, part1, part2, behind)
               = IF part1 = << >> \/ part2 = << >> THEN a ELSE Probes(start, bval, small, big, behind)
BY DEF GracePartition, Probes, Probed, ProbeStep

\* One more slot leaves pairs, room, values and a verdict.
LEMMA GracePartitionType ==
    ASSUME NEW a \in Gracing, NEW part1 \in Seq(Pair), NEW part2 \in Seq(Pair), NEW behind \in Int
    PROVE  GracePartition(a, part1, part2, behind) \in Gracing
<1> DEFINE bval == IF Len(part1) > Len(part2) THEN 1 ELSE 0
           small == IF bval = 1 THEN part2 ELSE part1
           big == IF bval = 1 THEN part1 ELSE part2
           start == IF Len(a.pairs) + Len(part1) > a.room THEN [a EXCEPT !.room = 2 * @] ELSE a
<1>1. start \in Gracing
    <2>1. a.room \in Nat
        BY DEF Gracing
    <2>2. 2 * a.room \in Nat
        BY <2>1
    <2>3. [a EXCEPT !.room = 2 * a.room] \in Gracing
        BY <2>2 DEF Gracing
    <2> QED
        BY <2>3
<1>2. bval \in Int /\ small \in Seq(Pair) /\ big \in Seq(Pair)
    OBVIOUS
<1>3. GracePartition(a, part1, part2, behind)
          = IF part1 = << >> \/ part2 = << >> THEN a ELSE Probes(start, bval, small, big, behind)
    BY GracePartitionIs
<1> HIDE DEF bval, small, big, start
<1>4. Probes(start, bval, small, big, behind) \in Gracing
    BY <1>1, <1>2, ProbesAre
<1> QED
    BY <1>3, <1>4

\* A sequence of one element is not empty.
LEMMA OneIsSome == \A s : Len(s) = 1 => s # << >>
<1>1. Len(<< >>) = 0
    BY EmptySeq
<1> QED
    BY <1>1

\* The one probe that the conditions leave: one row of each side, at 0.
LEMMA OneProbe ==
    ASSUME NEW a \in Gracing, a.ok, a.pairs = << >>, a.values = << 0 >>, a.room # 0,
           NEW part1 \in Seq(Pair), NEW part2 \in Seq(Pair), NEW x \in Int,
           Len(part1) = 1, part1[1] = <<x, 0>>, Len(part2) = 1, part2[1] = <<x, 0>>,
           NEW behind \in Int
    PROVE  LET b == GracePartition(a, part1, part2, behind)
           IN  b.ok /\ b.pairs = << <<0, 0>> >> /\ b.values = << 0 >> /\ b.room = a.room
<1> DEFINE b == GracePartition(a, part1, part2, behind)
           found == Matches(Keys(part1), Poss(part1), x, behind)
           values == ProbeValues(a, found, behind)
           pairs == ProbePairs(0, 0, found, values)
<1>1. part1 # << >> /\ part2 # << >>
    BY OneIsSome, Zenon
<1>2. Len(a.pairs) = 0 /\ a.room \in Nat
    BY EmptySeq DEF Gracing
<1>3. ~ (Len(a.pairs) + Len(part1) > a.room) /\ ~ (Len(part1) > Len(part2))
    BY <1>2
<1>4. b = Probes(a, 0, part1, part2, behind)
    <2> DEFINE bval == IF Len(part1) > Len(part2) THEN 1 ELSE 0
               small == IF bval = 1 THEN part2 ELSE part1
               big == IF bval = 1 THEN part1 ELSE part2
               start == IF Len(a.pairs) + Len(part1) > a.room THEN [a EXCEPT !.room = 2 * @] ELSE a
    <2>1. b = IF part1 = << >> \/ part2 = << >> THEN a ELSE Probes(start, bval, small, big, behind)
        BY GracePartitionIs
    <2>2. bval = 0 /\ small = part1 /\ big = part2 /\ start = a
        BY <1>3
    <2> HIDE DEF bval, small, big, start
    <2> QED
        BY <1>1, <2>1, <2>2
<1>5. b = GraceProbe(a, 0, part1, x, 0, behind)
    <2>1. Probes(a, 0, part1, part2, behind) = GraceProbe(a, 0, part1, part2[1][1], part2[1][2], behind)
        BY ProbesAre
    <2>2. part2[1][1] = x /\ part2[1][2] = 0
        OBVIOUS
    <2> QED
        BY <2>1, <2>2, <1>4
<1>6. Len(found) = 1 /\ found[1] = 0
    <2> DEFINE K == Keys(part1)
               P == Poss(part1)
    <2>1. K \in Seq(Int) /\ P \in Seq(Int) /\ Len(K) = 1 /\ Len(P) = 1 /\ DOMAIN part1 = 1..1
        BY PairParts
    <2>2. 1 \in DOMAIN part1
        BY <2>1
    <2>3. K[1] = x /\ P[1] = 0
        BY <2>2 DEF Keys, Poss
    <2>4. DOMAIN K = 1..Len(P) /\ Distinct(P)
        <3>1. DOMAIN K = 1..Len(P)
            BY <2>1, Ranged
        <3>2. \A i, j \in 1..1 : i = j
            OBVIOUS
        <3> QED
            BY <3>1, <3>2, <2>1 DEF Distinct
    <2> HIDE DEF K, P
    <2>5. Lists(Matches(K, P, x, behind), Holders(K, P, x, Len(P)))
        BY <2>1, <2>4, MatchesRight
    <2>6. Holders(K, P, x, 1) = {0}
        <3>1. {k \in 1..1 : K[k] = x} = {1}
            BY <2>3
        <3> QED
            BY <3>1, <2>3 DEF Holders
    <2>7. Lists(Matches(K, P, x, behind), {0})
        BY <2>1, <2>5, <2>6
    <2> QED
        BY <2>7, ListsFew DEF K, P
<1>7. ~ ReadsBefore(x, SlotsFor(Len(part1)))
    <2>1. SlotsFor(1) = 1
        <3> DEFINE Q(e) == 2 ^ e > 1 /\ \A d \in 0..(e - 1) : 2 ^ d <= 1
        <3>1. 2 ^ 0 = 1 /\ 2 ^ 1 = 2
            OBVIOUS
        <3>2. ~ Q(0)
            BY <3>1
        <3>3. Q(1)
            <4>1. \A d \in 0..(1 - 1) : d = 0
                OBVIOUS
            <4> QED
                BY <3>1, <4>1
        <3> HIDE DEF Q
        <3>4. \A e \in 0..1 : e = 0 \/ e = 1
            OBVIOUS
        <3>5. (CHOOSE e \in 0..1 : Q(e)) = 1
            BY <3>2, <3>3, <3>4
        <3>6. SlotsFor(1) = 2 ^ (CHOOSE e \in 0..1 : Q(e)) - 1
            BY DEF SlotsFor, Q
        <3> QED
            <4> DEFINE c == CHOOSE e \in 0..1 : Q(e)
            <4>1. c = 1
                BY <3>5
            <4>2. SlotsFor(1) = 2 ^ c - 1
                BY <3>6
            <4> HIDE DEF c
            <4>3. 2 ^ c = 2
                BY <3>1, <4>1
            <4> QED
                BY <4>2, <4>3
    <2>2. x < 0 => (- x) % 1 = 0
        <3>1. \A k \in Int : k % 1 = 0
            OBVIOUS
        <3>2. - x \in Int
            OBVIOUS
        <3> QED
            BY <3>1, <3>2
    <2> QED
        BY <2>1, <2>2 DEF ReadsBefore
<1> HIDE DEF found
<1>8. ~ ProbeStops(a, part1, x, found)
    BY <1>2, <1>6, <1>7 DEF ProbeStops
<1>9. values = << 0 >>
    <2>1. Len(a.values) = 1 /\ a.values[1] = 0
        OBVIOUS
    <2>2. values = [k \in 1..1 |-> IF 1 <= 1 /\ k <= 1 THEN found[k] ELSE At(a.values, k, behind)]
        BY <2>1, <1>6 DEF ProbeValues
    <2>3. \A k \in 1..1 : k = 1
        OBVIOUS
    <2>4. values = [k \in 1..1 |-> 0]
        BY <2>2, <2>3, <1>6
    <2> HIDE DEF values
    <2> QED
        BY <2>4
<1> HIDE DEF values
<1>10. pairs = << <<0, 0>> >>
    <2>1. GracePair(0, 0, 0) = <<0, 0>>
        BY DEF GracePair
    <2>2. \A k \in 1..1 : values[k] = 0
        BY <1>9
    <2>3. pairs = [k \in 1..1 |-> GracePair(0, 0, values[k])]
        BY <1>6 DEF ProbePairs
    <2>4. pairs = [k \in 1..1 |-> <<0, 0>>]
        BY <2>1, <2>2, <2>3
    <2> HIDE DEF pairs
    <2> QED
        BY <2>4
<1> HIDE DEF pairs
<1>11. GraceProbe(a, 0, part1, x, 0, behind) = [a EXCEPT !.values = values, !.pairs = @ \o pairs]
    BY <1>8, ProbeIs DEF found, values, pairs
<1>12. << >> \o << <<0, 0>> >> = << <<0, 0>> >>
    OBVIOUS
<1>13. b.ok /\ b.pairs = << >> \o pairs /\ b.values = values /\ b.room = a.room
    BY <1>5, <1>11 DEF Gracing
<1> QED
    BY <1>9, <1>10, <1>12, <1>13

-------------------------------------------------------------------------------
(* The slots of the partition join *)

\* Before the first slot.
GraceStart(s1) == [ok |-> TRUE, pairs |-> << >>, values |-> << 0 >>, room |-> Len(s1)]
\* The slots up to the k-th.
GraceStep(v1, s1, v2, s2, behind, f, k) ==
    IF k = 0 THEN GraceStart(s1)
    ELSE GracePartition(f[k - 1], Partition(v1, s1, k - 1, behind), Partition(v2, s2, k - 1, behind), behind)
\* f is the recursive function of GraceJoinInt.
Graced(v1, s1, v2, s2, behind, f) ==
    f = [k \in 0..Partitions |-> GraceStep(v1, s1, v2, s2, behind, f, k)]

\* Its recursive function exists.
LEMMA GracedSome ==
    ASSUME NEW v1 \in Seq(Int), NEW s1 \in Seq(Int), NEW v2 \in Seq(Int), NEW s2 \in Seq(Int), NEW behind \in Int
    PROVE  /\ \E f \in [0..Partitions -> Gracing] : Graced(v1, s1, v2, s2, behind, f)
           /\ GraceStart(s1) \in Gracing
<1> DEFINE n == Partitions
           X == Gracing
           next(g, k) == GracePartition(g, Partition(v1, s1, k - 1, behind), Partition(v2, s2, k - 1, behind), behind)
           N == [q \in (1..n) \X X |-> next(q[2], q[1])]
<1>0. n \in Nat
    BY PartitionsAssumption
<1>1. Steps(N, n, X)
    <2>1. \A k \in 1..n, g \in X : next(g, k) \in X
        BY PartitionRight, GracePartitionType
    <2> HIDE DEF next
    <2> QED
        BY <2>1 DEF Steps
<1>2. ASSUME NEW k \in 1..n, NEW g \in X PROVE N[<<k, g>>] = next(g, k)
    OBVIOUS
<1>3. GraceStart(s1) \in X
    BY EmptySeq, Ranged DEF GraceStart, Gracing
<1> HIDE DEF N, n
<1>4. PICK f : Iterates(f, N, n, GraceStart(s1), X)
    BY <1>0, <1>1, <1>3, Iteration
<1>5. f \in [0..n -> X]
    BY <1>4 DEF Iterates
<1>6. f = [i \in 0..n |-> IF i = 0 THEN GraceStart(s1) ELSE N[<<i, f[i - 1]>>]]
    BY <1>0, <1>4, Unfolds
<1>7. ASSUME NEW i \in 0..n
      PROVE  (IF i = 0 THEN GraceStart(s1) ELSE N[<<i, f[i - 1]>>]) = GraceStep(v1, s1, v2, s2, behind, f, i)
    <2>1. i # 0 => i \in 1..n /\ i - 1 \in 0..n
        BY <1>0
    <2>2. i # 0 => f[i - 1] \in X
        BY <2>1, <1>5
    <2>3. i # 0 => N[<<i, f[i - 1]>>] = next(f[i - 1], i)
        BY <2>1, <2>2, <1>2, Zenon
    <2> QED
        BY <2>3, Zenon DEF GraceStep
<1>8. Graced(v1, s1, v2, s2, behind, f)
    BY <1>6, <1>7, Zenon DEF Graced, n
<1> QED
    BY <1>3, <1>5, <1>8 DEF n

\* The rows of the first k slots.
InSlots(v, s, k) == {i \in 1..Len(s) : Slot(v[i]) < k}
\* The wanted pairs of the first k slots.
PairsBelow(v1, s1, v2, s2, k) == PairsIn(v1, s1, v2, s2, InSlots(v1, s1, k), 1..Len(s2))
\* What a partition join has after k slots, under its conditions.
GraceGood(v1, s1, v2, s2, a, k) ==
    /\ a.ok /\ a.values = << 0 >> /\ a.room = Len(s1)
    /\ Lists(a.pairs, PairsBelow(v1, s1, v2, s2, k))
\* What the partition join needs of its inputs.
GraceSafe(v1, s1, v2, s2) ==
    /\ Inputs(v1, s1, v2, s2)
    /\ \A i \in 1..Len(s1), j \in 1..Len(s2) :
           Slot(v1[i]) = Slot(v2[j]) => v1[i] = v2[j] /\ s1[i] = 0 /\ s2[j] = 0

\* A slot with rows of both sides has one of each.
LEMMA SlotOfTwo ==
    ASSUME NEW v1, NEW s1, NEW v2, NEW s2, GraceSafe(v1, s1, v2, s2),
           NEW i \in 1..Len(s1), NEW j \in 1..Len(s2), NEW slot, Slot(v1[i]) = slot, Slot(v2[j]) = slot
    PROVE  /\ v1[i] = v2[j] /\ v1[i] \in Int /\ s1[i] = 0 /\ s2[j] = 0
           /\ SlotRows(v1, s1, slot, Len(s1)) = {<<v1[i], 0>>}
           /\ SlotRows(v2, s2, slot, Len(s2)) = {<<v1[i], 0>>}
           /\ \A h \in 1..Len(s1), k \in 1..Len(s2) : v1[h] = v2[k] => h = i /\ k = j
<1>0. /\ v1 \in Seq(Int) /\ Len(v1) = Len(s1)
      /\ \A h, k \in 1..Len(s1) : s1[h] = s1[k] => h = k
      /\ \A h, k \in 1..Len(s2) : s2[h] = s2[k] => h = k
    BY DEF GraceSafe, Inputs, Distinct
<1>1. v1[i] = v2[j] /\ s1[i] = 0 /\ s2[j] = 0
    BY DEF GraceSafe
<1>2. v1[i] \in Int
    BY <1>0, Ranged
<1>3. ASSUME NEW h \in 1..Len(s1), Slot(v1[h]) = slot PROVE h = i
    <2>1. s1[h] = 0
        BY <1>3 DEF GraceSafe
    <2> QED
        BY <2>1, <1>0, <1>1
<1>4. ASSUME NEW k \in 1..Len(s2), Slot(v2[k]) = slot PROVE k = j
    <2>1. s2[k] = 0
        BY <1>4 DEF GraceSafe
    <2> QED
        BY <2>1, <1>0, <1>1
<1>5. {h \in 1..Len(s1) : Slot(v1[h]) = slot} = {i} /\ {k \in 1..Len(s2) : Slot(v2[k]) = slot} = {j}
    BY <1>3, <1>4
<1>6. SlotRows(v1, s1, slot, Len(s1)) = {<<v1[i], 0>>}
    BY <1>1, <1>5 DEF SlotRows
<1>7. SlotRows(v2, s2, slot, Len(s2)) = {<<v1[i], 0>>}
    BY <1>1, <1>5 DEF SlotRows
<1>8. ASSUME NEW h \in 1..Len(s1), NEW k \in 1..Len(s2), v1[h] = v2[k] PROVE h = i /\ k = j
    <2>1. s1[h] = 0 /\ s2[k] = 0
        BY <1>8 DEF GraceSafe
    <2> QED
        BY <2>1, <1>0, <1>1
<1> QED
    BY <1>1, <1>2, <1>6, <1>7, <1>8

\* The types of the two sides, and the slots of their keys.
LEMMA SlotsNumbered ==
    ASSUME NEW v1, NEW s1, NEW v2, NEW s2, GraceSafe(v1, s1, v2, s2)
    PROVE  /\ v1 \in Seq(Int) /\ s1 \in Seq(Int) /\ v2 \in Seq(Int) /\ s2 \in Seq(Int)
           /\ Len(v1) = Len(s1) /\ Len(v2) = Len(s2) /\ Distinct(s1) /\ Distinct(s2)
           /\ Len(s1) \in Nat /\ Len(s2) \in Nat
           /\ \A i \in 1..Len(s1) : v1[i] \in Int /\ Slot(v1[i]) \in 0..(Partitions - 1)
           /\ \A j \in 1..Len(s2) : v2[j] \in Int /\ Slot(v2[j]) \in 0..(Partitions - 1)
<1>1. /\ v1 \in Seq(Int) /\ s1 \in Seq(Int) /\ v2 \in Seq(Int) /\ s2 \in Seq(Int)
      /\ Len(v1) = Len(s1) /\ Len(v2) = Len(s2) /\ Distinct(s1) /\ Distinct(s2)
    BY DEF GraceSafe, Inputs
<1> QED
    BY <1>1, Ranged, SlotInside

\* The next slot adds its wanted pairs.
LEMMA GraceNextRight ==
    ASSUME NEW v1, NEW s1, NEW v2, NEW s2, GraceSafe(v1, s1, v2, s2), NEW behind \in Int,
           NEW k \in 1..Partitions, NEW a \in Gracing, GraceGood(v1, s1, v2, s2, a, k - 1)
    PROVE  GraceGood(v1, s1, v2, s2,
                     GracePartition(a, Partition(v1, s1, k - 1, behind), Partition(v2, s2, k - 1, behind), behind), k)
<1> DEFINE slot == k - 1
           part1 == Partition(v1, s1, slot, behind)
           part2 == Partition(v2, s2, slot, behind)
           b == GracePartition(a, part1, part2, behind)
           R1 == SlotRows(v1, s1, slot, Len(s1))
           R2 == SlotRows(v2, s2, slot, Len(s2))
<1>0. slot \in Nat /\ k = slot + 1 /\ Partitions \in Nat
    BY PartitionsAssumption
<1>1. /\ part1 \in Seq(Pair) /\ Lists(part1, R1)
      /\ part2 \in Seq(Pair) /\ Lists(part2, R2)
    BY SlotsNumbered, PartitionRight
<1>2. /\ \A h \in 1..Len(s1) : Slot(v1[h]) \in Int
      /\ \A h \in 1..Len(s2) : Slot(v2[h]) \in Int
    BY <1>0, SlotsNumbered
<1>3. CASE \E i \in 1..Len(s1), j \in 1..Len(s2) : Slot(v1[i]) = slot /\ Slot(v2[j]) = slot
    <2>1. PICK i \in 1..Len(s1), j \in 1..Len(s2) : Slot(v1[i]) = slot /\ Slot(v2[j]) = slot
        BY <1>3
    <2> DEFINE x == v1[i]
    <2>2. /\ v1[i] = v2[j] /\ x \in Int /\ s1[i] = 0 /\ s2[j] = 0
          /\ R1 = {<<x, 0>>} /\ R2 = {<<x, 0>>}
          /\ \A h \in 1..Len(s1), l \in 1..Len(s2) : v1[h] = v2[l] => h = i /\ l = j
        BY <2>1, SlotOfTwo
    <2>3. Len(part1) = 1 /\ part1[1] = <<x, 0>> /\ Len(part2) = 1 /\ part2[1] = <<x, 0>>
        <3> HIDE DEF part1, part2, R1, R2, x
        <3>1. Lists(part1, {<<x, 0>>}) /\ Lists(part2, {<<x, 0>>})
            BY <1>1, <2>2
        <3> QED
            BY <3>1, ListsFew
    <2>4. PairsBelow(v1, s1, v2, s2, slot) = {}
        <3>1. ASSUME NEW h \in InSlots(v1, s1, slot), NEW l \in 1..Len(s2) PROVE v1[h] # v2[l]
            <4>1. h \in 1..Len(s1) /\ Slot(v1[h]) < slot
                BY DEF InSlots
            <4>2. h # i
                BY <4>1, <2>1, <1>2, <1>0
            <4> QED
                BY <4>1, <4>2, <2>2
        <3>2. \A h \in InSlots(v1, s1, slot), l \in 1..Len(s2) : v1[h] # v2[l]
            BY <3>1
        <3> QED
            BY <3>2, NoneAlike DEF PairsBelow
    <2>5. PairsBelow(v1, s1, v2, s2, k) = {<<0, 0>>}
        <3> DEFINE P == PairsBelow(v1, s1, v2, s2, k)
        <3>1. ASSUME NEW z PROVE z \in P <=> z = <<0, 0>>
            <4>1. z \in P <=> \E h \in InSlots(v1, s1, k), l \in 1..Len(s2) : v1[h] = v2[l] /\ z = <<s1[h], s2[l]>>
                BY PairsAre DEF PairsBelow
            <4>2. i \in InSlots(v1, s1, k)
                BY <2>1, <1>0 DEF InSlots
            <4>3. z = <<0, 0>> => z \in P
                BY <4>1, <4>2, <2>2
            <4>4. ASSUME NEW h \in InSlots(v1, s1, k), NEW l \in 1..Len(s2), v1[h] = v2[l], z = <<s1[h], s2[l]>>
                  PROVE  z = <<0, 0>>
                <5>1. h \in 1..Len(s1)
                    BY DEF InSlots
                <5>2. h = i /\ l = j
                    BY <5>1, <4>4, <2>2
                <5> QED
                    BY <5>2, <4>4, <2>2
            <4> HIDE DEF P
            <4> QED
                BY <4>1, <4>3, <4>4
        <3> HIDE DEF P
        <3>2. P = {<<0, 0>>}
            BY <3>1
        <3> QED
            BY <3>2 DEF P
    <2>6. a.pairs = << >>
        <3>1. Lists(a.pairs, {})
            BY <2>4 DEF GraceGood
        <3> QED
            BY <3>1, ListsFew
    <2>7. a.ok /\ a.values = << 0 >> /\ a.room = Len(s1) /\ a.room # 0
        <3>1. Len(s1) # 0
            BY SlotsNumbered
        <3> QED
            BY <3>1 DEF GraceGood
    <2>8. b.ok /\ b.pairs = << <<0, 0>> >> /\ b.values = << 0 >> /\ b.room = a.room
        <3> HIDE DEF part1, part2, x
        <3> QED
            BY <1>1, <2>2, <2>3, <2>6, <2>7, OneProbe, SMTT(30)
    <2>9. Lists(<< <<0, 0>> >>, {<<0, 0>>})
        <3> DEFINE e == <<0, 0>>
        <3> HIDE DEF e
        <3>1. Lists(Append(<< >>, e), {} \union {e})
            BY ListsNothing, ListsMore
        <3>2. Append(<< >>, e) = <<e>> /\ {} \union {e} = {e}
            OBVIOUS
        <3>3. Lists(<<e>>, {e})
            BY <3>1, <3>2
        <3> QED
            BY <3>3 DEF e
    <2> HIDE DEF b
    <2> QED
        BY <2>5, <2>7, <2>8, <2>9 DEF GraceGood, b
<1>4. CASE ~ \E i \in 1..Len(s1), j \in 1..Len(s2) : Slot(v1[i]) = slot /\ Slot(v2[j]) = slot
    <2>1. part1 = << >> \/ part2 = << >>
        <3> SUFFICES ASSUME part1 # << >>, part2 # << >> PROVE FALSE
            OBVIOUS
        <3>1. R1 # {} /\ R2 # {}
            <4> HIDE DEF part1, part2, R1, R2
            <4> QED
                BY <1>1, ListsFew
        <3>2. \E i \in 1..Len(s1) : Slot(v1[i]) = slot
            BY <3>1 DEF SlotRows
        <3>3. \E j \in 1..Len(s2) : Slot(v2[j]) = slot
            BY <3>1 DEF SlotRows
        <3> QED
            BY <3>2, <3>3, <1>4
    <2>2. b = a
        BY <2>1 DEF GracePartition
    <2>3. PairsBelow(v1, s1, v2, s2, k) = PairsBelow(v1, s1, v2, s2, slot)
        <3> DEFINE I == InSlots(v1, s1, slot)
                   L == {h \in 1..Len(s1) : Slot(v1[h]) = slot}
        <3>1. InSlots(v1, s1, k) = I \union L
            BY <1>0, <1>2 DEF InSlots
        <3>2. \A h \in L, l \in 1..Len(s2) : v1[h] # v2[l]
            BY <1>4
        <3> HIDE DEF I, L
        <3>3. PairsIn(v1, s1, v2, s2, L, 1..Len(s2)) = {}
            BY <3>2, NoneAlike
        <3>4. PairsIn(v1, s1, v2, s2, I \union L, 1..Len(s2))
                  = PairsIn(v1, s1, v2, s2, I, 1..Len(s2)) \union PairsIn(v1, s1, v2, s2, L, 1..Len(s2))
            BY PairsTogether
        <3> QED
            BY <3>1, <3>3, <3>4 DEF PairsBelow, I
    <2> QED
        BY <2>2, <2>3 DEF GraceGood
<1> QED
    BY <1>3, <1>4

\* db_grace_join_i answers exactly under its conditions, which are as narrow as
\* its faults are wide.
LEMMA GraceRight ==
    ASSUME NEW v1 \in Seq(Int), NEW s1 \in Seq(Int), NEW v2 \in Seq(Int), NEW s2 \in Seq(Int), NEW behind \in Int
    PROVE  LET a == GraceJoinInt(v1, s1, v2, s2, behind)
           IN  /\ IsAnswer(a)
               /\ Inputs(v1, s1, v2, s2) /\ GraceKept(v1, s1, v2, s2) => Joins(a, v1, s1, v2, s2)
<1> DEFINE n == Partitions
           answer == GraceJoinInt(v1, s1, v2, s2, behind)
           held == GraceSafe(v1, s1, v2, s2)
           slots == CHOOSE f : Graced(v1, s1, v2, s2, behind, f)
<1>0. n \in Nat
    BY PartitionsAssumption
<1>1. answer = IF slots[n].ok THEN Paired(slots[n].pairs) ELSE Lost
    BY DEF GraceJoinInt, Graced, GraceStep, GraceStart
<1>2. Graced(v1, s1, v2, s2, behind, slots)
    BY GracedSome
<1>3. PICK f : Graced(v1, s1, v2, s2, behind, f) /\ f = slots
    BY <1>2
<1>4. answer = IF f[n].ok THEN Paired(f[n].pairs) ELSE Lost
    BY <1>1, <1>3
<1> HIDE DEF n, answer, slots, held
<1>5. ASSUME NEW k \in 0..n PROVE f[k] = GraceStep(v1, s1, v2, s2, behind, f, k)
    BY <1>3, Zenon DEF Graced, n
<1> DEFINE Good(k) == f[k] \in Gracing /\ (held => GraceGood(v1, s1, v2, s2, f[k], k))
           S == {k \in 0..n : Good(k)}
<1>6. 0 \in S
    <2>1. 0 \in 0..n
        BY <1>0
    <2>2. f[0] = GraceStart(s1) /\ f[0] \in Gracing
        BY <2>1, <1>5, GracedSome DEF GraceStep
    <2>3. ASSUME held PROVE GraceGood(v1, s1, v2, s2, f[0], 0)
        <3>1. InSlots(v1, s1, 0) = {}
            BY <2>3, SlotsNumbered, PartitionsAssumption DEF InSlots, held
        <3>2. PairsBelow(v1, s1, v2, s2, 0) = {}
            BY <3>1, NoPairs DEF PairsBelow
        <3> QED
            <4>1. f[0].ok /\ f[0].values = << 0 >> /\ f[0].room = Len(s1) /\ f[0].pairs = << >>
                BY <2>2 DEF GraceStart
            <4>2. Lists(f[0].pairs, PairsBelow(v1, s1, v2, s2, 0))
                BY <4>1, <3>2, ListsNothing
            <4> QED
                BY <4>1, <4>2 DEF GraceGood
    <2>4. Good(0)
        BY <2>2, <2>3
    <2> QED
        BY <2>1, <2>4
<1>7. ASSUME NEW k \in 1..n, k - 1 \in S PROVE k \in S
    <2>0. k \in 0..n /\ k # 0 /\ Good(k - 1)
        BY <1>0, <1>7
    <2> DEFINE a == f[k - 1]
               part1 == Partition(v1, s1, k - 1, behind)
               part2 == Partition(v2, s2, k - 1, behind)
               b == GracePartition(a, part1, part2, behind)
    <2>1. f[k] = b
        BY <2>0, <1>5 DEF GraceStep
    <2>2. a \in Gracing /\ (held => GraceGood(v1, s1, v2, s2, a, k - 1))
        BY <2>0
    <2> HIDE DEF a
    <2>3. b \in Gracing
        BY <2>2, PartitionRight, GracePartitionType
    <2>4. ASSUME held PROVE GraceGood(v1, s1, v2, s2, b, k)
        <3>1. k \in 1..Partitions /\ GraceSafe(v1, s1, v2, s2) /\ GraceGood(v1, s1, v2, s2, a, k - 1)
            BY <2>2, <2>4 DEF n, held
        <3> QED
            BY <2>2, <3>1, GraceNextRight
    <2> HIDE DEF b
    <2>5. Good(k)
        BY <2>1, <2>3, <2>4
    <2> QED
        BY <2>0, <2>5
<1>8. 0..n \subseteq S
    <2> HIDE DEF S
    <2> QED BY <1>0, <1>6, <1>7, Upward
<1>9. Good(n)
    BY <1>0, <1>8
<1>10. f[n].pairs \in Seq(Pair)
    BY <1>9 DEF Gracing
<1>11. IsAnswer(answer)
    BY <1>4, <1>10, LostIs, PairedIs
<1>12. ASSUME Inputs(v1, s1, v2, s2) /\ GraceKept(v1, s1, v2, s2) PROVE Joins(answer, v1, s1, v2, s2)
    <2>1. /\ DOMAIN v1 = 1..Len(s1) /\ DOMAIN v2 = 1..Len(s2)
          /\ Len(v1) = Len(s1) /\ Len(v2) = Len(s2)
        BY <1>12, Ranged DEF Inputs
    <2>2. held
        BY <1>12, <2>1 DEF GraceKept, GraceSafe, Slot, held
    <2>3. GraceGood(v1, s1, v2, s2, f[n], n)
        BY <1>9, <2>2
    <2>4. InSlots(v1, s1, n) = 1..Len(v1)
        <3>1. \A i \in 1..Len(s1) : Slot(v1[i]) \in 0..(n - 1)
            BY <2>2, SlotsNumbered DEF held, n
        <3>2. \A i \in 1..Len(s1) : Slot(v1[i]) < n
            BY <3>1, <1>0
        <3> QED
            BY <2>1, <3>2 DEF InSlots
    <2>5. PairsBelow(v1, s1, v2, s2, n) = Wanted(v1, s1, v2, s2)
        BY <2>1, <2>4 DEF PairsBelow, Wanted
    <2>6. f[n].ok /\ Lists(f[n].pairs, Wanted(v1, s1, v2, s2))
        BY <2>3, <2>5 DEF GraceGood
    <2>7. answer = Paired(f[n].pairs)
        BY <1>4, <2>6
    <2> QED
        BY <2>6, <2>7, <1>10, PairedIs DEF Joins
<1> QED
    BY <1>11, <1>12 DEF answer

-------------------------------------------------------------------------------
(* Every join *)

\* The algorithms of db_join.
Algorithms == {"nested-loop", "hash", "sort-merge", "grace-join"}
\* The conditions of a join, of whatever type and algorithm.
JoinSafe(type, alg, v1, s1, v2, s2) ==
    /\ Inputs(v1, s1, v2, s2) /\ Len(s2) <= Len(s1)
    /\ type = "LONG" => alg = "nested-loop"
    /\ type = "INT" => JoinKept(alg, v1, v2)
    /\ alg = "grace-join" => GraceKept(v1, s1, v2, s2)

\* db_join answers with numbers whatever its inputs, and exactly under the
\* conditions.
LEMMA JoinedRight ==
    ASSUME NEW type \in {"INT", "LONG"}, NEW alg \in Algorithms,
           NEW v1 \in Seq(Int), NEW s1 \in Seq(Int), NEW v2 \in Seq(Int), NEW s2 \in Seq(Int), NEW behind \in Int
    PROVE  LET a == Joined(type, alg, v1, s1, v2, s2, behind)
           IN  /\ IsAnswer(a)
               /\ JoinSafe(type, alg, v1, s1, v2, s2) => Joins(a, v1, s1, v2, s2)
<1> DEFINE a == Joined(type, alg, v1, s1, v2, s2, behind)
           safe == JoinSafe(type, alg, v1, s1, v2, s2)
<1>1. CASE type = "LONG" /\ alg = "nested-loop"
    <2>1. a = NestedJoinLong(v1, s1, v2, s2, behind)
        BY <1>1, Zenon DEF Joined
    <2>2. IsAnswer(a)
        BY <2>1, NestedLongRight
    <2>3. safe => Joins(a, v1, s1, v2, s2)
        BY <2>1, NestedLongRight DEF JoinSafe
    <2> QED
        BY <2>2, <2>3
<1>2. CASE type = "LONG" /\ alg # "nested-loop"
    <2>1. a = Lost
        BY <1>2 DEF Joined
    <2>2. ~ safe
        BY <1>2 DEF JoinSafe
    <2> QED
        BY <2>1, <2>2, LostIs
<1>3. CASE type = "INT" /\ alg = "nested-loop"
    <2>1. a = NestedJoinInt(v1, s1, v2, s2, behind)
        BY <1>3 DEF Joined
    <2>2. IsAnswer(a)
        BY <2>1, NestedIntRight
    <2>3. safe => Joins(a, v1, s1, v2, s2)
        BY <1>3, <2>1, NestedIntRight DEF JoinSafe
    <2> QED
        BY <2>2, <2>3
<1>4. CASE type = "INT" /\ alg = "hash"
    <2>1. a = HashJoinInt(v1, s1, v2, s2, behind)
        BY <1>4 DEF Joined
    <2>2. IsAnswer(a)
        BY <2>1, HashRight
    <2>3. safe => Joins(a, v1, s1, v2, s2)
        BY <1>4, <2>1, HashRight DEF JoinSafe
    <2> QED
        BY <2>2, <2>3
<1>5. CASE type = "INT" /\ alg = "sort-merge"
    <2>1. a = SortJoinInt(v1, s1, v2, s2, behind)
        BY <1>5 DEF Joined
    <2>2. IsAnswer(a)
        BY <2>1, MergeRight
    <2>3. safe => Joins(a, v1, s1, v2, s2)
        BY <1>5, <2>1, MergeRight DEF JoinSafe
    <2> QED
        BY <2>2, <2>3
<1>6. CASE type = "INT" /\ alg = "grace-join"
    <2>1. a = GraceJoinInt(v1, s1, v2, s2, behind)
        BY <1>6 DEF Joined
    <2>2. IsAnswer(a)
        BY <2>1, GraceRight
    <2>3. safe => Joins(a, v1, s1, v2, s2)
        BY <1>6, <2>1, GraceRight DEF JoinSafe
    <2> QED
        BY <2>2, <2>3
<1> QED
    BY <1>1, <1>2, <1>3, <1>4, <1>5, <1>6 DEF Algorithms

-------------------------------------------------------------------------------
(* Selects *)

\* The rows that a select of a column qualifies.
Qualified(col, lo, hi) == {p \in Cells(col.size) : InRange(col.data[p], lo, hi)}
\* The answer of db_select, through the index if there is one.
SelectAnswer(col, lo, hi, behind) ==
    IF col.index.type = "NONE" THEN Answered(Scan(AsPayload(col), lo, hi))
    ELSE Answer(col.index, col.data, col.size, lo, hi, behind)

\* A column as the vector that a scan reads.
LEMMA PayloadOf ==
    ASSUME NEW col, SortedColumn(col)
    PROVE  /\ AsPayload(col) \in Seq(Int) /\ Len(AsPayload(col)) = col.size
           /\ \A p \in Cells(col.size) : AsPayload(col)[p + 1] = col.data[p] /\ col.data[p] \in Int
           /\ DOMAIN col.data = Cells(col.size) /\ col.size \in Nat
<1> DEFINE n == col.size
           s == [k \in 1..n |-> col.data[k - 1]]
<1>1. n \in Nat /\ col.data \in [Cells(n) -> Int]
    BY DEF SortedColumn
<1>2. \A k \in 1..n : k - 1 \in Cells(n) /\ col.data[k - 1] \in Int
    BY <1>1 DEF Cells
<1>3. s \in Seq(Int) /\ Len(s) = n
    BY <1>1, <1>2
<1>4. \A p \in Cells(n) : p + 1 \in 1..n /\ p + 1 - 1 = p
    BY <1>1 DEF Cells
<1>5. \A p \in Cells(n) : s[p + 1] = col.data[p] /\ col.data[p] \in Int
    <2> SUFFICES ASSUME NEW p \in Cells(n) PROVE s[p + 1] = col.data[p] /\ col.data[p] \in Int
        OBVIOUS
    <2>1. p + 1 \in 1..n /\ p + 1 - 1 = p
        BY <1>4
    <2> DEFINE q == p + 1
    <2>2. q \in 1..n
        BY <2>1
    <2> HIDE DEF q
    <2>3. s[q] = col.data[q - 1]
        BY <2>2
    <2> HIDE DEF s
    <2> QED
        <3>1. col.data[p] \in Int
            BY <1>1
        <3>2. q - 1 = p
            <4>1. p \in Int
                BY <1>1 DEF Cells
            <4> QED
                BY <4>1 DEF q
        <3>3. s[q] = col.data[p]
            BY <2>3, <3>2
        <3> QED
            BY <3>1, <3>3 DEF q
<1>6. AsPayload(col) = s
    BY DEF AsPayload
<1> HIDE DEF s
<1> QED
    BY <1>1, <1>3, <1>5, <1>6

\* A select comes to its end and lists rows that are wrong at most next to the
\* bounds; under the conditions it lists the rows that qualify.
LEMMA SelectRight ==
    ASSUME NEW col, SortedColumn(col), NEW lo \in Int, NEW hi \in Int,
           lo # INVALID_VAL \/ hi # INVALID_VAL, NEW behind \in Int
    PROVE  LET a == SelectAnswer(col, lo, hi, behind)
           IN  /\ a.ok
               /\ \E rows \in SUBSET Cells(col.size) :
                      /\ Lists(a.positions, rows)
                      /\ AlmostWithin(col.data, col.size, rows, lo, hi)
                      /\ col.index.type = "NONE" \/ IndexAnswers(col, lo, hi) => rows = Qualified(col, lo, hi)
<1> DEFINE a == SelectAnswer(col, lo, hi, behind)
           n == col.size
           Good(rows) == /\ Lists(a.positions, rows)
                         /\ AlmostWithin(col.data, col.size, rows, lo, hi)
                         /\ col.index.type = "NONE" \/ IndexAnswers(col, lo, hi) => rows = Qualified(col, lo, hi)
<1>1. CASE col.index.type = "NONE"
    <2> DEFINE v == AsPayload(col)
    <2>1. v \in Seq(Int) /\ Len(v) = n /\ n \in Nat /\ \A p \in Cells(n) : v[p + 1] = col.data[p]
        BY PayloadOf
    <2> HIDE DEF v
    <2>2. Lists(Scan(v, lo, hi), Found(v, lo, hi, n))
        BY <2>1, ScanFound
    <2>3. Found(v, lo, hi, n) = Qualified(col, lo, hi)
        BY <2>1 DEF Found, Qualified, Cells
    <2>4. a = Answered(Scan(v, lo, hi))
        BY <1>1 DEF SelectAnswer, v
    <2>5. a.ok /\ a.positions = Scan(v, lo, hi)
        BY <2>4 DEF Answered
    <2>6. Qualified(col, lo, hi) \in SUBSET Cells(n)
        BY DEF Qualified
    <2>7. AlmostWithin(col.data, n, Qualified(col, lo, hi), lo, hi)
        BY DEF AlmostWithin, Qualified
    <2>8. Good(Qualified(col, lo, hi))
        BY <2>2, <2>3, <2>5, <2>7
    <2> QED
        BY <2>5, <2>6, <2>8
<1>2. CASE col.index.type # "NONE"
    <2>1. col.index.type \in SortTypes
        BY <1>2 DEF SortedColumn
    <2>2. a = Answer(col.index, col.data, n, lo, hi, behind)
        BY <1>2 DEF SelectAnswer
    <2>3. a.ok /\ \E rows \in SUBSET Cells(n) : /\ Lists(a.positions, rows)
                                                /\ AlmostWithin(col.data, n, rows, lo, hi)
                                                /\ IndexAnswers(col, lo, hi) => Within(col.data, n, rows, lo, hi)
        BY <2>1, <2>2, AnswerRight
    <2>4. PICK rows \in SUBSET Cells(n) : /\ Lists(a.positions, rows)
                                          /\ AlmostWithin(col.data, n, rows, lo, hi)
                                          /\ IndexAnswers(col, lo, hi) => Within(col.data, n, rows, lo, hi)
        BY <2>3
    <2>5. Within(col.data, n, rows, lo, hi) => rows = Qualified(col, lo, hi)
        BY DEF Within, Qualified
    <2>6. Good(rows)
        BY <1>2, <2>4, <2>5
    <2> QED
        BY <2>3, <2>6
<1> QED
    BY <1>1, <1>2

\* The position vectors that a client may hold.
SelType == [set : BOOLEAN, positions : Seq(Int), rows : SUBSET Int, asked : (0..2) \X Int \X Int]
\* SelectsExact, of one table, with rows that exist.
SelGood(size, s) == Lists(s.positions, s.rows) /\ s.rows \subseteq Cells(size)
\* IndexNearBounds, of one table.
NearOf(col, s) ==
    \A p \in (ValuesOf(s.positions) \ s.rows) \union (s.rows \ ValuesOf(s.positions)) :
        p \in Cells(col.size) /\ \E i \in {2, 3} :
            s.asked[i] # INVALID_VAL /\ NextTo(Values(col.data, col.size), col.data[p], s.asked[i])
\* IndexNearBounds, of one table, if the vector came from a column.
NearGood(cols, s) == s.asked[1] # 0 => NearOf(cols[s.asked[1]], s)

\* The vector of a select.
LEMMA SelectedRight ==
    ASSUME NEW cols, NEW c \in Places, SortedColumn(cols[c]), NEW lo \in Int, NEW hi \in Int,
           lo # INVALID_VAL \/ hi # INVALID_VAL, NEW behind \in Int, NEW s,
           s = [set |-> TRUE, positions |-> SelectAnswer(cols[c], lo, hi, behind).positions,
                rows |-> Qualified(cols[c], lo, hi), asked |-> <<c, lo, hi>>]
    PROVE  /\ s \in SelType /\ NearGood(cols, s)
           /\ cols[c].index.type = "NONE" \/ IndexAnswers(cols[c], lo, hi) => SelGood(cols[c].size, s)
<1> DEFINE col == cols[c]
           n == col.size
           a == SelectAnswer(col, lo, hi, behind)
           R == Qualified(col, lo, hi)
<1>1. PICK rows \in SUBSET Cells(n) :
          /\ Lists(a.positions, rows)
          /\ AlmostWithin(col.data, n, rows, lo, hi)
          /\ col.index.type = "NONE" \/ IndexAnswers(col, lo, hi) => rows = R
    BY SelectRight
<1>2. n \in Nat /\ Cells(n) \subseteq Int /\ R \subseteq Cells(n)
    BY PayloadOf DEF Cells, Qualified
<1>3. s.positions = a.positions /\ s.rows = R /\ s.asked = <<c, lo, hi>>
    OBVIOUS
<1>4. a.positions \in Seq(Int) /\ ValuesOf(a.positions) = rows
    <2>1. rows \subseteq Int
        BY <1>1, <1>2
    <2> QED
        BY <1>1, <2>1, ListsTyped, ListsExactly DEF Exactly
<1>5. s \in SelType
    <2>1. R \in SUBSET Int
        BY <1>2
    <2>2. <<c, lo, hi>> \in (0..2) \X Int \X Int
        BY DEF Places
    <2> HIDE DEF a, R
    <2> QED
        BY <1>4, <2>1, <2>2 DEF SelType, a, R
<1>6. NearGood(cols, s)
    <2>1. s.asked[1] = c /\ s.asked[2] = lo /\ s.asked[3] = hi
        BY <1>3
    <2>2. ASSUME NEW p \in (rows \ R) \union (R \ rows)
          PROVE  p \in Cells(n) /\ \E i \in {2, 3} :
                     s.asked[i] # INVALID_VAL /\ NextTo(Values(col.data, n), col.data[p], s.asked[i])
        <3>1. p \in Cells(n) /\ ~ (p \in rows <=> p \in R)
            BY <1>1, <1>2
        <3>2. ~ (p \in rows <=> InRange(col.data[p], lo, hi))
            BY <3>1 DEF Qualified
        <3>3. NearBound(Values(col.data, n), col.data[p], lo, hi)
            BY <1>1, <3>1, <3>2 DEF AlmostWithin
        <3>4. \E b \in {lo, hi} : b # INVALID_VAL /\ NextTo(Values(col.data, n), col.data[p], b)
            BY <3>3 DEF NearBound
        <3> HIDE DEF col, n
        <3> QED
            BY <3>1, <3>4, <2>1
    <2>3. ValuesOf(s.positions) = rows /\ s.rows = R
        BY <1>3, <1>4
    <2> HIDE DEF a, R
    <2>4. NearOf(col, s)
        BY <2>2, <2>3 DEF NearOf
    <2> QED
        BY <2>1, <2>4 DEF NearGood
<1>7. ASSUME col.index.type = "NONE" \/ IndexAnswers(col, lo, hi) PROVE SelGood(n, s)
    BY <1>1, <1>2, <1>3, <1>7 DEF SelGood
<1> QED
    BY <1>5, <1>6, <1>7

\* The results that a client may hold.
ValType == [set : BOOLEAN, type : {"INT", "LONG"}, payload : Seq(Int), along : Seq(Int), means : Seq(Int)]
\* A result has as many values as it has meanings and rows.
ValTyped(v) == v \in ValType /\ Len(v.payload) = Len(v.means) /\ Len(v.along) = Len(v.means)

-------------------------------------------------------------------------------
(* A select within fetched values *)

\* A select within fetched values gives a position vector, and asks no column.
LEMMA WithinType ==
    ASSUME NEW s, s \in SelType, NEW v, ValTyped(v), NEW lo \in Int, NEW hi \in Int, NEW behind \in Int, NEW u,
           u = [set |-> TRUE, positions |-> Composed(s.positions, Scan(v.payload, lo, hi), behind),
                rows |-> {v.along[k] : k \in {j \in DOMAIN v.means : InRange(v.means[j], lo, hi)}},
                asked |-> <<0, lo, hi>>]
    PROVE  u \in SelType /\ u.asked[1] = 0
<1> DEFINE places == Scan(v.payload, lo, hi)
           rows == {v.along[k] : k \in {j \in DOMAIN v.means : InRange(v.means[j], lo, hi)}}
           composed == Composed(s.positions, places, behind)
<1>1. /\ v.payload \in Seq(Int) /\ v.along \in Seq(Int) /\ v.means \in Seq(Int) /\ s.positions \in Seq(Int)
      /\ Len(v.along) = Len(v.means)
    BY DEF ValTyped, ValType, SelType
<1>2. rows \in SUBSET Int
    <2>1. \A k \in DOMAIN v.means : v.along[k] \in Int
        BY <1>1, Ranged
    <2> QED
        BY <2>1
<1>3. composed \in Seq(Int)
    <2>1. Lists(places, Found(v.payload, lo, hi, Len(v.payload)))
        BY <1>1, ScanFound
    <2>2. Len(places) \in Nat /\ DOMAIN places = 1..Len(places)
        <3> HIDE DEF places
        <3> QED
            BY <2>1, LenProperties DEF Lists
    <2>3. composed = [k \in 1..Len(places) |-> At(s.positions, places[k] + 1, behind)]
        BY <2>2 DEF Composed
    <2>4. \A k \in 1..Len(places) : At(s.positions, places[k] + 1, behind) \in Int
        BY <1>1, AtInt
    <2> HIDE DEF places, composed
    <2> QED
        BY <2>2, <2>3, <2>4
<1>4. <<0, lo, hi>> \in (0..2) \X Int \X Int
    OBVIOUS
<1> HIDE DEF rows, composed
<1>5. u = [set |-> TRUE, positions |-> composed, rows |-> rows, asked |-> <<0, lo, hi>>]
    BY DEF rows, composed
<1> QED
    BY <1>2, <1>3, <1>4, <1>5 DEF SelType

\* A select within fetched values gives the rows that qualify if the vector and
\* the values belong together (db_fetch_select).
LEMMA WithinRight ==
    ASSUME NEW s, s \in SelType, NEW v, ValTyped(v), NEW lo \in Int, NEW hi \in Int, NEW behind \in Int, NEW u,
           u = [set |-> TRUE, positions |-> Composed(s.positions, Scan(v.payload, lo, hi), behind),
                rows |-> {v.along[k] : k \in {j \in DOMAIN v.means : InRange(v.means[j], lo, hi)}},
                asked |-> <<0, lo, hi>>],
           NEW size, SelGood(size, s), v.along = s.positions, v.payload = v.means
    PROVE  SelGood(size, u)
<1> DEFINE p == s.positions
           m == v.means
           n == Len(p)
           places == Scan(m, lo, hi)
           X == Found(m, lo, hi, n)
           rows == {p[k] : k \in {j \in DOMAIN m : InRange(m[j], lo, hi)}}
           f == [x \in X |-> p[x + 1]]
           composed == Composed(p, places, behind)
<1>1. /\ m \in Seq(Int) /\ p \in Seq(Int) /\ Len(m) = n /\ n \in Nat
      /\ DOMAIN m = 1..n /\ DOMAIN p = 1..n
    <2>1. v.means \in Seq(Int) /\ s.positions \in Seq(Int) /\ Len(v.means) = Len(s.positions)
        BY DEF ValTyped, ValType, SelType
    <2> QED
        BY <2>1, Ranged
<1>2. Lists(p, s.rows) /\ s.rows \subseteq Cells(size)
    BY DEF SelGood
<1> HIDE DEF p, m, n
<1>3. Lists(places, X)
    BY <1>1, ScanFound
<1>4. \A x \in X : x \in 0..(n - 1) /\ x + 1 \in 1..n
    BY <1>1 DEF Found
<1>5. composed = [k \in 1..Len(places) |-> f[places[k]]]
    <2> HIDE DEF places, X, f
    <2>1. Len(places) \in Nat /\ DOMAIN places = 1..Len(places) /\ \A k \in 1..Len(places) : places[k] \in X
        BY <1>3, LenProperties, ElementOfSeq DEF Lists
    <2>2. ASSUME NEW k \in 1..Len(places) PROVE At(p, places[k] + 1, behind) = f[places[k]]
        <3>1. places[k] \in X /\ places[k] + 1 \in DOMAIN p
            BY <2>1, <1>1, <1>4
        <3> QED
            BY <3>1 DEF At, f
    <2>3. composed = [k \in 1..Len(places) |-> At(p, places[k] + 1, behind)]
        BY <2>1 DEF Composed
    <2> HIDE DEF composed
    <2> QED
        BY <2>2, <2>3
<1>6. \A x, y \in X : f[x] = f[y] => x = y
    <2>1. ASSUME NEW x \in X, NEW y \in X, f[x] = f[y] PROVE x = y
        <3>1. x + 1 \in 1..n /\ y + 1 \in 1..n /\ p[x + 1] = p[y + 1] /\ x \in Int /\ y \in Int
            BY <1>4, <2>1
        <3>2. x + 1 = y + 1
            BY <3>1, <1>2 DEF Lists, Distinct, n
        <3> QED
            BY <3>1, <3>2
    <2> HIDE DEF f, X
    <2> QED
        BY <2>1
<1>7. {f[x] : x \in X} = rows
    <2>1. ASSUME NEW x \in X PROVE f[x] \in rows
        <3>1. x + 1 \in DOMAIN m /\ InRange(m[x + 1], lo, hi)
            BY <1>1, <1>4 DEF Found
        <3> QED
            BY <3>1
    <2>2. ASSUME NEW z \in rows PROVE \E x \in X : z = f[x]
        <3>1. PICK k \in 1..n : InRange(m[k], lo, hi) /\ z = p[k]
            BY <1>1
        <3> DEFINE x == k - 1
        <3>2. x \in 0..(n - 1) /\ x + 1 = k
            BY <1>1
        <3> HIDE DEF x
        <3>3. x \in X
            BY <3>1, <3>2 DEF Found
        <3>4. f[x] = p[x + 1]
            BY <3>3
        <3> QED
            BY <3>1, <3>2, <3>3, <3>4
    <2> HIDE DEF f, X, rows
    <2> QED
        BY <2>1, <2>2
<1>8. Lists(composed, rows)
    <2>1. DOMAIN f = X
        OBVIOUS
    <2> HIDE DEF f, X, rows, composed, places
    <2> QED
        BY <1>3, <1>5, <1>6, <1>7, <2>1, ListsImage
<1>9. rows \subseteq s.rows
    <2>1. \A k \in 1..n : p[k] \in s.rows
        BY <1>2, ElementOfSeq DEF Lists, n
    <2> QED
        BY <2>1, <1>1
<1>10. u.positions = composed /\ u.rows = rows
    BY DEF p, m
<1> HIDE DEF rows, composed
<1> QED
    BY <1>2, <1>8, <1>9, <1>10 DEF SelGood

-------------------------------------------------------------------------------
(* Fetches *)

\* A fetch from a column gives a result, which is what it means if the positions
\* are rows (db_fetch_column).
LEMMA FetchRight ==
    ASSUME NEW col, SortedColumn(col), NEW positions \in Seq(Int), NEW behind \in Int, NEW v,
           v = [set |-> TRUE, type |-> "INT", along |-> positions,
                payload |-> [k \in DOMAIN positions |-> Cell(col.data, positions[k], behind)],
                means |-> [k \in DOMAIN positions |-> Cell(col.data, positions[k], 0)]]
    PROVE  /\ ValTyped(v)
           /\ (\A k \in DOMAIN positions : positions[k] \in Cells(col.size)) => v.payload = v.means
<1> DEFINE n == Len(positions)
           payload == [k \in 1..n |-> Cell(col.data, positions[k], behind)]
           means == [k \in 1..n |-> Cell(col.data, positions[k], 0)]
<1>1. n \in Nat /\ DOMAIN positions = 1..n
    BY Ranged
<1>2. \A i : Cell(col.data, i, behind) \in Int /\ Cell(col.data, i, 0) \in Int
    BY PayloadOf DEF Cell
<1>3. payload \in Seq(Int) /\ means \in Seq(Int) /\ Len(payload) = n /\ Len(means) = n
    BY <1>1, <1>2
<1>4. v.payload = payload /\ v.means = means /\ v.along = positions
    BY <1>1
<1>5. v = [set |-> TRUE, type |-> "INT", along |-> positions, payload |-> payload, means |-> means]
    BY <1>1
<1>6. ASSUME \A k \in DOMAIN positions : positions[k] \in Cells(col.size) PROVE payload = means
    <2>1. \A k \in 1..n : Cell(col.data, positions[k], behind) = Cell(col.data, positions[k], 0)
        BY <1>1, <1>6, PayloadOf DEF Cell
    <2> QED
        BY <2>1
<1> HIDE DEF payload, means
<1>7. ValTyped(v)
    BY <1>3, <1>4, <1>5 DEF ValTyped, ValType
<1> QED
    BY <1>4, <1>6, <1>7

\* A fetch from a result gives what it means if the vector fits the result
\* (db_fetch_int, db_fetch_long).
LEMMA FetchResultRight ==
    ASSUME NEW v, ValTyped(v), NEW p \in Seq(Int), NEW behind \in Int, NEW u,
           u = [v EXCEPT !.payload = [k \in DOMAIN p |-> IF k <= Len(v.payload) THEN At(v.payload, p[k] + 1, behind) ELSE 0],
                         !.along = [k \in DOMAIN p |-> At(v.along, p[k] + 1, 0)],
                         !.means = [k \in DOMAIN p |-> At(v.means, p[k] + 1, 0)]]
    PROVE  /\ ValTyped(u)
           /\ /\ v.payload = v.means /\ Len(v.payload) = Len(p)
              /\ \A k \in DOMAIN p : p[k] \in Cells(Len(v.payload))
              => u.payload = u.means
<1> DEFINE n == Len(p)
           payload == [k \in 1..n |-> IF k <= Len(v.payload) THEN At(v.payload, p[k] + 1, behind) ELSE 0]
           along == [k \in 1..n |-> At(v.along, p[k] + 1, 0)]
           means == [k \in 1..n |-> At(v.means, p[k] + 1, 0)]
<1>1. /\ n \in Nat /\ DOMAIN p = 1..n
      /\ v.payload \in Seq(Int) /\ v.along \in Seq(Int) /\ v.means \in Seq(Int)
    BY Ranged DEF ValTyped, ValType
<1>2. \A i : At(v.payload, i, behind) \in Int /\ At(v.along, i, 0) \in Int /\ At(v.means, i, 0) \in Int
    BY <1>1, AtInt
<1>3. /\ payload \in Seq(Int) /\ along \in Seq(Int) /\ means \in Seq(Int)
      /\ Len(payload) = n /\ Len(along) = n /\ Len(means) = n
    BY <1>1, <1>2
<1>4. u = [v EXCEPT !.payload = payload, !.along = along, !.means = means]
    BY <1>1
<1>5. ASSUME v.payload = v.means, Len(v.payload) = Len(p), \A k \in DOMAIN p : p[k] \in Cells(Len(v.payload))
      PROVE  payload = means
    <2>1. ASSUME NEW k \in 1..n
          PROVE  (IF k <= Len(v.payload) THEN At(v.payload, p[k] + 1, behind) ELSE 0) = At(v.means, p[k] + 1, 0)
        <3>1. k <= Len(v.payload) /\ p[k] + 1 \in DOMAIN v.payload
            BY <1>1, <1>5, Ranged DEF Cells
        <3> QED
            BY <3>1, <1>5 DEF At
    <2> QED
        BY <2>1
<1> HIDE DEF payload, along, means
<1>6. u.payload = payload /\ u.along = along /\ u.means = means /\ u \in ValType
    BY <1>3, <1>4 DEF ValTyped, ValType
<1> QED
    BY <1>3, <1>5, <1>6 DEF ValTyped

-------------------------------------------------------------------------------
(* Sums and differences *)

\* An int holds every integer within its width.
LEMMA Wrapped ==
    /\ \A v \in Int : Wrap(v) \in Int
    /\ \A v \in Int : FitsInt(v) => Wrap(v) = v
<1> DEFINE w == IntMax - IntMin + 1
<1>1. w \in Nat \ {0} /\ IntMin \in Int /\ IntMax \in Int
    BY QueryAssumption
<1>2. \A a \in Int, b \in Nat \ {0} : a % b \in Int
    OBVIOUS
<1>3. \A a \in Nat, b \in Nat \ {0} : a < b => a % b = a
    OBVIOUS
<1>4. ASSUME NEW v \in Int PROVE Wrap(v) \in Int
    <2>1. (v - IntMin) % w \in Int
        BY <1>1, <1>2
    <2> QED
        BY <1>1, <2>1 DEF Wrap
<1>5. ASSUME NEW v \in Int, FitsInt(v) PROVE Wrap(v) = v
    <2>1. v - IntMin \in Nat /\ v - IntMin < w
        BY <1>1, <1>5 DEF FitsInt
    <2>2. (v - IntMin) % w = v - IntMin
        BY <1>1, <1>3, <2>1
    <2> QED
        BY <1>1, <2>2 DEF Wrap
<1> QED
    BY <1>4, <1>5

\* A sum or a difference of integers is one.
LEMMA AppliedInt ==
    ASSUME NEW op, NEW a \in Int, NEW b \in Int
    PROVE  Applied(op, a, b) \in Int
BY DEF Applied

\* Operand, of a given table and result.
OperandOf(cols, v, x) ==
    IF x = 0 THEN v
    ELSE [set |-> TRUE, type |-> "INT", payload |-> AsPayload(cols[x]), means |-> AsPayload(cols[x]),
          along |-> [k \in 1..cols[x].size |-> k - 1]]

\* A column means its values.
LEMMA OperandRight ==
    ASSUME NEW cols, \A c \in Places : SortedColumn(cols[c]), NEW v, ValTyped(v), NEW x \in Operands
    PROVE  /\ ValTyped(OperandOf(cols, v, x))
           /\ v.payload = v.means => OperandOf(cols, v, x).payload = OperandOf(cols, v, x).means
<1>1. CASE x = 0
    BY <1>1 DEF OperandOf
<1>2. CASE x # 0
    <2> DEFINE p == AsPayload(cols[x])
               n == cols[x].size
               along == [k \in 1..n |-> k - 1]
               o == OperandOf(cols, v, x)
    <2>1. SortedColumn(cols[x])
        BY <1>2 DEF Operands, Places
    <2>2. p \in Seq(Int) /\ Len(p) = n /\ n \in Nat
        BY <2>1, PayloadOf
    <2>3. along \in Seq(Int) /\ Len(along) = n
        BY <2>2, SMTT(60)
    <2>4. o = [set |-> TRUE, type |-> "INT", payload |-> p, means |-> p, along |-> along]
        BY <1>2 DEF OperandOf
    <2> HIDE DEF o, p, along, n
    <2>5. o \in ValType /\ o.payload = p /\ o.means = p /\ o.along = along
        BY <2>2, <2>3, <2>4 DEF ValType
    <2> QED
        BY <2>2, <2>3, <2>5 DEF ValTyped, o
<1> QED
    BY <1>1, <1>2

\* What a sum or a difference means.
CalculatedMeans(op, a, other) == [k \in DOMAIN a.means |-> Applied(op, a.means[k], other.means[k])]

\* A sum or a difference is what it means if no int overflows (db_calc_add_i and
\* its kin).
LEMMA CalculatedRight ==
    ASSUME NEW op, NEW a, ValTyped(a), NEW other, ValTyped(other), Len(a.payload) = Len(other.payload),
           NEW b \in {a, other}, NEW u,
           u = [set |-> TRUE, type |-> "LONG", along |-> a.along, payload |-> Calculated(op, a, b),
                means |-> CalculatedMeans(op, a, other)]
    PROVE  /\ ValTyped(u)
           /\ /\ b = other /\ a.payload = a.means /\ other.payload = other.means
              /\ a.type = "INT" /\ b.type = "INT" =>
                     \A k \in 1..Len(a.payload) : FitsInt(Applied(op, a.means[k], b.means[k]))
              => u.payload = u.means
<1> DEFINE n == Len(a.payload)
           cell(k) == IF a.type = "INT" /\ b.type = "INT" THEN Wrap(Applied(op, a.payload[k], b.payload[k]))
                      ELSE Applied(op, a.payload[k], b.payload[k])
           payload == [k \in 1..n |-> cell(k)]
           means == [k \in 1..n |-> Applied(op, a.means[k], other.means[k])]
<1>1. /\ n \in Nat /\ Len(a.means) = n /\ Len(a.along) = n /\ Len(b.payload) = n /\ Len(other.means) = n
      /\ a.payload \in Seq(Int) /\ a.means \in Seq(Int) /\ a.along \in Seq(Int)
      /\ b.payload \in Seq(Int) /\ other.means \in Seq(Int)
    BY Ranged DEF ValTyped, ValType
<1>2. \A k \in 1..n : a.payload[k] \in Int /\ a.means[k] \in Int /\ b.payload[k] \in Int /\ other.means[k] \in Int
    BY <1>1, Ranged
<1>3. DOMAIN a.payload = 1..n /\ DOMAIN a.means = 1..n
    BY <1>1, Ranged
<1>4. \A k \in 1..n : /\ Applied(op, a.payload[k], b.payload[k]) \in Int
                      /\ Applied(op, a.means[k], other.means[k]) \in Int
    BY <1>2, AppliedInt
<1>5. \A k \in 1..n : cell(k) \in Int
    BY <1>4, Wrapped
<1>6. payload = Calculated(op, a, b) /\ means = CalculatedMeans(op, a, other)
    BY <1>3, Zenon DEF Calculated, CalculatedMeans
<1>7. payload \in Seq(Int) /\ means \in Seq(Int) /\ Len(payload) = n /\ Len(means) = n
    <2> HIDE DEF cell
    <2> QED
        BY <1>1, <1>4, <1>5
<1>8. ASSUME b = other, a.payload = a.means, other.payload = other.means,
             a.type = "INT" /\ b.type = "INT" => \A k \in 1..n : FitsInt(Applied(op, a.means[k], b.means[k]))
      PROVE  payload = means
    <2>1. ASSUME NEW k \in 1..n PROVE cell(k) = Applied(op, a.means[k], other.means[k])
        <3> DEFINE r == Applied(op, a.means[k], other.means[k])
        <3>1. r = Applied(op, a.payload[k], b.payload[k]) /\ r = Applied(op, a.means[k], b.means[k])
            BY <1>8
        <3>2. r \in Int
            BY <1>4
        <3> HIDE DEF r
        <3>3. a.type = "INT" /\ b.type = "INT" => Wrap(r) = r
            BY <1>8, <3>1, <3>2, Wrapped
        <3>4. cell(k) = r
            BY <3>1, <3>3
        <3> QED
            BY <3>4 DEF r
    <2> HIDE DEF cell
    <2> QED
        BY <2>1
<1> HIDE DEF payload, means
<1>9. u = [set |-> TRUE, type |-> "LONG", along |-> a.along, payload |-> payload, means |-> means]
    BY <1>6
<1>10. u.payload = payload /\ u.means = means /\ u.along = a.along /\ u \in ValType
    BY <1>1, <1>7, <1>9 DEF ValType
<1> QED
    BY <1>1, <1>7, <1>8, <1>10 DEF ValTyped

\* The same, of an answer that is right.
LEMMA CalculatedExact ==
    ASSUME NEW op, NEW a, ValTyped(a), NEW other, ValTyped(other), Len(a.payload) = Len(other.payload),
           NEW b, b = other, a.payload = a.means, other.payload = other.means,
           a.type = "INT" /\ b.type = "INT" =>
               \A k \in 1..Len(a.payload) : FitsInt(Applied(op, a.means[k], b.means[k])),
           NEW u,
           u = [set |-> TRUE, type |-> "LONG", along |-> a.along, payload |-> Calculated(op, a, b),
                means |-> CalculatedMeans(op, a, other)]
    PROVE  u.payload = u.means
<1>1. b \in {a, other}
    OBVIOUS
<1> DEFINE fits == a.type = "INT" /\ b.type = "INT" =>
                       \A k \in 1..Len(a.payload) : FitsInt(Applied(op, a.means[k], b.means[k]))
<1>2. fits
    OBVIOUS
<1>3. b = other /\ a.payload = a.means /\ other.payload = other.means /\ fits => u.payload = u.means
    BY <1>1, CalculatedRight, SMTT(60)
<1> HIDE DEF fits
<1> QED
    BY <1>2, <1>3

-------------------------------------------------------------------------------
(* Aggregates *)

\* The least of some values and 0, if one of the values is not positive.
LEMMA LeastWithZero ==
    ASSUME NEW S, S \subseteq Int, NEW v \in S, v <= 0
    PROVE  Least(S \union {0}) = Least(S)
<1> DEFINE P(m) == m \in S \union {0} /\ \A w \in S \union {0} : m <= w
           Q(m) == m \in S /\ \A w \in S : m <= w
<1>1. ASSUME NEW m PROVE P(m) <=> Q(m)
    <2>1. ASSUME P(m) PROVE Q(m)
        <3>1. m <= v /\ m <= 0 /\ m \in Int /\ v \in Int
            BY <2>1
        <3>2. m \in S
            BY <2>1, <3>1
        <3> QED
            BY <2>1, <3>2
    <2>2. ASSUME Q(m) PROVE P(m)
        <3>1. m <= v /\ m \in Int /\ v \in Int
            BY <2>2
        <3>2. m <= 0
            BY <3>1
        <3> QED
            BY <2>2, <3>2
    <2> QED
        BY <2>1, <2>2
<1>2. Least(S \union {0}) = CHOOSE m : P(m)
    BY DEF Least
<1>3. Least(S) = CHOOSE m : Q(m)
    BY DEF Least
<1> HIDE DEF P, Q
<1>4. (CHOOSE m : P(m)) = (CHOOSE m : Q(m))
    BY <1>1
<1> QED
    BY <1>2, <1>3, <1>4

\* The greatest of some values and 0, if one of the values is not negative.
LEMMA GreatestWithZero ==
    ASSUME NEW S, S \subseteq Int, NEW v \in S, v >= 0
    PROVE  Greatest(S \union {0}) = Greatest(S)
<1> DEFINE P(m) == m \in S \union {0} /\ \A w \in S \union {0} : w <= m
           Q(m) == m \in S /\ \A w \in S : w <= m
<1>1. ASSUME NEW m PROVE P(m) <=> Q(m)
    <2>1. ASSUME P(m) PROVE Q(m)
        <3>1. v <= m /\ 0 <= m /\ m \in Int /\ v \in Int
            BY <2>1
        <3>2. m \in S
            BY <2>1, <3>1
        <3> QED
            BY <2>1, <3>2
    <2>2. ASSUME Q(m) PROVE P(m)
        <3>1. v <= m /\ m \in Int /\ v \in Int
            BY <2>2
        <3>2. 0 <= m
            BY <3>1
        <3> QED
            BY <2>2, <3>2
    <2> QED
        BY <2>1, <2>2
<1>2. Greatest(S \union {0}) = CHOOSE m : P(m)
    BY DEF Greatest
<1>3. Greatest(S) = CHOOSE m : Q(m)
    BY DEF Greatest
<1> HIDE DEF P, Q
<1>4. (CHOOSE m : P(m)) = (CHOOSE m : Q(m))
    BY <1>1
<1> QED
    BY <1>2, <1>3, <1>4

\* An aggregate is that of its values if 0 is not beyond all of them
\* (db_calc_min_i and its kin begin with 0).
LEMMA AggregateRight ==
    ASSUME NEW op \in {"SUM", "AVG", "MIN", "MAX"}, NEW s \in Seq(Int),
           op = "MIN" => \E v \in ValuesOf(s) : v <= 0,
           op = "MAX" => \E v \in ValuesOf(s) : v >= 0
    PROVE  Aggregate(op, s) = TrueAggregate(op, s)
<1>1. ValuesOf(s) \subseteq Int
    BY Ranged DEF ValuesOf
<1>2. CASE op \in {"SUM", "AVG"}
    BY <1>2 DEF Aggregate, TrueAggregate
<1>3. CASE op = "MIN"
    <2>1. PICK v \in ValuesOf(s) : v <= 0
        BY <1>3
    <2>2. Least(ValuesOf(s) \union {0}) = Least(ValuesOf(s))
        BY <1>1, <2>1, LeastWithZero
    <2> QED
        BY <1>3, <2>2 DEF Aggregate, TrueAggregate
<1>4. CASE op = "MAX"
    <2>1. PICK v \in ValuesOf(s) : v >= 0
        BY <1>4
    <2>2. Greatest(ValuesOf(s) \union {0}) = Greatest(ValuesOf(s))
        BY <1>1, <2>1, GreatestWithZero
    <2> QED
        BY <1>4, <2>2 DEF Aggregate, TrueAggregate
<1> QED
    BY <1>2, <1>3, <1>4

-------------------------------------------------------------------------------
(* The join of two results *)

\* The pairs with the sides exchanged.
Turned(pairs) == [k \in DOMAIN pairs |-> <<pairs[k][2], pairs[k][1]>>]

\* A list of pairs, turned, lists the turned pairs.
LEMMA TurnedRight ==
    ASSUME NEW pairs \in Seq(Pair)
    PROVE  /\ Turned(pairs) \in Seq(Pair)
           /\ \A X : Lists(pairs, X) /\ X \subseteq Pair => Lists(Turned(pairs), {<<z[2], z[1]>> : z \in X})
<1> DEFINE n == Len(pairs)
           t == [k \in 1..n |-> <<pairs[k][2], pairs[k][1]>>]
<1>1. n \in Nat /\ DOMAIN pairs = 1..n /\ \A k \in 1..n : pairs[k] \in Pair
    BY LenProperties, ElementOfSeq
<1>2. Turned(pairs) = t
    BY <1>1 DEF Turned
<1>3. \A k \in 1..n : <<pairs[k][2], pairs[k][1]>> \in Pair
    BY <1>1 DEF Pair
<1>4. t \in Seq(Pair)
    BY <1>1, <1>3
<1>5. ASSUME NEW X, Lists(pairs, X), X \subseteq Pair
      PROVE  Lists(Turned(pairs), {<<z[2], z[1]>> : z \in X})
    <2> DEFINE f == [z \in X |-> <<z[2], z[1]>>]
    <2>1. \A k \in 1..n : pairs[k] \in X
        BY <1>5, ElementOfSeq DEF Lists
    <2>2. t = [k \in 1..n |-> f[pairs[k]]]
        BY <2>1
    <2>3. \A x, y \in X : f[x] = f[y] => x = y
        <3>1. ASSUME NEW x \in X, NEW y \in X, f[x] = f[y] PROVE x = y
            <4>1. x \in Pair /\ y \in Pair
                BY <1>5
            <4>2. x = <<x[1], x[2]>> /\ y = <<y[1], y[2]>>
                BY <4>1 DEF Pair
            <4>3. x[2] = y[2] /\ x[1] = y[1]
                BY <3>1
            <4> QED
                BY <4>2, <4>3
        <3> HIDE DEF f
        <3> QED
            BY <3>1
    <2>4. DOMAIN f = X /\ {f[z] : z \in X} = {<<z[2], z[1]>> : z \in X}
        OBVIOUS
    <2>5. Lists(t, {f[z] : z \in X})
        <3> HIDE DEF t, f
        <3> QED
            BY <1>5, <2>2, <2>3, <2>4, ListsImage
    <2> QED
        BY <1>2, <2>4, <2>5
<1> QED
    BY <1>2, <1>4, <1>5

\* What is wanted of the results u and v.
WantedOf(u, v) == {<<u.along[m[1]], v.along[m[2]]>> : m \in Alike(u.means, v.means)}
\* The bigger one first.
BiggerFirst(alg, u, s, v, w) ==
    /\ u.along = s.positions /\ v.along = w.positions /\ u.type = v.type
    /\ u.type = "LONG" => alg = "nested-loop"
    /\ u.type = "INT" => JoinKept(alg, u.means, v.means)
    /\ alg = "grace-join" => GraceKept(u.means, s.positions, v.means, w.positions)
\* The answer of db_join to two results.
JoinAnswer(alg, u, s, v, w, behind) ==
    IF u.type # v.type THEN Lost
    ELSE Joined(u.type, alg, u.payload, s.positions, v.payload, w.positions, behind)

\* Of two results the join answers with the pairs of rows that they mean.
LEMMA JoinAnswerRight ==
    ASSUME NEW alg \in Algorithms, NEW u, ValTyped(u), NEW s, s \in SelType, NEW v, ValTyped(v), NEW w, w \in SelType,
           NEW behind \in Int
    PROVE  LET a == JoinAnswer(alg, u, s, v, w, behind)
           IN  /\ IsAnswer(a)
               /\ /\ u.payload = u.means /\ v.payload = v.means
                  /\ Lists(s.positions, s.rows) /\ Lists(w.positions, w.rows)
                  /\ Len(w.positions) <= Len(s.positions)
                  /\ BiggerFirst(alg, u, s, v, w)
                  => a.ok /\ Lists(a.pairs, WantedOf(u, v)) /\ WantedOf(u, v) \subseteq Pair
<1> DEFINE a == JoinAnswer(alg, u, s, v, w, behind)
           v1 == u.payload
           s1 == s.positions
           v2 == v.payload
           s2 == w.positions
<1>1. /\ v1 \in Seq(Int) /\ s1 \in Seq(Int) /\ v2 \in Seq(Int) /\ s2 \in Seq(Int) /\ u.type \in {"INT", "LONG"}
      /\ u.means \in Seq(Int) /\ v.means \in Seq(Int)
    BY DEF ValTyped, ValType, SelType
<1>2. /\ IsAnswer(Joined(u.type, alg, v1, s1, v2, s2, behind))
      /\ JoinSafe(u.type, alg, v1, s1, v2, s2) => Joins(Joined(u.type, alg, v1, s1, v2, s2, behind), v1, s1, v2, s2)
    <2> HIDE DEF v1, s1, v2, s2
    <2> QED
        BY <1>1, JoinedRight
<1>3. IsAnswer(a)
    BY <1>2, LostIs DEF JoinAnswer
<1>4. ASSUME u.payload = u.means, v.payload = v.means,
             Lists(s1, s.rows), Lists(s2, w.rows), Len(s2) <= Len(s1), BiggerFirst(alg, u, s, v, w)
      PROVE  a.ok /\ Lists(a.pairs, WantedOf(u, v)) /\ WantedOf(u, v) \subseteq Pair
    <2>1. u.along = s1 /\ v.along = s2 /\ u.type = v.type
        BY <1>4 DEF BiggerFirst
    <2>2. Len(v1) = Len(s1) /\ Len(v2) = Len(s2)
        BY <2>1 DEF ValTyped
    <2>3. Inputs(v1, s1, v2, s2)
        BY <1>1, <1>4, <2>2 DEF Inputs, Lists
    <2>4. JoinSafe(u.type, alg, v1, s1, v2, s2)
        BY <1>4, <2>3 DEF JoinSafe, BiggerFirst
    <2>5. a = Joined(u.type, alg, v1, s1, v2, s2, behind)
        BY <2>1 DEF JoinAnswer
    <2>6. Joins(a, v1, s1, v2, s2)
        BY <1>2, <2>4, <2>5
    <2>7. Wanted(v1, s1, v2, s2) = WantedOf(u, v)
        <3>1. Wanted(v1, s1, v2, s2) = {<<s1[p[1]], s2[p[2]]>> : p \in Alike(v1, v2)}
            BY <2>3, WantedAlike
        <3> QED
            BY <3>1, <2>1, <1>4 DEF WantedOf
    <2>8. WantedOf(u, v) \subseteq Pair
        <3>1. ASSUME NEW z \in Wanted(v1, s1, v2, s2) PROVE z \in Pair
            <4>1. z \in PairsIn(v1, s1, v2, s2, 1..Len(v1), 1..Len(v2))
                BY <3>1 DEF Wanted
            <4>2. PICK i \in 1..Len(v1), j \in 1..Len(v2) : z = <<s1[i], s2[j]>>
                BY <4>1, PairsOf
            <4>3. s1[i] \in Int /\ s2[j] \in Int
                BY <1>1, <2>2, Ranged
            <4> QED
                BY <4>2, <4>3 DEF Pair
        <3> QED
            BY <3>1, <2>7
    <2> QED
        BY <2>6, <2>7, <2>8 DEF Joins
<1> QED
    BY <1>3, <1>4

\* What is wanted does not depend on which side is the bigger one.
LEMMA WantedTurned ==
    ASSUME NEW u, NEW v
    PROVE  {<<z[2], z[1]>> : z \in WantedOf(v, u)} = WantedOf(u, v)
<1> DEFINE A == {<<z[2], z[1]>> : z \in WantedOf(v, u)}
<1>1. ASSUME NEW z \in WantedOf(v, u) PROVE <<z[2], z[1]>> \in WantedOf(u, v)
    <2>1. PICK m \in Alike(v.means, u.means) : z = <<v.along[m[1]], u.along[m[2]]>>
        BY DEF WantedOf
    <2>2. <<m[2], m[1]>> \in Alike(u.means, v.means)
        BY DEF Alike
    <2> DEFINE q == <<m[2], m[1]>>
    <2>3. <<z[2], z[1]>> = <<u.along[q[1]], v.along[q[2]]>>
        BY <2>1
    <2> HIDE DEF q
    <2> QED
        BY <2>2, <2>3 DEF WantedOf, q
<1>2. ASSUME NEW y \in WantedOf(u, v) PROVE \E z \in WantedOf(v, u) : y = <<z[2], z[1]>>
    <2>1. PICK m \in Alike(u.means, v.means) : y = <<u.along[m[1]], v.along[m[2]]>>
        BY DEF WantedOf
    <2> DEFINE q == <<m[2], m[1]>>
               z == <<v.along[q[1]], u.along[q[2]]>>
    <2>2. q \in Alike(v.means, u.means)
        BY DEF Alike
    <2>3. y = <<z[2], z[1]>>
        BY <2>1
    <2>4. z \in WantedOf(v, u)
        <3> HIDE DEF q
        <3> QED
            BY <2>2 DEF WantedOf
    <2> HIDE DEF z
    <2> QED
        BY <2>3, <2>4
<1> QED
    BY <1>1, <1>2

-------------------------------------------------------------------------------
(* The inductive invariant *)

\* No table has a tree index: the invariant below is about those (the trees are
\* model-checked).
NoTree == IndexType \notin {"CLUSTER_BTREE", "UNCLUSTER_BTREE"}

\* The types, and columns of one length as the load left them.
Structure ==
    /\ \A t \in Sides : \A c \in Places : SortedColumn(columns[t][c]) /\ columns[t][c].size = columns[t][1].size
    /\ IndexType \in IndexTypes
    /\ sel \in [Sides -> SelType]
    /\ val \in [Sides -> ValType] /\ \A t \in Sides : ValTyped(val[t])
    /\ out.kind \in {"none", "empty", "scalar", "join"} /\ out.pairs \in Seq(Pair)
    /\ fault \in BOOLEAN /\ kept \in BOOLEAN /\ commands \in Nat

\* Every vector selects exactly.
SelsGood == \A t \in Sides : SelGood(columns[t][1].size, sel[t])
\* Every result is what it means.
ValsGood == \A t \in Sides : val[t].payload = val[t].means
\* Every vector errs at most next to its bounds.
NearsGood == \A t \in Sides : NearGood(columns[t], sel[t])
\* The last answer is right.
OutGood ==
    /\ out.kind = "join" => Lists(out.pairs, out.wanted)
    /\ out.kind = "scalar" => out.value = out.right
\* What holds while nothing went wrong, and what while the conditions are kept.
Meaning ==
    /\ kept => ~ fault
    /\ ~ fault => NearsGood
    /\ kept => SelsGood /\ ValsGood /\ OutGood

\* The inductive invariant.
QInv == Structure /\ Meaning

\* A step that changes one variable keeps the invariant if the new value is right.
LEMMA SelStep ==
    ASSUME QInv, ~ fault, NEW t \in Sides, NEW s, s \in SelType, NearGood(columns[t], s),
           kept' => kept /\ SelGood(columns[t][1].size, s), kept' => ~ fault',
           fault' \in BOOLEAN, kept' \in BOOLEAN, commands' \in Nat,
           sel' = [sel EXCEPT ![t] = s], UNCHANGED <<columns, val, out>>
    PROVE  QInv'
<1>1. sel \in [Sides -> SelType]
    BY DEF QInv, Structure
<1>2. sel' \in [Sides -> SelType] /\ sel'[t] = s /\ \A u \in Sides \ {t} : sel'[u] = sel[u]
    BY <1>1
<1>3. Structure'
    BY <1>2 DEF QInv, Structure, IndexType
<1>4. NearsGood'
    BY <1>2 DEF QInv, Meaning, NearsGood
<1>5. kept' => SelsGood'
    BY <1>2 DEF QInv, Meaning, SelsGood
<1>6. kept' => ValsGood' /\ OutGood'
    BY DEF QInv, Meaning, ValsGood, OutGood
<1> QED
    BY <1>3, <1>4, <1>5, <1>6 DEF QInv, Meaning

\* The same of a step that changes a result.
LEMMA ValStep ==
    ASSUME QInv, ~ fault, NEW t \in Sides, NEW v, ValTyped(v),
           kept' => kept /\ v.payload = v.means, kept' => ~ fault',
           fault' \in BOOLEAN, kept' \in BOOLEAN, commands' \in Nat,
           val' = [val EXCEPT ![t] = v], UNCHANGED <<columns, sel, out>>
    PROVE  QInv'
<1>1. val \in [Sides -> ValType] /\ v \in ValType
    BY DEF QInv, Structure, ValTyped
<1>2. val' \in [Sides -> ValType] /\ val'[t] = v /\ \A u \in Sides \ {t} : val'[u] = val[u]
    BY <1>1
<1>3. Structure'
    BY <1>2 DEF QInv, Structure, IndexType
<1>4. NearsGood'
    BY DEF QInv, Meaning, NearsGood
<1>5. kept' => ValsGood'
    BY <1>2 DEF QInv, Meaning, ValsGood
<1>6. kept' => SelsGood' /\ OutGood'
    BY DEF QInv, Meaning, SelsGood, OutGood
<1> QED
    BY <1>3, <1>4, <1>5, <1>6 DEF QInv, Meaning

\* The same of a step that answers.
LEMMA OutStep ==
    ASSUME QInv, ~ fault, NEW o, o.kind \in {"none", "empty", "scalar", "join"}, o.pairs \in Seq(Pair),
           kept' => /\ kept
                    /\ o.kind = "join" => Lists(o.pairs, o.wanted)
                    /\ o.kind = "scalar" => o.value = o.right,
           kept' => ~ fault', fault' \in BOOLEAN, kept' \in BOOLEAN, commands' \in Nat,
           out' = o, UNCHANGED <<columns, sel, val>>
    PROVE  QInv'
<1>1. Structure'
    BY DEF QInv, Structure, IndexType
<1>2. NearsGood'
    BY DEF QInv, Meaning, NearsGood
<1>3. kept' => OutGood'
    BY DEF OutGood
<1>4. kept' => SelsGood' /\ ValsGood'
    BY DEF QInv, Meaning, SelsGood, ValsGood
<1> QED
    BY <1>1, <1>2, <1>3, <1>4 DEF QInv, Meaning

\* A command begins only while the program runs.
LEMMA ReadyIs ==
    ASSUME QInv, NEW cost \in Nat, Ready(cost)
    PROVE  ~ fault /\ commands' \in Nat
BY DEF QInv, Structure, Ready

\* Of the two bounds of a select one is given.
LEMMA BoundsTyped ==
    ASSUME QInv, NEW b \in Bounds[IndexType]
    PROVE  b[1] \in Int /\ b[2] \in Int /\ (b[1] # INVALID_VAL \/ b[2] # INVALID_VAL)
<1>1. IndexType \in IndexTypes
    BY DEF QInv, Structure
<1>2. b \in (Int \X Int) \ {<<INVALID_VAL, INVALID_VAL>>}
    BY <1>1, QueryAssumption
<1>3. b = <<b[1], b[2]>> /\ b[1] \in Int /\ b[2] \in Int
    BY <1>2
<1> QED
    BY <1>2, <1>3

-------------------------------------------------------------------------------
(* The actions *)

\* select(column, lo, hi) keeps the invariant.
LEMMA SelectKeeps ==
    ASSUME QInv, NEW t \in Sides, NEW c \in Places, NEW lo \in Int, NEW hi \in Int,
           lo # INVALID_VAL \/ hi # INVALID_VAL, Select(t, c, lo, hi)
    PROVE  QInv'
<1>1. ~ fault /\ commands' \in Nat
    BY ReadyIs DEF Select
<1>2. PICK cols : cols = columns[t]
    OBVIOUS
<1>3. SortedColumn(cols[c]) /\ cols[c].size = cols[1].size
    BY <1>2, SMTT(60) DEF QInv, Structure
<1>4. PICK behind \in Junk :
          LET col == columns[t][c]
              a == IF col.index.type = "NONE" THEN Answered(Scan(AsPayload(col), lo, hi))
                   ELSE Answer(col.index, col.data, col.size, lo, hi, behind)
          IN  /\ sel' = [sel EXCEPT ![t] = [set |-> TRUE, positions |-> a.positions,
                                            rows |-> RowsWith(t, c, lo, hi), asked |-> <<c, lo, hi>>]]
              /\ Done(a.ok, col.index.type = "NONE" \/ IndexAnswers(col, lo, hi))
    BY ZenonT(60) DEF Select
<1>5. behind \in Int
    BY QueryAssumption
<1> DEFINE a == SelectAnswer(cols[c], lo, hi, behind)
           s == [set |-> TRUE, positions |-> a.positions, rows |-> Qualified(cols[c], lo, hi), asked |-> <<c, lo, hi>>]
           right == cols[c].index.type = "NONE" \/ IndexAnswers(cols[c], lo, hi)
<1>6. sel' = [sel EXCEPT ![t] = s] /\ Done(a.ok, right)
    BY <1>2, <1>4 DEF SelectAnswer, Qualified, RowsWith
<1>7. a.ok
    BY <1>3, <1>5, SelectRight
<1>8. s \in SelType /\ NearGood(cols, s) /\ (right => SelGood(cols[c].size, s))
    BY <1>3, <1>5, SelectedRight
<1>9. UNCHANGED <<columns, val, out>>
    BY DEF Select
<1> HIDE DEF s, a, right
<1>10. fault' = FALSE /\ kept' \in BOOLEAN /\ (kept' => kept /\ right)
    BY <1>6, <1>7 DEF Done
<1>11. NearGood(columns[t], s) /\ (kept' => kept /\ SelGood(columns[t][1].size, s))
    BY <1>2, <1>3, <1>8, <1>10
<1> QED
    BY <1>1, <1>6, <1>8, <1>9, <1>10, <1>11, SelStep

\* select(positions, values, lo, hi) keeps the invariant.
LEMMA SelectWithinKeeps ==
    ASSUME QInv, NEW t \in Sides, NEW lo \in Int, NEW hi \in Int, SelectWithin(t, lo, hi)
    PROVE  QInv'
<1>1. ~ fault /\ commands' \in Nat
    BY ReadyIs DEF SelectWithin
<1>2. PICK s : s = sel[t]
    OBVIOUS
<1>3. PICK v : v = val[t]
    OBVIOUS
<1>4. s \in SelType /\ ValTyped(v)
    BY <1>2, <1>3 DEF QInv, Structure
<1>5. PICK behind \in Junk :
          sel' = [sel EXCEPT ![t] =
               [set |-> TRUE,
                positions |-> Composed(@.positions, Scan(val[t].payload, lo, hi), behind),
                rows |-> {val[t].along[k] : k \in {j \in DOMAIN val[t].means : InRange(val[t].means[j], lo, hi)}},
                asked |-> <<0, lo, hi>>]]
    BY DEF SelectWithin
<1>6. behind \in Int
    BY QueryAssumption
<1> DEFINE u == [set |-> TRUE, positions |-> Composed(s.positions, Scan(v.payload, lo, hi), behind),
                 rows |-> {v.along[k] : k \in {j \in DOMAIN v.means : InRange(v.means[j], lo, hi)}},
                 asked |-> <<0, lo, hi>>]
<1>7. sel' = [sel EXCEPT ![t] = u]
    BY <1>2, <1>3, <1>5
<1>8. UNCHANGED <<columns, val, out>> /\ Done(TRUE, Aligned(t))
    BY DEF SelectWithin
<1>9. u \in SelType /\ u.asked[1] = 0
    BY <1>4, <1>6, WithinType
<1>10. fault' = FALSE /\ kept' \in BOOLEAN /\ (kept' => kept /\ v.along = s.positions)
    BY <1>2, <1>3, <1>8 DEF Done, Aligned
<1>11. PICK size : size = columns[t][1].size
    OBVIOUS
<1>12. kept' => SelGood(size, s) /\ v.payload = v.means
    BY <1>2, <1>3, <1>10, <1>11 DEF QInv, Meaning, SelsGood, ValsGood
<1>13. kept' => SelGood(size, u)
    BY <1>4, <1>6, <1>10, <1>12, WithinRight
<1> HIDE DEF u
<1>14. NearGood(columns[t], u) /\ (kept' => kept /\ SelGood(columns[t][1].size, u))
    BY <1>9, <1>10, <1>11, <1>13 DEF NearGood
<1> QED
    BY <1>1, <1>7, <1>8, <1>9, <1>10, <1>14, SelStep

\* A fetch from a column along any positions keeps the invariant.
LEMMA FetchedKeeps ==
    ASSUME QInv, ~ fault, commands' \in Nat, NEW t \in Sides, NEW c \in Places, NEW positions \in Seq(Int),
           FetchedAlong(t, c, positions), UNCHANGED <<columns, sel, out>>
    PROVE  QInv'
<1>1. PICK col : col = columns[t][c]
    OBVIOUS
<1>2. SortedColumn(col)
    BY <1>1 DEF QInv, Structure
<1>3. PICK behind \in Junk :
          val' = [val EXCEPT ![t] =
              [set |-> TRUE, type |-> "INT", along |-> positions,
               payload |-> [k \in DOMAIN positions |-> Cell(col.data, positions[k], behind)],
               means |-> [k \in DOMAIN positions |-> Cell(col.data, positions[k], 0)]]]
    BY <1>1 DEF FetchedAlong
<1>4. behind \in Int
    BY QueryAssumption
<1> DEFINE v == [set |-> TRUE, type |-> "INT", along |-> positions,
                 payload |-> [k \in DOMAIN positions |-> Cell(col.data, positions[k], behind)],
                 means |-> [k \in DOMAIN positions |-> Cell(col.data, positions[k], 0)]]
           inside == \A k \in DOMAIN positions : positions[k] \in Cells(col.size)
<1>5. val' = [val EXCEPT ![t] = v]
    BY <1>3
<1>6. ValTyped(v) /\ (inside => v.payload = v.means)
    BY <1>2, <1>4, FetchRight
<1>7. Done(TRUE, inside)
    BY <1>1 DEF FetchedAlong
<1> HIDE DEF v, inside
<1>8. fault' = FALSE /\ kept' \in BOOLEAN /\ (kept' => kept /\ v.payload = v.means)
    BY <1>6, <1>7 DEF Done
<1> QED
    BY <1>5, <1>6, <1>8, ValStep

\* fetch along a position vector keeps the invariant, of whichever table that is.
LEMMA FetchKeeps ==
    ASSUME QInv, NEW t \in Sides, NEW from \in Sides, NEW c \in Places, Fetch(t, c, from)
    PROVE  QInv'
<1>1. ~ fault /\ commands' \in Nat
    BY ReadyIs DEF Fetch
<1>2. PICK positions : positions = sel[from].positions
    OBVIOUS
<1>3. positions \in Seq(Int)
    BY <1>2 DEF QInv, Structure, SelType
<1>4. FetchedAlong(t, c, positions) /\ UNCHANGED <<columns, sel, out>>
    BY <1>2 DEF Fetch
<1> QED
    BY <1>1, <1>3, <1>4, FetchedKeeps

\* fetch along the answer of a join keeps the invariant.
LEMMA FetchJoinedKeeps ==
    ASSUME QInv, NEW t \in Sides, NEW c \in Places, FetchJoined(t, c)
    PROVE  QInv'
<1>1. ~ fault /\ commands' \in Nat
    BY ReadyIs DEF FetchJoined
<1>2. PICK pairs : pairs = out.pairs
    OBVIOUS
<1>3. pairs \in Seq(Pair)
    BY <1>2 DEF QInv, Structure
<1>4. PICK positions : positions = [k \in DOMAIN pairs |-> pairs[k][t]]
    OBVIOUS
<1>5. positions \in Seq(Int)
    <2>1. Len(pairs) \in Nat /\ DOMAIN pairs = 1..Len(pairs) /\ \A k \in 1..Len(pairs) : pairs[k] \in Pair
        BY <1>3, LenProperties, ElementOfSeq
    <2>2. \A k \in 1..Len(pairs) : pairs[k][t] \in Int
        BY <2>1 DEF Pair, Sides
    <2>3. positions = [k \in 1..Len(pairs) |-> pairs[k][t]]
        BY <1>4, <2>1
    <2> QED
        BY <2>1, <2>2, <2>3
<1>6. FetchedAlong(t, c, positions) /\ UNCHANGED <<columns, sel, out>>
    BY <1>2, <1>4 DEF FetchJoined
<1> QED
    BY <1>1, <1>5, <1>6, FetchedKeeps

\* fetch from a result keeps the invariant.
LEMMA FetchResultKeeps ==
    ASSUME QInv, NEW t \in Sides, FetchResult(t)
    PROVE  QInv'
<1>1. ~ fault /\ commands' \in Nat
    BY ReadyIs DEF FetchResult
<1>2. PICK v : v = val[t]
    OBVIOUS
<1>3. PICK p : p = sel[t].positions
    OBVIOUS
<1>4. ValTyped(v) /\ p \in Seq(Int)
    BY <1>2, <1>3 DEF QInv, Structure, SelType
<1>5. PICK behind \in Junk :
          val' = [val EXCEPT ![t] =
              [@ EXCEPT !.payload = [k \in DOMAIN p |-> IF k <= Len(v.payload) THEN At(v.payload, p[k] + 1, behind) ELSE 0],
                        !.along = [k \in DOMAIN p |-> At(v.along, p[k] + 1, 0)],
                        !.means = [k \in DOMAIN p |-> At(v.means, p[k] + 1, 0)]]]
    BY <1>2, <1>3, ZenonT(40) DEF FetchResult
<1>6. behind \in Int
    BY QueryAssumption
<1> DEFINE u == [v EXCEPT !.payload = [k \in DOMAIN p |-> IF k <= Len(v.payload) THEN At(v.payload, p[k] + 1, behind) ELSE 0],
                          !.along = [k \in DOMAIN p |-> At(v.along, p[k] + 1, 0)],
                          !.means = [k \in DOMAIN p |-> At(v.means, p[k] + 1, 0)]]
           right == Len(v.payload) = Len(p) /\ \A k \in DOMAIN p : p[k] \in Cells(Len(v.payload))
<1>7. val' = [val EXCEPT ![t] = u]
    BY <1>2, <1>5
<1>8. ValTyped(u) /\ (v.payload = v.means /\ right => u.payload = u.means)
    BY <1>4, <1>6, FetchResultRight, ZenonT(40)
<1>9. UNCHANGED <<columns, sel, out>> /\ Done(Len(v.payload) <= Len(p), right)
    BY <1>2, <1>3 DEF FetchResult
<1>10. Len(v.payload) \in Nat /\ Len(p) \in Nat /\ (right => Len(v.payload) <= Len(p))
    <2>1. v.payload \in Seq(Int)
        BY <1>4 DEF ValTyped, ValType
    <2> QED
        BY <2>1, <1>4, Ranged
<1> HIDE DEF u, right
<1>11. fault' \in BOOLEAN /\ kept' \in BOOLEAN /\ (kept' => kept /\ right) /\ (kept' => ~ fault')
    BY <1>9, <1>10 DEF Done
<1>12. kept' => kept /\ u.payload = u.means
    BY <1>2, <1>8, <1>11 DEF QInv, Meaning, ValsGood
<1> QED
    BY <1>1, <1>7, <1>8, <1>9, <1>11, <1>12, ValStep

\* A result without data has as many values as rows: none.
LEMMA NoResultTyped == ValTyped(NoResult)
<1>1. << >> \in Seq(Int)
    BY EmptySeq
<1> QED
    BY <1>1 DEF NoResult, ValTyped, ValType

\* add and sub keep the invariant.
LEMMA ArithmeticKeeps ==
    ASSUME QInv, NEW t \in Sides, NEW op, NEW x \in Operands, NEW y \in Operands, Arithmetic(t, op, x, y)
    PROVE  QInv'
<1>1. ~ fault /\ commands' \in Nat
    BY ReadyIs DEF Arithmetic
<1>2. PICK v : v = val[t]
    OBVIOUS
<1>3. PICK cols : cols = columns[t]
    OBVIOUS
<1>4. ValTyped(v) /\ \A c \in Places : SortedColumn(cols[c])
    BY <1>2, <1>3 DEF QInv, Structure
<1>5. PICK a : a = OperandOf(cols, v, x)
    OBVIOUS
<1>6. PICK other : other = OperandOf(cols, v, y)
    OBVIOUS
<1>7. /\ ValTyped(a) /\ (v.payload = v.means => a.payload = a.means)
      /\ ValTyped(other) /\ (v.payload = v.means => other.payload = other.means)
    BY <1>4, <1>5, <1>6, OperandRight
<1>8. a = Operand(t, x) /\ other = Operand(t, y)
    BY <1>2, <1>3, <1>5, <1>6 DEF Operand, OperandOf
<1> DEFINE b == IF y = 0 THEN other ELSE a
           n == Len(a.payload)
           same == n = Len(other.payload)
           u == [set |-> TRUE, type |-> "LONG", along |-> a.along, payload |-> Calculated(op, a, b),
                 means |-> CalculatedMeans(op, a, other)]
           w == IF ~ same THEN NoResult ELSE u
           ok == same => /\ ~ (x = 0 /\ y # 0)
                         /\ op = "SUB" /\ n > 0 => a.type = b.type
           right == /\ same
                    /\ y # 0 => x = y
                    /\ op = "SUB" /\ n > 0 => a.type = b.type
                    /\ a.type = "INT" /\ b.type = "INT" =>
                           \A k \in 1..n : FitsInt(Applied(op, a.means[k], b.means[k]))
<1>9. val' = [val EXCEPT ![t] = w] /\ Done(ok, right) /\ UNCHANGED <<columns, sel, out>>
    BY <1>8 DEF Arithmetic, CalculatedMeans
<1>10. same => ValTyped(u)
    BY <1>7, CalculatedRight
<1>11. right => b = other
    BY <1>5, <1>6
<1>12. right /\ v.payload = v.means => same /\ u.payload = u.means
    <2> SUFFICES ASSUME right, v.payload = v.means PROVE same /\ u.payload = u.means
        OBVIOUS
    <2>1. a.payload = a.means /\ other.payload = other.means
        BY <1>7
    <2>2. Len(a.payload) = Len(other.payload) /\ b = other
        BY <1>11
    <2>3. a.type = "INT" /\ b.type = "INT" =>
              \A k \in 1..Len(a.payload) : FitsInt(Applied(op, a.means[k], b.means[k]))
        OBVIOUS
    <2> HIDE DEF b
    <2>4. PICK c : c = b
        OBVIOUS
    <2>5. PICK z : z = [set |-> TRUE, type |-> "LONG", along |-> a.along, payload |-> Calculated(op, a, c),
                        means |-> CalculatedMeans(op, a, other)]
        OBVIOUS
    <2>6. same
        OBVIOUS
    <2>7. u = z
        BY <2>4, <2>5
    <2> HIDE DEF u, right, ok, same, n, w
    <2>8. a.type = "INT" /\ c.type = "INT" =>
              \A k \in 1..Len(a.payload) : FitsInt(Applied(op, a.means[k], c.means[k]))
        BY <2>3, <2>4
    <2>9. c = other /\ ValTyped(a) /\ ValTyped(other)
        BY <1>7, <2>2, <2>4
    <2>10. z.payload = z.means
        BY <2>1, <2>2, <2>5, <2>9, <2>8, CalculatedExact
    <2> QED
        BY <2>10, <2>7, <2>6
<1>13. right => ok
    OBVIOUS
<1>14. ok \in BOOLEAN /\ right \in BOOLEAN
    OBVIOUS
<1> HIDE DEF u, right, ok, same
<1>15. ValTyped(w)
    BY <1>10, NoResultTyped
<1>16. fault' \in BOOLEAN /\ kept' \in BOOLEAN /\ (kept' => kept /\ right) /\ (kept' => ~ fault')
    BY <1>9, <1>13, <1>14 DEF Done
<1>17. kept' => kept /\ w.payload = w.means
    <2>1. kept => v.payload = v.means
        BY <1>2 DEF QInv, Meaning, ValsGood
    <2> QED
        BY <1>12, <1>16, <2>1
<1> HIDE DEF w
<1> QED
    BY <1>1, <1>9, <1>15, <1>16, <1>17, ValStep

\* sum, avg, min and max keep the invariant.
LEMMA ScalarKeeps ==
    ASSUME QInv, NEW t \in Sides, NEW op \in {"SUM", "AVG", "MIN", "MAX"}, NEW x \in Operands, Scalar(t, op, x)
    PROVE  QInv'
<1>1. ~ fault /\ commands' \in Nat
    BY ReadyIs DEF Scalar
<1>2. PICK v : v = val[t]
    OBVIOUS
<1>3. PICK cols : cols = columns[t]
    OBVIOUS
<1>4. ValTyped(v) /\ \A c \in Places : SortedColumn(cols[c])
    BY <1>2, <1>3 DEF QInv, Structure
<1>5. PICK a : a = OperandOf(cols, v, x)
    OBVIOUS
<1>6. ValTyped(a) /\ (v.payload = v.means => a.payload = a.means)
    BY <1>4, <1>5, OperandRight
<1>7. a = Operand(t, x)
    BY <1>2, <1>3, <1>5 DEF Operand, OperandOf
<1> DEFINE values == ValuesOf(a.means)
           empty == [NoAnswer EXCEPT !.kind = "empty", !.op = op]
           scalar == [NoAnswer EXCEPT !.kind = "scalar", !.op = op, !.value = Aggregate(op, a.payload),
                                      !.right = TrueAggregate(op, a.means)]
           o == IF a.payload = << >> THEN empty ELSE scalar
           right == a.means # << >> => /\ op = "MIN" => \E w \in values : w <= 0
                                       /\ op = "MAX" => \E w \in values : w >= 0
<1>8. out' = o /\ Done(TRUE, right) /\ UNCHANGED <<columns, sel, val>>
    BY <1>7 DEF Scalar
<1>9. a.means \in Seq(Int) /\ << >> \in Seq(Pair)
    BY <1>6, EmptySeq DEF ValTyped, ValType
<1>10. /\ empty.kind = "empty" /\ empty.pairs = << >>
       /\ scalar.kind = "scalar" /\ scalar.pairs = << >>
       /\ scalar.value = Aggregate(op, a.payload) /\ scalar.right = TrueAggregate(op, a.means)
    BY DEF NoAnswer
<1>11. right /\ a.payload = a.means /\ a.payload # << >> => Aggregate(op, a.payload) = TrueAggregate(op, a.means)
    BY <1>9, AggregateRight
<1>12. right \in BOOLEAN
    OBVIOUS
<1> HIDE DEF right, empty, scalar
<1>13. fault' = FALSE /\ kept' \in BOOLEAN /\ (kept' => kept /\ right)
    BY <1>8 DEF Done
<1>14. kept => a.payload = a.means
    BY <1>2, <1>6 DEF QInv, Meaning, ValsGood
<1>15. /\ o.kind \in {"none", "empty", "scalar", "join"} /\ o.pairs \in Seq(Pair) /\ o.kind # "join"
       /\ kept' => (o.kind = "scalar" => o.value = o.right)
    <2>1. CASE a.payload = << >>
        BY <2>1, <1>9, <1>10
    <2>2. CASE a.payload # << >>
        BY <2>2, <1>9, <1>10, <1>11, <1>13, <1>14
    <2> QED
        BY <2>1, <2>2
<1> HIDE DEF o
<1>16. kept' => /\ kept
                /\ o.kind = "join" => Lists(o.pairs, o.wanted)
                /\ o.kind = "scalar" => o.value = o.right
    BY <1>13, <1>15
<1>17. o.kind \in {"none", "empty", "scalar", "join"} /\ o.pairs \in Seq(Pair)
    BY <1>15
<1>18. (kept' => ~ fault') /\ fault' \in BOOLEAN /\ kept' \in BOOLEAN
    BY <1>13
<1>19. out' = o /\ UNCHANGED <<columns, sel, val>>
    BY <1>8
<1> QED
    BY <1>1, <1>16, <1>17, <1>18, <1>19, OutStep

\* join keeps the invariant, by whichever algorithm.
LEMMA JoinKeeps ==
    ASSUME QInv, NEW alg \in Algorithms, Join(alg)
    PROVE  QInv'
<1>1. ~ fault /\ commands' \in Nat
    BY ReadyIs, ZenonT(60) DEF Join
<1>2. PICK u1, u2 : u1 = val[1] /\ u2 = val[2]
    OBVIOUS
<1>3. PICK s1, s2 : s1 = sel[1] /\ s2 = sel[2]
    OBVIOUS
<1>4. s1 \in SelType /\ s2 \in SelType /\ ValTyped(u1) /\ ValTyped(u2)
    BY <1>2, <1>3 DEF QInv, Structure, Sides
<1>5. kept => /\ u1.payload = u1.means /\ u2.payload = u2.means
              /\ Lists(s1.positions, s1.rows) /\ Lists(s2.positions, s2.rows)
    BY <1>2, <1>3 DEF QInv, Meaning, ValsGood, SelsGood, SelGood, Sides
<1>6. Len(s1.positions) \in Nat /\ Len(s2.positions) \in Nat
    BY <1>4, Ranged, SMTT(60) DEF SelType
<1> DEFINE first == Len(s1.positions) > Len(s2.positions)
<1>7. UNCHANGED <<columns, sel, val>>
    BY ZenonT(60) DEF Join
<1> DEFINE t1 == IF Len(sel[1].positions) > Len(sel[2].positions) THEN 1 ELSE 2
           t2 == 3 - t1
           turned(p) == IF t1 = 1 THEN p ELSE Turned(p)
           said(behind) == IF val[1].type # val[2].type THEN Lost
                           ELSE Joined(val[1].type, alg, val[t1].payload, sel[t1].positions,
                                       val[t2].payload, sel[t2].positions, behind)
           safe == /\ Aligned(1) /\ Aligned(2)
                   /\ val[1].type = val[2].type
                   /\ val[1].type = "LONG" => alg = "nested-loop"
                   /\ val[1].type = "INT" => JoinKept(alg, val[t1].means, val[t2].means)
                   /\ alg = "grace-join" => GraceKept(val[t1].means, sel[t1].positions,
                                                      val[t2].means, sel[t2].positions)
<1>8. PICK behind \in Junk :
          /\ out' = [NoAnswer EXCEPT !.kind = "join", !.op = alg, !.pairs = turned(said(behind).pairs),
                     !.wanted = WantedOf(val[1], val[2])]
          /\ Done(said(behind).ok, safe)
    BY ZenonT(60) DEF Join, WantedOf, Turned
<1>9. first => /\ said(behind) = JoinAnswer(alg, u1, s1, u2, s2, behind)
               /\ t1 = 1 /\ (safe <=> BiggerFirst(alg, u1, s1, u2, s2))
    BY <1>2, <1>3 DEF JoinAnswer, Aligned, BiggerFirst
<1>10. ~ first => /\ said(behind) = JoinAnswer(alg, u2, s2, u1, s1, behind)
                  /\ t1 = 2 /\ (safe <=> BiggerFirst(alg, u2, s2, u1, s1))
    BY <1>2, <1>3 DEF JoinAnswer, Aligned, BiggerFirst
<1>11. behind \in Int
    BY QueryAssumption
<1>12. PICK a : a = said(behind)
    OBVIOUS
<1>13. PICK p : p = turned(a.pairs)
    OBVIOUS
<1>14. PICK o : o = [NoAnswer EXCEPT !.kind = "join", !.op = alg, !.pairs = p, !.wanted = WantedOf(u1, u2)]
    BY SMTT(60)
<1>15. out' = o /\ Done(a.ok, safe)
    BY <1>2, <1>8, <1>12, <1>13, <1>14, ZenonT(60)
<1>16. o.kind = "join" /\ o.pairs = p /\ o.wanted = WantedOf(u1, u2)
    BY <1>14 DEF NoAnswer
<1> HIDE DEF safe, said
<1>17. /\ IsAnswer(a) /\ p \in Seq(Pair)
       /\ kept /\ safe => a.ok /\ Lists(p, WantedOf(u1, u2))
    <2>1. CASE first
        <3>1. a = JoinAnswer(alg, u1, s1, u2, s2, behind) /\ p = a.pairs
            BY <2>1, <1>9, <1>12, <1>13
        <3>2. Len(s2.positions) <= Len(s1.positions)
            BY <2>1, <1>6
        <3>3. IsAnswer(a)
            BY <3>1, <1>4, <1>11, JoinAnswerRight
        <3>4. kept /\ BiggerFirst(alg, u1, s1, u2, s2) => a.ok /\ Lists(p, WantedOf(u1, u2))
            BY <3>1, <3>2, <1>4, <1>5, <1>11, JoinAnswerRight
        <3> QED
            BY <2>1, <3>1, <3>3, <3>4, <1>9 DEF IsAnswer
    <2>2. CASE ~ first
        <3>1. a = JoinAnswer(alg, u2, s2, u1, s1, behind) /\ p = Turned(a.pairs)
            BY <2>2, <1>10, <1>12, <1>13
        <3>2. Len(s1.positions) <= Len(s2.positions)
            BY <2>2, <1>6
        <3>3. IsAnswer(a)
            BY <3>1, <1>4, <1>11, JoinAnswerRight
        <3>4. kept /\ BiggerFirst(alg, u2, s2, u1, s1) =>
                  a.ok /\ Lists(a.pairs, WantedOf(u2, u1)) /\ WantedOf(u2, u1) \subseteq Pair
            BY <3>1, <3>2, <1>4, <1>5, <1>11, JoinAnswerRight
        <3>5. p \in Seq(Pair)
            BY <3>1, <3>3, TurnedRight DEF IsAnswer
        <3>6. Lists(a.pairs, WantedOf(u2, u1)) /\ WantedOf(u2, u1) \subseteq Pair => Lists(p, WantedOf(u1, u2))
            <4>1. Lists(a.pairs, WantedOf(u2, u1)) /\ WantedOf(u2, u1) \subseteq Pair =>
                      Lists(Turned(a.pairs), {<<z[2], z[1]>> : z \in WantedOf(u2, u1)})
                BY <3>3, TurnedRight DEF IsAnswer
            <4> QED
                BY <3>1, <4>1, WantedTurned
        <3> QED
            BY <2>2, <3>3, <3>4, <3>5, <3>6, <1>10
    <2> QED
        BY <2>1, <2>2
<1>18. fault' \in BOOLEAN /\ kept' \in BOOLEAN /\ (kept' => kept /\ safe) /\ (kept' => ~ fault')
    <2>1. a.ok \in BOOLEAN /\ fault' = ~ a.ok /\ kept' = (kept /\ safe)
        BY <1>15, <1>17 DEF Done, IsAnswer
    <2> QED
        BY <2>1, <1>17
<1>19. kept' => /\ kept
                /\ o.kind = "join" => Lists(o.pairs, o.wanted)
                /\ o.kind = "scalar" => o.value = o.right
    BY <1>16, <1>17, <1>18
<1>20. o.kind \in {"none", "empty", "scalar", "join"} /\ o.pairs \in Seq(Pair)
    BY <1>16, <1>17
<1> QED
    BY <1>1, <1>7, <1>15, <1>18, <1>19, <1>20, OutStep

-------------------------------------------------------------------------------
(* Init and Next *)

\* A column that is loaded has the index that was asked for.
LEMMA LoadedType ==
    ASSUME NEW rows, NEW type \in ClusteredTypes \union UnclusteredTypes \union {"NONE"}, NEW behind
    PROVE  Loaded(rows, type, behind)[1].index.type = type
<1> DEFINE n == Len(rows)
           col(c) == [i \in Cells(n) |-> rows[i + 1][c]]
           order == SortedPositions(SortUnits(col(1), n))
           data(c) == IF type \in ClusteredTypes THEN [i \in Cells(n) |-> col(c)[order[i]]] ELSE col(c)
           index(c) == IF c = 2 \/ type = "NONE" THEN NewIndex("NONE")
                       ELSE IF type \in ClusteredTypes
                       THEN BuildClustered(NewIndex(type), data(1), n, behind)
                       ELSE BuildUnclustered(NewIndex(type), data(1), n)
           cols == Loaded(rows, type, behind)
<1>1. cols = [c \in Places |-> [data |-> data(c), size |-> n, index |-> index(c)]]
    BY Zenon DEF Loaded
<1>2. 1 \in Places
    BY DEF Places
<1> HIDE DEF cols, data, n
<1>3. \A idx, t : idx.type = type /\ DOMAIN idx = DOMAIN NewIndex(type) => WithTree(idx, t).type = type
    BY DEF WithTree, NewIndex
<1>4. NewIndex(type).type = type /\ [NewIndex(type) EXCEPT !.built = TRUE].type = type
      /\ DOMAIN [NewIndex(type) EXCEPT !.built = TRUE] = DOMAIN NewIndex(type)
    BY DEF NewIndex
<1>5. \A d, m, b : BuildClustered(NewIndex(type), d, m, b).type = type
    <2>1. \A m : [NewIndex(type) EXCEPT !.built = TRUE, !.room = m].type = type
        BY DEF NewIndex
    <2> QED
        BY <1>3, <1>4, <2>1 DEF BuildClustered
<1>6. \A d, m : BuildUnclustered(NewIndex(type), d, m).type = type
    <2>1. \A m, c, p : [NewIndex(type) EXCEPT !.built = TRUE, !.room = m, !.copy = c, !.positions = p].type = type
        BY DEF NewIndex
    <2> QED
        BY <1>3, <1>4, <2>1 DEF BuildUnclustered
<1>7. index(1).type = type
    BY <1>4, <1>5, <1>6
<1> HIDE DEF index
<1> QED
    BY <1>1, <1>2, <1>7 DEF cols

\* The vector of a client that asked nothing.
LEMMA NothingSelected == NoSelection \in SelType /\ NoSelection.asked[1] = 0 /\ \A size : SelGood(size, NoSelection)
<1>1. << >> \in Seq(Int)
    BY EmptySeq
<1> QED
    BY <1>1, InvalidAssumption, ListsNothing DEF NoSelection, SelType, SelGood

\* The invariant holds after the load.
LEMMA QInit == Init /\ NoTree => QInv
<1> SUFFICES ASSUME Init, NoTree PROVE QInv
    OBVIOUS
<1>0. PICK type \in IndexTypes, behind \in Junk : \E tables \in Tables[type] :
          columns = <<Loaded(tables[1], type, behind), Loaded(tables[2], "NONE", behind)>>
    BY DEF Init
<1>1. PICK tables \in Tables[type] :
          columns = <<Loaded(tables[1], type, behind), Loaded(tables[2], "NONE", behind)>>
    BY <1>0
<1>2. tables[1] \in Seq(Int \X Int) /\ tables[2] \in Seq(Int \X Int) /\ (type # "NONE" => tables[1] # << >>)
    BY QueryAssumption DEF Sides
<1>3. type \in ClusteredTypes \union UnclusteredTypes \union {"NONE"}
    BY QueryAssumption
<1>4. columns[1] = Loaded(tables[1], type, behind) /\ columns[2] = Loaded(tables[2], "NONE", behind)
    BY <1>1
<1>5. IndexType = type
    BY <1>3, <1>4, LoadedType DEF IndexType
<1>6. type \in SortTypes \union {"NONE"} /\ (type \in SortTypes => tables[1] # << >>)
      /\ "NONE" \in SortTypes \union {"NONE"} /\ "NONE" \notin SortTypes
    BY <1>2, <1>3, <1>5 DEF NoTree, SortTypes, ClusteredTypes, UnclusteredTypes
<1>7. \A c \in Places : SortedColumn(columns[1][c]) /\ columns[1][c].size = Len(tables[1])
    BY <1>2, <1>4, <1>6, LoadedSorted
<1>8. \A c \in Places : SortedColumn(columns[2][c]) /\ columns[2][c].size = Len(tables[2])
    BY <1>2, <1>4, <1>6, LoadedSorted
<1>9. \A t \in Sides : \A c \in Places : SortedColumn(columns[t][c]) /\ columns[t][c].size = columns[t][1].size
    BY <1>7, <1>8 DEF Sides, Places
<1>10. sel \in [Sides -> SelType] /\ \A t \in Sides : sel[t] = NoSelection
    BY NothingSelected DEF Init
<1>11. NoResult \in ValType
    BY NoResultTyped DEF ValTyped
<1>12. val \in [Sides -> ValType] /\ \A t \in Sides : val[t] = NoResult
    BY <1>11 DEF Init
<1>13. << >> \in Seq(Pair)
    BY EmptySeq
<1>14. out.kind = "none" /\ out.pairs = << >>
    BY DEF Init, NoAnswer
<1>15. fault = FALSE /\ kept = TRUE /\ commands = 0
    BY DEF Init
<1>16. Structure
    BY <1>1, <1>5, <1>9, <1>10, <1>12, <1>13, <1>14, <1>15, NoResultTyped DEF Structure
<1>17. Meaning
    <2>1. SelsGood /\ NearsGood
        BY <1>10, NothingSelected DEF SelsGood, NearsGood, NearGood
    <2>2. ValsGood
        BY <1>12 DEF ValsGood, NoResult
    <2>3. OutGood
        BY <1>14 DEF OutGood
    <2> QED
        BY <1>15, <2>1, <2>2, <2>3 DEF Meaning
<1> QED
    BY <1>16, <1>17 DEF QInv

\* Every command keeps the invariant.
LEMMA QNext == QInv /\ [Next]_vars => QInv'
<1> SUFFICES ASSUME QInv, [Next]_vars PROVE QInv'
    OBVIOUS
<1>1. ASSUME NEW t \in Sides, NEW c \in Places, NEW b \in Bounds[IndexType], Select(t, c, b[1], b[2]) PROVE QInv'
    BY <1>1, BoundsTyped, SelectKeeps
<1>2. ASSUME NEW t \in Sides, NEW b \in Bounds[IndexType], SelectWithin(t, b[1], b[2]) PROVE QInv'
    BY <1>2, BoundsTyped, SelectWithinKeeps
<1>3. ASSUME NEW t \in Sides, NEW from \in Sides, NEW c \in Places, Fetch(t, c, from) PROVE QInv'
    BY <1>3, FetchKeeps
<1>4. ASSUME NEW t \in Sides, NEW c \in Places, FetchJoined(t, c) PROVE QInv'
    BY <1>4, FetchJoinedKeeps
<1>5. ASSUME NEW t \in Sides, FetchResult(t) PROVE QInv'
    BY <1>5, FetchResultKeeps
<1>6. ASSUME NEW t \in Sides, NEW s \in Sums, Arithmetic(t, s[1], s[2], s[3]) PROVE QInv'
    <2>1. s[2] \in Operands /\ s[3] \in Operands
        BY QueryAssumption
    <2> QED
        BY <1>6, <2>1, ArithmeticKeeps
<1>7. ASSUME NEW t \in Sides, NEW a \in Aggregates, Scalar(t, a[1], a[2]) PROVE QInv'
    <2>1. a[1] \in {"SUM", "AVG", "MIN", "MAX"} /\ a[2] \in Operands
        BY QueryAssumption
    <2> QED
        BY <1>7, <2>1, ScalarKeeps
<1>8. ASSUME NEW alg \in {"nested-loop", "hash", "sort-merge", "grace-join"}, Join(alg) PROVE QInv'
    BY <1>8, JoinKeeps DEF Algorithms
<1>9. CASE UNCHANGED vars
    <2>1. UNCHANGED <<columns, sel, val, out, fault, kept, commands>>
        BY <1>9 DEF vars
    <2>2. Structure'
        BY <2>1 DEF QInv, Structure, IndexType
    <2>3. Meaning'
        BY <2>1 DEF QInv, Meaning, SelsGood, ValsGood, NearsGood, OutGood
    <2> QED
        BY <2>2, <2>3 DEF QInv
<1>10. CASE Next
    BY <1>10, <1>1, <1>2, <1>3, <1>4, <1>5, <1>6, <1>7, <1>8 DEF Next
<1> QED
    BY <1>9, <1>10

\* No command changes an index.
LEMMA NoTreeKept == [Next]_vars => NoTree' = NoTree
<1> SUFFICES ASSUME [Next]_vars PROVE columns' = columns
    BY DEF NoTree, IndexType
<1>1. CASE Next
    BY <1>1, ZenonT(40) DEF Next, Select, SelectWithin, Fetch, FetchJoined, FetchResult, Arithmetic, Scalar, Join
<1>2. CASE UNCHANGED vars
    BY <1>2 DEF vars
<1> QED
    BY <1>1, <1>2

\* The invariant always holds of tables without a tree.
THEOREM QueryInvariance == Spec => [](NoTree => QInv)
<1>1. Init => (NoTree => QInv)
    BY QInit
<1>2. (NoTree => QInv) /\ [Next]_vars => (NoTree => QInv)'
    BY QNext, NoTreeKept
<1> QED
    BY <1>1, <1>2, PTL DEF Spec

-------------------------------------------------------------------------------
(* The properties *)

\* The invariant gives the types.
LEMMA TypesFollow == QInv => TypeOK
<1> SUFFICES ASSUME QInv PROVE TypeOK
    OBVIOUS
<1>1. \A t \in Sides : sel[t].positions \in Seq(Int) /\ sel[t].rows \subseteq Int
    BY DEF QInv, Structure, SelType
<1>2. \A t \in Sides : ValueTypeOK(val[t])
    BY DEF QInv, Structure, ValType, ValueTypeOK
<1>3. ASSUME kept, NEW t \in Sides PROVE ValuesOf(sel[t].positions) \subseteq Cells(columns[t][1].size)
    <2>1. SelGood(columns[t][1].size, sel[t])
        BY <1>3 DEF QInv, Meaning, SelsGood
    <2>2. PICK positions, rows, size :
              positions = sel[t].positions /\ rows = sel[t].rows /\ size = columns[t][1].size
        OBVIOUS
    <2>3. Lists(positions, rows) /\ rows \subseteq Cells(size)
        BY <2>1, <2>2 DEF SelGood
    <2>4. ValuesOf(positions) = rows
        BY <2>3, ListsExactly DEF Exactly
    <2> QED
        BY <2>2, <2>3, <2>4
<1>4. out.pairs \in Seq(Int \X Int) /\ out.kind \in {"none", "empty", "scalar", "join"}
      /\ fault \in BOOLEAN /\ kept \in BOOLEAN /\ commands \in Nat
    BY DEF QInv, Structure, Pair
<1> QED
    BY <1>1, <1>2, <1>3, <1>4 DEF TypeOK

\* The vectors, results and answers have their types, and while the conditions
\* are kept every position of a vector is a row of its table (db_select, db_fetch,
\* db_join), whatever the tables, the bounds and what lies behind the arrays, for
\* tables without a tree index.
THEOREM TypeCorrectness == Spec => [](NoTree => TypeOK)
BY QueryInvariance, TypesFollow, PTL

\* While the conditions are kept no command crashes or writes behind its answer,
\* for tables without a tree index.
THEOREM KeptSafety == Spec => [](NoTree => KeptIsSafe)
<1>1. QInv => KeptIsSafe
    BY DEF QInv, Meaning, KeptIsSafe
<1> QED
    BY QueryInvariance, <1>1, PTL

\* While the conditions are kept a position vector holds each row that its select
\* qualifies once and no other: by a scan, through a sorted index of either kind,
\* or within fetched values.
THEOREM SelectExactness == Spec => [](NoTree => SelectsExact)
<1>1. ASSUME QInv, kept, NEW t \in Sides PROVE Exactly(sel[t].positions, sel[t].rows)
    <2>1. SelGood(columns[t][1].size, sel[t])
        BY <1>1 DEF QInv, Meaning, SelsGood
    <2>2. PICK positions, rows : positions = sel[t].positions /\ rows = sel[t].rows
        OBVIOUS
    <2>3. Lists(positions, rows)
        BY <2>1, <2>2 DEF SelGood
    <2> QED
        BY <2>2, <2>3, ListsExactly
<1>2. QInv => SelectsExact
    BY <1>1 DEF SelectsExact
<1> QED
    BY QueryInvariance, <1>2, PTL

\* While the conditions are kept the fetches, sums and differences give what they
\* mean, row by row.
THEOREM ValueExactness == Spec => [](NoTree => ValuesExact)
<1>1. QInv => ValuesExact
    BY DEF QInv, Meaning, ValsGood, ValuesExact
<1> QED
    BY QueryInvariance, <1>1, PTL

\* While the conditions are kept each of the four algorithms of db_join answers
\* with each pair of rows of equal values once and with no other.
THEOREM JoinExactness == Spec => [](NoTree => JoinsExact)
<1>1. ASSUME QInv, kept, out.kind = "join" PROVE Exactly(out.pairs, out.wanted)
    <2>1. Lists(out.pairs, out.wanted)
        BY <1>1 DEF QInv, Meaning, OutGood
    <2>2. PICK pairs, wanted : pairs = out.pairs /\ wanted = out.wanted
        OBVIOUS
    <2>3. Exactly(pairs, wanted)
        BY <2>1, <2>2, ListsExactly
    <2> QED
        BY <2>2, <2>3
<1>2. QInv => JoinsExact
    BY <1>1 DEF JoinsExact
<1> QED
    BY QueryInvariance, <1>2, PTL

\* While the conditions are kept an aggregate is that of the values meant.
THEOREM ScalarExactness == Spec => [](NoTree => ScalarsExact)
<1>1. QInv => ScalarsExact
    BY DEF QInv, Meaning, OutGood, ScalarsExact
<1> QED
    BY QueryInvariance, <1>1, PTL

\* Whether or not the conditions were kept, a select by a scan or through a
\* sorted index is wrong at most about rows whose values are next to one of its
\* bounds.
THEOREM NearBounds == Spec => [](NoTree => IndexNearBounds)
<1>1. ASSUME QInv, NEW t \in Sides, sel[t].asked[1] # 0, ~ fault
      PROVE  NearOf(columns[t][sel[t].asked[1]], sel[t])
    BY <1>1, SMTT(60) DEF QInv, Meaning, NearsGood, NearGood
<1>2. QInv => IndexNearBounds
    BY <1>1 DEF IndexNearBounds, NearOf, Values
<1> QED
    BY QueryInvariance, <1>2, PTL
===============================================================================
