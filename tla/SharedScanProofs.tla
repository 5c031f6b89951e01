--------------------------- MODULE SharedScanProofs ---------------------------
(***************************************************************************)
(* Proofs about SharedScan, for every number of columns, rows, queries,    *)
(* threads and tasks: the scan threads never meet, every task's array      *)
(* holds at every step the exact answer for the rows passed so far, what   *)
(* is published is the answer of the select, and the threaded batch        *)
(* implements the batch without threads.                                   *)
(***************************************************************************)
EXTENDS SharedScan, TLAPS

(* Arithmetic of stripes: task i belongs to thread i % n. *)

\* Multiplication by a natural is monotonic.
LEMMA MulMono ==
  ASSUME NEW n \in Nat, NEW a \in Nat, NEW b \in Nat, a <= b
  PROVE  n * a <= n * b
  OBVIOUS

\* One more multiple of n.
LEMMA MulSucc ==
  ASSUME NEW n \in Nat, NEW a \in Nat
  PROVE  n * (a + 1) = n * a + n /\ n * a \in Nat
  OBVIOUS

\* Quotient and remainder.
LEMMA DivMod ==
  ASSUME NEW n \in Nat \ {0}, NEW i \in Nat
  PROVE  /\ i = n * (i \div n) + (i % n)
         /\ i % n \in 0..(n - 1)
         /\ i \div n \in Nat
  OBVIOUS

\* They are unique.
LEMMA DivModUnique ==
  ASSUME NEW n \in Nat \ {0}, NEW a \in Nat, NEW b \in Nat,
         NEW r \in 0..(n - 1), NEW s \in 0..(n - 1),
         n * a + r = n * b + s
  PROVE  a = b /\ r = s
<1>1. ASSUME NEW x \in Nat, NEW y \in Nat, x < y,
             NEW u \in 0..(n - 1), NEW v \in 0..(n - 1),
             n * x + u = n * y + v
      PROVE  FALSE
  <2>1. n * (x + 1) <= n * y
    BY <1>1, MulMono
  <2>2. n * x + n <= n * y /\ n * x \in Nat /\ n * y \in Nat
    BY <1>1, <2>1, MulSucc
  <2> QED
    BY <1>1, <2>2
<1>2. a = b
  BY <1>1
<1>3. n * a \in Nat
  BY MulSucc
<1> QED
  BY <1>2, <1>3

\* The next task of a stripe is in the stripe.
LEMMA StripeStep ==
  ASSUME NEW n \in Nat \ {0}, NEW i \in Nat
  PROVE  (i + n) % n = i % n
<1> DEFINE q == i \div n
           r == i % n
           p == (i + n) \div n
           s == (i + n) % n
<1>1. i = n * q + r /\ r \in 0..(n - 1) /\ q \in Nat
  BY DivMod
<1>2. i + n = n * p + s /\ s \in 0..(n - 1) /\ p \in Nat
  <2>1. i + n \in Nat
    OBVIOUS
  <2> QED
    BY <2>1, DivMod
<1> HIDE DEF q, r, p, s
<1>3. n * (q + 1) = n * q + n /\ n * q \in Nat
  BY <1>1, MulSucc
<1>4. n * p \in Nat
  BY <1>2, MulSucc
<1>5. n * (q + 1) + r = n * p + s
  BY <1>1, <1>2, <1>3, <1>4
<1>6. q + 1 \in Nat
  BY <1>1
<1>7. r = s
  BY <1>1, <1>2, <1>5, <1>6, DivModUnique
<1> QED
  BY <1>7 DEF r, s

\* Two tasks of one stripe are at least n apart.
LEMMA StripeGap ==
  ASSUME NEW n \in Nat \ {0}, NEW i \in Nat, NEW j \in Nat, i < j, i % n = j % n
  PROVE  i + n <= j
<1> DEFINE a == i \div n
           b == j \div n
           r == i % n
<1>1. i = n * a + r /\ r \in 0..(n - 1) /\ a \in Nat
  BY DivMod
<1>2. j = n * b + r /\ b \in Nat
  BY DivMod
<1> HIDE DEF a, b, r
<1>3. n * a \in Nat /\ n * b \in Nat
  BY <1>1, <1>2, MulSucc
<1>4. a < b
  <2>1. CASE b <= a
    <3>1. n * b <= n * a
      BY <2>1, <1>1, <1>2, MulMono
    <3> QED
      BY <3>1, <1>1, <1>2, <1>3
  <2> QED
    BY <2>1, <1>1, <1>2
<1>5. n * (a + 1) <= n * b
  BY <1>4, <1>1, <1>2, MulMono
<1> QED
  BY <1>1, <1>2, <1>3, <1>5, MulSucc

\* What is below n is below every larger bound.
LEMMA IntervalGrows ==
  ASSUME NEW n \in Nat, NEW m \in Nat, n <= m, NEW x \in 0..(n - 1)
  PROVE  x \in 0..(m - 1)
  OBVIOUS

\* A function keeps its type when one value of it changes.
LEMMA UpdateType ==
  ASSUME NEW S, NEW T, NEW f \in [S -> T], NEW x, NEW v \in T
  PROVE  [f EXCEPT ![x] = v] \in [S -> T]
  OBVIOUS

\* The owner of a task is no later than the task.
LEMMA ModRange ==
  ASSUME NEW n \in Nat \ {0}, NEW i \in Nat
  PROVE  i % n \in 0..(n - 1) /\ i % n <= i
  OBVIOUS

\* The first task of a stripe has the number of its thread.
LEMMA ModOfSmall ==
  ASSUME NEW n \in Nat \ {0}, NEW i \in 0..(n - 1)
  PROVE  i % n = i
  OBVIOUS
-------------------------------------------------------------------------------
(* Growing a selection row by row *)

\* No rows, no cells: calloc'ed memory answers for an empty prefix.
LEMMA SelectionOfNothing ==
  ASSUME NEW q, NEW arr
  PROVE  IsSelection(q, arr, 0, 0)
BY DEF IsSelection

\* A row that does not match leaves the list as it is.
LEMMA SelectionSkip ==
  ASSUME NEW q, NEW arr, NEW n \in Nat, NEW m \in Nat,
         IsSelection(q, arr, n, m), ~Qualifies(q, m)
  PROVE  IsSelection(q, arr, n, m + 1)
<1>1. ASSUME NEW r \in 0..((m + 1) - 1), Qualifies(q, r)
      PROVE  \E j \in 0..(n - 1) : arr[j] = r
  <2>1. r # m
    BY <1>1
  <2>2. r \in 0..(m - 1)
    BY <2>1
  <2> QED
    BY <1>1, <2>2 DEF IsSelection
<1>2. \A j \in 0..(n - 1) : arr[j] \in 0..((m + 1) - 1) /\ Qualifies(q, arr[j])
  BY DEF IsSelection
<1>3. n <= m + 1
  BY DEF IsSelection
<1> QED
  BY <1>1, <1>2, <1>3 DEF IsSelection

\* A row that matches goes into the next cell.
LEMMA SelectionTake ==
  ASSUME NEW q, NEW N \in Nat, NEW arr \in [0..(N - 1) -> Int],
         NEW n \in Nat, NEW m \in Nat, m < N,
         IsSelection(q, arr, n, m), Qualifies(q, m)
  PROVE  IsSelection(q, [arr EXCEPT ![n] = m], n + 1, m + 1)
<1> DEFINE new == [arr EXCEPT ![n] = m]
<1>1. n <= m /\ n \in 0..(N - 1)
  BY DEF IsSelection
<1>2. /\ new[n] = m
      /\ \A j \in 0..(n - 1) : new[j] = arr[j]
  BY <1>1
<1> HIDE DEF new
<1>3. \A j \in 0..((n + 1) - 1) : j = n \/ j \in 0..(n - 1)
  OBVIOUS
<1>4. \A j \in 0..((n + 1) - 1) : new[j] \in 0..((m + 1) - 1) /\ Qualifies(q, new[j])
  BY <1>2, <1>3 DEF IsSelection
<1>5. ASSUME NEW i \in 0..((n + 1) - 1), NEW j \in 0..((n + 1) - 1), i < j
      PROVE  new[i] < new[j]
  <2>1. i \in 0..(n - 1) /\ new[i] = arr[i]
    BY <1>2, <1>5
  <2>2. CASE j = n
    BY <1>2, <2>1, <2>2 DEF IsSelection
  <2>3. CASE j \in 0..(n - 1)
    BY <1>2, <1>5, <2>1, <2>3 DEF IsSelection
  <2> QED
    BY <1>3, <2>2, <2>3
<1>6. ASSUME NEW r \in 0..((m + 1) - 1), Qualifies(q, r)
      PROVE  \E j \in 0..((n + 1) - 1) : new[j] = r
  <2>1. CASE r = m
    BY <1>2, <2>1
  <2>2. CASE r # m
    <3>1. r \in 0..(m - 1)
      BY <2>2
    <3>2. PICK j \in 0..(n - 1) : arr[j] = r
      BY <1>6, <3>1 DEF IsSelection
    <3> QED
      BY <1>2, <3>2
  <2> QED
    BY <2>1, <2>2
<1> QED
  BY <1>1, <1>4, <1>5, <1>6 DEF IsSelection, new
-------------------------------------------------------------------------------
(* The inductive invariant *)

USE SelectionAssumption, ScanAssumption

\* No task, no thread: every part of the invariant is about nothing.
LEMMA InitIInv == Init => IInv
<1> SUFFICES ASSUME Init PROVE IInv
  OBVIOUS
<1>1. TypeOK
  <2>1. TaskIds = {} /\ ~Running
    BY DEF Init, TaskIds, Running
  <2>2. IsVector(Unset)
    BY DEF IsVector, Unset, Empty
  <2>3. DOMAIN vpool = Handles /\ \A h \in Handles : IsVector(vpool[h])
    BY <2>2 DEF Init
  <2>4. /\ task \in [TaskIds -> [query : Queries, res_name : Handles]]
        /\ ntuples \in [TaskIds -> Nat]
        /\ positions = [i \in TaskIds |-> positions[i]]
    BY <2>1 DEF Init, Empty
  <2>5. /\ start \in [Threads -> Nat]
        /\ index \in [Threads -> Nat]
        /\ pos \in [Threads -> Nat]
        /\ num_pos \in [Threads -> Nat]
        /\ count \in [Threads -> Nat]
    BY DEF Init, AllZero
  <2>6. /\ pc \in [Threads -> {"none", "pick", "row", "exited"}]
        /\ isdone \in [Threads -> BOOLEAN]
    BY DEF Init
  <2>7. arr_size \in 0..MaxTasks /\ k \in Nat /\ nthreads = 0
    BY DEF Init
  <2> QED
    BY <2>1, <2>3, <2>4, <2>5, <2>6, <2>7 DEF Init, TypeOK
<1>2. ServerControl
  BY DEF Init, ServerControl, Running
<1>3. ThreadControl
  BY DEF Init, ThreadControl
<1>4. FreshTasks /\ PrefixExact
  BY DEF Init, FreshTasks, PrefixExact, Running, TaskIds
<1> QED
  BY <1>1, <1>2, <1>3, <1>4 DEF IInv

\* When no thread runs, nothing is known of threads and everything of tasks.
LEMMA BatchQueriesIInv == IInv /\ BatchQueries => IInv'
<1> SUFFICES ASSUME IInv, BatchQueries PROVE IInv'
  OBVIOUS
<1> USE DEF BatchQueries, IInv, serverVars, threadVars
<1>1. TypeOK'
  BY DEF TypeOK, TaskIds, Running, IsVector, Empty, Threads, NumRowsOf, ColOf
<1>2. ServerControl'
  BY DEF ServerControl, Running
<1>3. ThreadControl'
  BY DEF ThreadControl, ServerControl, Running
<1>4. FreshTasks' /\ PrefixExact'
  BY DEF FreshTasks, PrefixExact, Running, TaskIds
<1> QED
  BY <1>1, <1>2, <1>3, <1>4

\* A queued select gets zeroed cells; the tasks before it are as they were.
LEMMA BatchSelectIInv ==
  ASSUME NEW q \in Queries, NEW h \in Handles, IInv, BatchSelect(q, h)
  PROVE  IInv'
<1> USE DEF IInv, threadVars, taskVars
<1>1. spc = "command" /\ ~Running /\ ~Running'
  BY DEF BatchSelect, Running
<1>2. CASE UNCHANGED <<arr_size, task, taskVars, vpool>>
  <2>1. TypeOK'
    BY <1>1, <1>2 DEF BatchSelect, TypeOK, TaskIds, IsVector, Threads, NumRowsOf, ColOf
  <2>2. ServerControl' /\ ThreadControl'
    BY <1>1, <1>2 DEF BatchSelect, ServerControl, ThreadControl
  <2>3. FreshTasks' /\ PrefixExact'
    BY <1>1, <1>2 DEF FreshTasks, PrefixExact, TaskIds
  <2> QED
    BY <2>1, <2>2, <2>3
<1>3. CASE /\ arr_size' = arr_size + 1
           /\ task' = [i \in 0..arr_size |->
                         IF i = arr_size THEN [query |-> q, res_name |-> h] ELSE task[i]]
           /\ ntuples' = [i \in 0..arr_size |-> IF i = arr_size THEN 0 ELSE ntuples[i]]
           /\ positions' = [i \in 0..arr_size |->
                              IF i = arr_size THEN NewCells(q) ELSE positions[i]]
           /\ vpool' = [vpool EXCEPT ![h] = Pending]
           /\ spc' = spc
  <2>1. arr_size \in Nat /\ TaskIds' = 0..arr_size
    BY <1>3 DEF TypeOK, TaskIds
  <2>2. \A i \in 0..arr_size : i # arr_size => i \in TaskIds
    BY <2>1 DEF TaskIds
  <2>3. q.col \in Columns /\ NumRows[q.col] \in Nat
    OBVIOUS
  <2>4. /\ \A i \in TaskIds : task'[i] = task[i] /\ ntuples'[i] = ntuples[i]
                              /\ positions'[i] = positions[i]
        /\ task'[arr_size] = [query |-> q, res_name |-> h]
        /\ ntuples'[arr_size] = 0
        /\ positions'[arr_size] = NewCells(q)
    BY <1>3, <2>1 DEF TaskIds
  <2>5. TypeOK'
    <3>1. task' \in [TaskIds' -> [query : Queries, res_name : Handles]]
      BY <1>3, <2>1, <2>2 DEF TypeOK
    <3>2. ntuples' \in [TaskIds' -> Nat] /\ positions' = [i \in TaskIds' |-> positions'[i]]
      BY <1>3, <2>1, <2>2 DEF TypeOK
    <3>3. \A i \in TaskIds' : positions'[i] \in [0..(NumRowsOf(i)' - 1) -> Int]
      <4> SUFFICES ASSUME NEW i \in TaskIds'
                   PROVE  positions'[i] \in [0..(NumRows[task'[i].query.col] - 1) -> Int]
        BY DEF NumRowsOf, ColOf
      <4>1. CASE i = arr_size
        BY <2>3, <2>4, <4>1 DEF NewCells
      <4>2. CASE i # arr_size
        BY <2>1, <2>2, <2>4, <4>2 DEF TypeOK, NumRowsOf, ColOf
      <4> QED
        BY <4>1, <4>2
    <3>4. DOMAIN vpool' = Handles /\ \A x \in Handles : IsVector(vpool'[x])
      BY <1>3 DEF TypeOK, IsVector, Pending, Empty
    <3>5. arr_size' \in 0..MaxTasks
      BY <1>3, <2>1 DEF BatchSelect
    <3> QED
      BY <1>1, <3>1, <3>2, <3>3, <3>4, <3>5 DEF BatchSelect, TypeOK, IsVector
  <2>6. ServerControl' /\ ThreadControl'
    BY <1>1, <1>3 DEF BatchSelect, ServerControl, ThreadControl
  <2>7. FreshTasks' /\ PrefixExact'
    <3>1. ASSUME NEW i \in TaskIds'
          PROVE  /\ ntuples'[i] = 0
                 /\ \A j \in DOMAIN positions'[i] : positions'[i][j] = 0
      <4>1. CASE i = arr_size
        BY <2>4, <4>1 DEF NewCells
      <4>2. CASE i \in TaskIds
        BY <1>1, <2>4, <4>2 DEF FreshTasks
      <4> QED
        BY <2>1, <2>2, <4>1, <4>2
    <3>2. FreshTasks'
      BY <3>1 DEF FreshTasks
    <3> QED
      BY <1>1, <3>2 DEF PrefixExact
  <2> QED
    BY <2>5, <2>6, <2>7
<1> QED
  BY <1>2, <1>3 DEF BatchSelect

\* The pool has a thread for every stripe, and none of them exists yet.
LEMMA BatchExecuteIInv == IInv /\ BatchExecute => IInv'
<1> SUFFICES ASSUME IInv, BatchExecute PROVE IInv'
  OBVIOUS
<1> USE DEF IInv, BatchExecute, threadVars, taskVars
<1>0. ~Running /\ TaskIds' = TaskIds /\ \A t \in Threads : pc[t] = "none"
  BY DEF Running, TaskIds, ServerControl
<1>1. PoolSize \in Nat /\ PoolSize <= MAX_THREADS /\ PoolSize <= arr_size
      /\ (arr_size > 0 => PoolSize > 0)
  BY DEF TypeOK, PoolSize, Lowest
<1>2. TypeOK'
  BY <1>0 DEF TypeOK, TaskIds, Running, IsVector, NumRowsOf, ColOf, PoolSize
<1>3. ServerControl'
  BY <1>0, <1>1 DEF ServerControl, Running, TypeOK, Threads
<1>4. ThreadControl'
  BY <1>0 DEF ThreadControl
<1>5. FreshTasks'
  BY <1>0 DEF FreshTasks, Running
<1>6. PrefixExact'
  <2> SUFFICES ASSUME Running', NEW i \in TaskIds
               PROVE  /\ IsSelection(task[i].query, positions[i], Tuples(i)', RowsDone(i)')
                      /\ \A j \in DOMAIN positions[i] : j >= Tuples(i)' => positions[i][j] = 0
    BY <1>0 DEF PrefixExact
  <2>1. nthreads' \in Nat \ {0} /\ nthreads' <= MAX_THREADS /\ i \in Nat
    BY <1>1 DEF Running, TaskIds, TypeOK
  <2>2. i % nthreads' \in Threads
    <3>1. i % nthreads' \in 0..(nthreads' - 1)
      BY <2>1, ModRange
    <3>2. nthreads' \in Nat /\ MAX_THREADS \in Nat /\ nthreads' <= MAX_THREADS
      BY <2>1
    <3>3. i % nthreads' \in 0..(MAX_THREADS - 1)
      BY <3>1, <3>2, IntervalGrows
    <3> QED
      BY <3>3 DEF Threads
  <2>3. NumRowsOf(i) \in Nat
    BY DEF TypeOK, NumRowsOf, ColOf
  <2>4. pc'[i % nthreads'] = "none"
    BY <1>0, <2>2
  <2>5. RowsDone(i)' = 0
    BY <2>3, <2>4 DEF RowsDone, RowReached, Owner, Lowest, NumRowsOf, ColOf
  <2>6. Tuples(i)' = 0
    BY <1>0, <2>4 DEF Tuples, Owner, FreshTasks
  <2> QED
    BY <1>0, <2>5, <2>6, SelectionOfNothing DEF FreshTasks
<1> QED
  BY <1>2, <1>3, <1>4, <1>5, <1>6
-------------------------------------------------------------------------------
(* Steps of the server thread *)

\* While a batch runs there are no more threads than tasks and than
\* MAX_THREADS, and every task has an owner among them.
LEMMA OwnerFacts ==
  ASSUME TypeOK, Running, NEW i \in TaskIds
  PROVE  /\ nthreads \in Nat \ {0}
         /\ nthreads <= MAX_THREADS
         /\ nthreads <= arr_size
         /\ Owner(i) \in Threads
         /\ Owner(i) < nthreads
         /\ Owner(i) <= i
         /\ i \in Nat
<1>1. nthreads \in Nat \ {0} /\ nthreads <= MAX_THREADS /\ nthreads <= arr_size /\ i \in Nat
  BY DEF TypeOK, TaskIds, Lowest
<1>2. i % nthreads \in 0..(nthreads - 1) /\ i % nthreads <= i
  BY <1>1, ModRange
<1> QED
  BY <1>1, <1>2 DEF Owner, Threads

\* What a step that leaves tasks, counts and cells alone has to show.
LEMMA FramePrefix ==
  ASSUME PrefixExact, Running, TaskIds' = TaskIds, task' = task,
         \A i \in TaskIds : /\ positions'[i] = positions[i]
                            /\ Tuples(i)' = Tuples(i)
                            /\ RowsDone(i)' = RowsDone(i)
  PROVE  PrefixExact'
BY DEF PrefixExact

\* The new thread stands before the first task of its stripe.
LEMMA CreateThreadIInv == IInv /\ CreateThread => IInv'
<1> SUFFICES ASSUME IInv, CreateThread PROVE IInv'
  OBVIOUS
<1> USE DEF IInv, CreateThread, batchVars, taskVars
<1>1. /\ Running /\ Running' /\ TaskIds' = TaskIds
      /\ k \in Threads /\ k < nthreads /\ nthreads <= MAX_THREADS /\ nthreads \in Nat \ {0}
      /\ arr_size \in Nat
  BY DEF Running, TaskIds, TypeOK, Lowest, Threads, ToCreate
<1>2. TypeOK'
  <2>1. /\ pc' \in [Threads -> {"none", "pick", "row", "exited"}]
        /\ start' \in [Threads -> Nat]
        /\ index' \in [Threads -> Nat]
        /\ isdone' \in [Threads -> BOOLEAN]
        /\ k' \in Nat
    <3>1. k \in Nat /\ k \in Threads /\ k' = k + 1
      BY <1>1 DEF Threads
    <3>2. pc' \in [Threads -> {"none", "pick", "row", "exited"}]
      BY <3>1, UpdateType DEF TypeOK
    <3>3. start' \in [Threads -> Nat]
      BY <3>1, UpdateType DEF TypeOK
    <3>4. index' \in [Threads -> Nat]
      BY <3>1, UpdateType DEF TypeOK
    <3>5. isdone' \in [Threads -> BOOLEAN]
      BY <3>1, UpdateType DEF TypeOK
    <3> QED
      BY <3>1, <3>2, <3>3, <3>4, <3>5
  <2>2. \A i \in TaskIds : positions'[i] \in [0..(NumRowsOf(i)' - 1) -> Int]
    BY DEF TypeOK, NumRowsOf, ColOf
  <2> QED
    BY <1>1, <2>1, <2>2 DEF TypeOK, IsVector
<1>3. ServerControl'
  <2>1. k + 1 \in 0..nthreads
    BY <1>1 DEF Threads
  <2>2. ASSUME NEW t \in Threads
        PROVE  /\ t >= nthreads => pc'[t] = "none"
               /\ pc'[t] = "none" <=> t >= k + 1
    <3>1. t \in Nat /\ k \in Nat /\ spc = "create"
      BY DEF Threads, TypeOK
    <3>2. pc[t] = "none" <=> t >= k
      BY <3>1 DEF ServerControl
    <3>3. CASE t = k
      <4>1. pc'[t] = "pick"
        BY <3>3 DEF TypeOK
      <4> QED
        BY <1>1, <3>1, <3>3, <4>1
    <3>4. CASE t # k
      <4>1. pc'[t] = pc[t]
        BY <3>4 DEF TypeOK
      <4>2. t >= k <=> t >= k + 1
        BY <3>1, <3>4
      <4>3. t >= nthreads => pc[t] = "none"
        BY DEF ServerControl
      <4> QED
        BY <3>2, <4>1, <4>2, <4>3
    <3> QED
      BY <3>3, <3>4
  <2> QED
    BY <1>1, <2>1, <2>2 DEF ServerControl
<1>4. ThreadControl'
  <2> SUFFICES ASSUME NEW t \in Threads, pc'[t] # "none"
               PROVE  StripeControl(t)' /\ (pc'[t] = "row" => RowControl(t)')
    BY DEF ThreadControl
  <2>1. CASE t = k
    <3>1. k % nthreads = k
      <4>1. k \in 0..(nthreads - 1)
        BY <1>1 DEF Threads
      <4> QED
        BY <1>1, <4>1, ModOfSmall
    <3> QED
      BY <1>1, <2>1, <3>1 DEF StripeControl, TypeOK
  <2>2. CASE t # k
    BY <1>1, <2>2 DEF ThreadControl, StripeControl, RowControl, TypeOK, NumRowsOf, ColOf, EndOf
  <2> QED
    BY <2>1, <2>2
<1>5. FreshTasks'
  BY <1>1 DEF FreshTasks
<1>6. pc[k] = "none"
  BY <1>1 DEF ServerControl
<1>7. ASSUME NEW i \in TaskIds
      PROVE  Tuples(i)' = Tuples(i) /\ RowsDone(i)' = RowsDone(i)
  <2>1. Owner(i) \in Threads /\ Owner(i) <= i /\ i \in Nat
    BY <1>1, OwnerFacts
  <2>2. CASE Owner(i) = k
    <3>1. pc'[k] = "pick" /\ start'[k] = 0 /\ index'[k] = k
      BY <1>1 DEF TypeOK
    <3>2. RowReached(i)' = 0 /\ RowReached(i) = 0
      BY <1>1, <1>6, <2>1, <2>2, <3>1 DEF RowReached, Owner
    <3> QED
      BY <1>6, <2>2, <3>1, <3>2 DEF RowsDone, Tuples, Owner, NumRowsOf, ColOf
  <2>3. CASE Owner(i) # k
    BY <1>1, <2>1, <2>3 DEF RowsDone, RowReached, Tuples, Owner, NumRowsOf, ColOf, TypeOK
  <2> QED
    BY <2>2, <2>3
<1>8. PrefixExact'
  BY <1>1, <1>7, FramePrefix
<1> QED
  BY <1>2, <1>3, <1>4, <1>5, <1>8

\* Steps that move the server thread on and change nothing else.
LEMMA ServerMovesIInv ==
  IInv /\ (AllCreated \/ JoinThread \/ AllJoined) => IInv'
<1> SUFFICES ASSUME IInv, AllCreated \/ JoinThread \/ AllJoined PROVE IInv'
  OBVIOUS
<1> USE DEF IInv
<1>1. /\ Running /\ Running' /\ TaskIds' = TaskIds
      /\ UNCHANGED <<batchVars, taskVars, vpool, nthreads, threadVars>>
      /\ spc \in {"create", "join"}
      /\ spc' \in {"join", "destroy"}
      /\ k' \in Nat
      /\ nthreads \in Nat /\ arr_size \in Nat
  BY DEF AllCreated, JoinThread, AllJoined, Running, TaskIds, TypeOK, batchVars, Lowest
<1> USE DEF batchVars, taskVars, threadVars
<1>2. TypeOK'
  BY <1>1 DEF TypeOK, NumRowsOf, ColOf, IsVector
<1>3. ServerControl'
  <2>1. CASE AllCreated
    <3>1. \A t \in Threads : t < nthreads => pc[t] # "none"
      BY <2>1, <1>1 DEF AllCreated, ToCreate, ServerControl, Threads
    <3> QED
      BY <2>1, <3>1, <1>1 DEF AllCreated, ServerControl, Threads
  <2>2. CASE JoinThread
    <3>1. spc = "join" /\ spc' = "join" /\ k' = k + 1 /\ k \in Nat /\ k < nthreads
      BY <2>2 DEF JoinThread, TypeOK
    <3>2. ASSUME NEW t \in Threads, t < k + 1
          PROVE  pc[t] = "exited"
      <4>1. t < k \/ t = k
        BY <3>1, <3>2 DEF Threads
      <4> QED
        BY <2>2, <3>1, <4>1 DEF JoinThread, Joinable, ServerControl
    <3>3. k + 1 \in 0..nthreads
      BY <1>1, <3>1
    <3> QED
      BY <1>1, <3>1, <3>2, <3>3 DEF ServerControl
  <2>3. CASE AllJoined
    <3>1. \A t \in Threads : t < nthreads => pc[t] = "exited"
      BY <2>3, <1>1 DEF AllJoined, ServerControl
    <3> QED
      BY <2>3, <3>1, <1>1 DEF AllJoined, ServerControl
  <2> QED
    BY <2>1, <2>2, <2>3
<1>4. ThreadControl'
  BY <1>1 DEF ThreadControl, StripeControl, RowControl, NumRowsOf, ColOf, EndOf
<1>5. FreshTasks'
  BY <1>1 DEF FreshTasks
<1>6. PrefixExact'
  BY <1>1 DEF PrefixExact, Tuples, RowsDone, RowReached, Owner, NumRowsOf, ColOf
<1> QED
  BY <1>2, <1>3, <1>4, <1>5, <1>6

\* When the threads have exited, the counts are final.
LEMMA TuplesWhenJoined ==
  ASSUME IInv, spc = "destroy", NEW i \in TaskIds
  PROVE  /\ pc[Owner(i)] = "exited"
         /\ Tuples(i) = ntuples[i]
         /\ IsSelection(task[i].query, positions[i], ntuples[i], RowsDone(i))
<1>1. Running
  BY DEF Running
<1>2. Owner(i) \in Threads /\ Owner(i) < nthreads
  BY <1>1, OwnerFacts DEF IInv
<1>3. pc[Owner(i)] = "exited"
  BY <1>2 DEF IInv, ServerControl
<1>4. ntuples[i] \in Nat
  BY DEF IInv, TypeOK
<1>5. Tuples(i) = ntuples[i]
  BY <1>3, <1>4 DEF Tuples
<1> QED
  BY <1>1, <1>3, <1>5 DEF IInv, PrefixExact

\* The handle gets the counted cells of a task whose count is final.
LEMMA PublishIInv == IInv /\ Publish => IInv'
<1> SUFFICES ASSUME IInv, Publish PROVE IInv'
  OBVIOUS
<1> USE DEF IInv, Publish, batchVars, taskVars, threadVars
<1>1. Running /\ Running' /\ TaskIds' = TaskIds /\ k \in TaskIds /\ k \in Nat
  BY DEF Running, TaskIds, TypeOK
<1>2. IsVector(Filled(ntuples[k], positions[k]))
  <2>1. ntuples[k] \in Nat
    BY <1>1 DEF TypeOK
  <2>2. \A j \in 0..(ntuples[k] - 1) : positions[k][j] \in Int
    BY <1>1, TuplesWhenJoined DEF IsSelection
  <2> QED
    BY <2>1, <2>2 DEF Filled, IsVector
<1>3. TypeOK'
  <2>1. DOMAIN vpool' = Handles
    BY DEF TypeOK
  <2>2. \A h \in Handles : IsVector(vpool'[h])
    BY <1>2 DEF TypeOK
  <2>3. \A i \in TaskIds : positions'[i] \in [0..(NumRowsOf(i)' - 1) -> Int]
    BY DEF TypeOK, NumRowsOf, ColOf
  <2>4. spc' = spc /\ spc = "destroy" /\ k' = k + 1 /\ nthreads' = nthreads
    OBVIOUS
  <2>5. UNCHANGED <<batchVars, taskVars, threadVars>>
    OBVIOUS
  <2>6. TypeOK
    OBVIOUS
  <2> HIDE DEF IInv, Publish
  <2>7. /\ spc' \in {"command", "create", "join", "destroy", "crashed"}
        /\ k' \in Nat
        /\ nthreads' = IF Running' THEN Lowest(arr_size', MAX_THREADS) ELSE 0
    BY <1>1, <2>4, <2>5, <2>6 DEF TypeOK
  <2>8. /\ is_batching' \in BOOLEAN
        /\ allocated' \in BOOLEAN
        /\ arr_size' \in 0..MaxTasks
        /\ task' \in [TaskIds' -> [query : Queries, res_name : Handles]]
        /\ ntuples' \in [TaskIds' -> Nat]
        /\ positions' = [i \in TaskIds' |-> positions'[i]]
    BY <1>1, <2>5, <2>6 DEF TypeOK
  <2>9. /\ pc' \in [Threads -> {"none", "pick", "row", "exited"}]
        /\ start' \in [Threads -> Nat]
        /\ index' \in [Threads -> Nat]
        /\ isdone' \in [Threads -> BOOLEAN]
        /\ pos' \in [Threads -> Nat]
        /\ num_pos' \in [Threads -> Nat]
        /\ count' \in [Threads -> Nat]
    BY <2>5, <2>6 DEF TypeOK
  <2> QED
    BY <1>1, <2>1, <2>2, <2>3, <2>7, <2>8, <2>9 DEF TypeOK
<1>4. ServerControl'
  BY <1>1 DEF ServerControl, Running, TypeOK
<1>5. ThreadControl' /\ FreshTasks'
  BY <1>1 DEF ThreadControl, StripeControl, RowControl, NumRowsOf, ColOf, EndOf, FreshTasks
<1>6. PrefixExact'
  BY <1>1 DEF PrefixExact, Tuples, RowsDone, RowReached, Owner, NumRowsOf, ColOf
<1> QED
  BY <1>3, <1>4, <1>5, <1>6

\* Tasks, threads and locals are gone.
LEMMA AllPublishedIInv == IInv /\ AllPublished => IInv'
<1> SUFFICES ASSUME IInv, AllPublished PROVE IInv'
  OBVIOUS
<1> USE DEF IInv, AllPublished
<1>1. ~Running' /\ TaskIds' = {}
  BY DEF Running, TaskIds
<1>2. TypeOK'
  <2>1. /\ task' \in [TaskIds' -> [query : Queries, res_name : Handles]]
        /\ ntuples' \in [TaskIds' -> Nat]
        /\ positions' = [i \in TaskIds' |-> positions'[i]]
    BY <1>1 DEF Empty
  <2>2. /\ start' \in [Threads -> Nat]
        /\ index' \in [Threads -> Nat]
        /\ pos' \in [Threads -> Nat]
        /\ num_pos' \in [Threads -> Nat]
        /\ count' \in [Threads -> Nat]
    BY DEF AllZero
  <2>3. /\ pc' \in [Threads -> {"none", "pick", "row", "exited"}]
        /\ isdone' \in [Threads -> BOOLEAN]
    OBVIOUS
  <2>4. DOMAIN vpool' = Handles /\ \A h \in Handles : IsVector(vpool'[h])
    BY DEF TypeOK
  <2>5. /\ arr_size' \in 0..MaxTasks
        /\ \A i \in TaskIds' : positions'[i] \in [0..(NumRowsOf(i)' - 1) -> Int]
        /\ k' \in Nat
    BY <1>1
  <2>6. is_batching' \in BOOLEAN /\ allocated' \in BOOLEAN
    BY DEF TypeOK
  <2>7. nthreads' = 0 /\ spc' \in {"command", "create", "join", "destroy", "crashed"}
    OBVIOUS
  <2> HIDE DEF AllPublished, IInv
  <2> QED
    BY <1>1, <2>1, <2>2, <2>3, <2>4, <2>5, <2>6, <2>7 DEF TypeOK
<1>3. ~is_batching
  BY DEF ServerControl, Running
<1>4. ServerControl'
  BY <1>1, <1>3 DEF ServerControl, Running, TypeOK
<1>5. ThreadControl' /\ FreshTasks' /\ PrefixExact'
  BY <1>1 DEF ThreadControl, FreshTasks, PrefixExact
<1> QED
  BY <1>2, <1>4, <1>5
-------------------------------------------------------------------------------
(* Steps of the scan threads *)

\* Types of what the arithmetic of a scan step is about.
LEMMA TypeFacts ==
  ASSUME TypeOK
  PROVE  /\ \A i \in TaskIds : /\ NumRowsOf(i) \in Nat
                                /\ ntuples[i] \in Nat
         /\ \A t \in Threads : /\ start[t] \in Nat /\ index[t] \in Nat /\ pos[t] \in Nat
                                /\ num_pos[t] \in Nat /\ count[t] \in Nat
<1>1. \A i \in TaskIds : task[i].query.col \in Columns
  BY DEF TypeOK
<1>2. \A i \in TaskIds : NumRowsOf(i) \in Nat
  BY <1>1 DEF NumRowsOf, ColOf
<1> QED
  BY <1>2 DEF TypeOK

\* What the stripes give a thread that exists.
LEMMA StripeFacts ==
  ASSUME IInv, NEW t \in Threads, pc[t] # "none"
  PROVE  /\ Running
         /\ spc = "destroy" => pc[t] = "exited"
         /\ t < nthreads /\ t \in Nat
         /\ nthreads \in Nat \ {0}
         /\ index[t] \in Nat /\ t <= index[t]
         /\ \A i \in TaskIds : Owner(i) = t /\ i > index[t] => i >= index[t] + nthreads
         /\ index[t] \in TaskIds => Owner(index[t]) = t
         /\ \A i \in TaskIds : Owner(i) = t => t <= i
<1>1. Running /\ t < nthreads /\ t \in Nat
  BY DEF IInv, ServerControl, Threads, TypeOK, Lowest
<1>2. nthreads \in Nat \ {0}
  BY <1>1 DEF IInv, TypeOK, Lowest
<1>3. index[t] \in Nat /\ index[t] % nthreads = t
  BY DEF IInv, TypeOK, ThreadControl, StripeControl
<1>4. t <= index[t]
  BY <1>2, <1>3, ModRange
<1>5. ASSUME NEW i \in TaskIds, Owner(i) = t
      PROVE  t <= i /\ (i > index[t] => i >= index[t] + nthreads)
  <2>1. i \in Nat /\ t <= i
    BY <1>1, <1>5, OwnerFacts DEF IInv
  <2>2. i % nthreads = index[t] % nthreads
    BY <1>3, <1>5 DEF Owner
  <2> QED
    BY <1>2, <1>3, <2>1, <2>2, StripeGap
<1>6. spc = "destroy" => pc[t] = "exited"
  BY <1>1 DEF IInv, ServerControl
<1> QED
  BY <1>1, <1>2, <1>3, <1>4, <1>5, <1>6 DEF Owner

\* A step of one thread that leaves ServerControl's facts alone: the server's
\* variables do not change, and the thread still exists.
LEMMA ThreadKeepsServer ==
  ASSUME IInv, NEW t \in Threads, pc[t] \in {"pick", "row"},
         UNCHANGED <<batchVars, vpool, serverVars>>,
         pc' \in [Threads -> {"none", "pick", "row", "exited"}],
         pc'[t] # "none", \A u \in Threads \ {t} : pc'[u] = pc[u]
  PROVE  ServerControl' /\ FreshTasks'
<1> USE DEF batchVars, serverVars
<1>1. /\ Running /\ Running' /\ TaskIds' = TaskIds /\ spc # "destroy"
      /\ t < nthreads /\ t \in Nat /\ nthreads \in Nat
  BY StripeFacts DEF Running, TaskIds
<1>2. ASSUME NEW u \in Threads
      PROVE  /\ u >= nthreads => pc'[u] = "none"
             /\ spc = "create" => (pc'[u] = "none" <=> u >= k)
             /\ spc = "join" /\ u < nthreads => pc'[u] # "none"
             /\ spc = "join" /\ u < k => pc'[u] = "exited"
  <2>1. CASE u = t
    <3>1. spc = "join" => ~(t < k)
      BY DEF IInv, ServerControl
    <3>2. spc = "create" => ~(t >= k)
      BY DEF IInv, ServerControl
    <3>3. pc'[u] # "none" /\ ~(u >= nthreads)
      BY <1>1, <2>1
    <3> QED
      BY <2>1, <3>1, <3>2, <3>3
  <2>2. CASE u # t
    <3>1. pc'[u] = pc[u]
      BY <2>2
    <3> QED
      BY <1>1, <3>1 DEF IInv, ServerControl
  <2> QED
    BY <2>1, <2>2
<1>3. ServerControl'
  BY <1>1, <1>2 DEF IInv, ServerControl
<1> QED
  BY <1>1, <1>3 DEF FreshTasks

\* A thread that does not move keeps its facts, as long as the tasks it is in
\* keep their counts.
LEMMA OtherThreadKeeps ==
  ASSUME IInv, NEW u \in Threads, pc[u] # "none",
         UNCHANGED <<batchVars, serverVars>>,
         pc'[u] = pc[u], start'[u] = start[u], index'[u] = index[u],
         isdone'[u] = isdone[u], pos'[u] = pos[u], num_pos'[u] = num_pos[u],
         pc[u] = "row" => ntuples'[index[u]] = ntuples[index[u]]
  PROVE  StripeControl(u)' /\ (pc'[u] = "row" => RowControl(u)')
BY DEF IInv, ThreadControl, StripeControl, RowControl, TaskIds, NumRowsOf, ColOf, EndOf,
       batchVars, serverVars

\* A task of another thread's stripe is not disturbed.
LEMMA OtherTaskKeeps ==
  ASSUME IInv, NEW t \in Threads, NEW i \in TaskIds, Owner(i) \in Threads \ {t},
         UNCHANGED <<batchVars, serverVars>>,
         \A u \in Threads \ {t} : /\ pc'[u] = pc[u]
                                  /\ start'[u] = start[u]
                                  /\ index'[u] = index[u]
                                  /\ pos'[u] = pos[u]
                                  /\ count'[u] = count[u],
         ntuples'[i] = ntuples[i]
  PROVE  Tuples(i)' = Tuples(i) /\ RowsDone(i)' = RowsDone(i)
<1> DEFINE u == Owner(i)
<1>1. Owner(i)' = u
  BY DEF Owner, serverVars
<1>2. RowReached(i)' = RowReached(i)
  BY <1>1 DEF RowReached
<1>3. NumRowsOf(i)' = NumRowsOf(i)
  BY DEF NumRowsOf, ColOf, batchVars
<1> QED
  BY <1>1, <1>2, <1>3 DEF RowsDone, Tuples

\* A vector begins after the rows and cells of the one before it.
LEMMA BeginVectorIInv ==
  ASSUME NEW t \in Threads, IInv, BeginVector(t)
  PROVE  IInv'
<1> USE DEF BeginVector, batchVars, taskVars, serverVars
<1>1. /\ Running /\ TaskIds' = TaskIds /\ Running' /\ pc[t] = "pick"
      /\ index[t] \in TaskIds /\ Owner(index[t]) = t
  <2>1. index[t] \in TaskIds
    BY StripeFacts DEF IInv, TypeOK, TaskIds
  <2> QED
    BY <2>1, StripeFacts DEF Running, TaskIds
<1>2. TypeOK'
  <2>1. ntuples[index[t]] \in Nat
    BY <1>1 DEF IInv, TypeOK
  <2>2. \A i \in TaskIds : positions'[i] \in [0..(NumRowsOf(i)' - 1) -> Int]
    BY DEF IInv, TypeOK, NumRowsOf, ColOf
  <2>3. /\ pc' \in [Threads -> {"none", "pick", "row", "exited"}]
        /\ pos' \in [Threads -> Nat]
        /\ num_pos' \in [Threads -> Nat]
        /\ count' \in [Threads -> Nat]
    BY <2>1 DEF IInv, TypeOK, FirstCell
  <2> QED
    BY <1>1, <2>2, <2>3 DEF IInv, TypeOK, IsVector
<1>3. ServerControl' /\ FreshTasks'
  BY <1>1, <1>2, ThreadKeepsServer DEF IInv, TypeOK
<1>4. ThreadControl'
  <2> SUFFICES ASSUME NEW u \in Threads, pc'[u] # "none"
               PROVE  StripeControl(u)' /\ (pc'[u] = "row" => RowControl(u)')
    BY DEF ThreadControl
  <2>1. CASE u = t
    <3>1. StripeControl(t)
      BY <1>1 DEF IInv, ThreadControl
    <3>2. pc'[t] = "row" /\ pos'[t] = start[t] /\ num_pos'[t] = ntuples[index[t]]
      BY DEF IInv, TypeOK, FirstCell
    <3>3. StripeControl(t)'
      BY <1>1, <3>1, <3>2 DEF StripeControl, NumRowsOf, ColOf
    <3>4. RowControl(t)'
      BY <3>2 DEF RowControl
    <3> QED
      BY <2>1, <3>3, <3>4
  <2>2. CASE u # t
    BY <2>2, OtherThreadKeeps DEF IInv, TypeOK
  <2> QED
    BY <2>1, <2>2
<1>5. ASSUME NEW i \in TaskIds
      PROVE  Tuples(i)' = Tuples(i) /\ RowsDone(i)' = RowsDone(i)
  <2>1. Owner(i) \in Threads /\ Owner(i)' = Owner(i)
    BY <1>1, OwnerFacts DEF IInv, Owner
  <2>2. CASE Owner(i) # t
    BY <2>1, <2>2, OtherTaskKeeps DEF IInv, TypeOK
  <2>3. CASE Owner(i) = t
    <3>1. /\ pc'[t] = "row" /\ pos'[t] = start[t] /\ count'[t] = 0
          /\ ntuples[i] \in Nat
      BY DEF IInv, TypeOK
    <3>2. Tuples(i)' = Tuples(i)
      BY <1>1, <2>1, <2>3, <3>1 DEF Tuples
    <3>3. RowReached(i)' = RowReached(i)
      BY <1>1, <2>1, <2>3, <3>1, StripeFacts DEF RowReached
    <3> QED
      BY <3>2, <3>3 DEF RowsDone, NumRowsOf, ColOf
  <2> QED
    BY <2>2, <2>3
<1>6. PrefixExact'
  BY <1>1, <1>5, FramePrefix DEF IInv
<1> QED
  BY <1>2, <1>3, <1>4, <1>6 DEF IInv

\* One row of the thread's own task: the next cell takes the row if it
\* matches, and keeps its zero if it does not.
LEMMA ScanRowGrows ==
  ASSUME NEW t \in Threads, IInv, ScanRow(t)
  PROVE  LET i == index[t]
         IN /\ i \in TaskIds /\ Owner(i) = t
            /\ RowsDone(i) = pos[t] /\ pos[t] \in Nat /\ pos[t] < NumRowsOf(i)
            /\ IsSelection(task[i].query, positions'[i], Tuples(i)', pos[t] + 1)
            /\ \A j \in DOMAIN positions'[i] : j >= Tuples(i)' => positions'[i][j] = 0
            /\ positions'[i] \in [0..(NumRowsOf(i) - 1) -> Int]
            /\ \A j \in TaskIds \ {i} : positions'[j] = positions[j]
            /\ positions' = [j \in TaskIds |-> positions'[j]]
<1> DEFINE i == index[t]
           n == num_pos[t] + count[t]
           p == pos[t]
           N == NumRowsOf(i)
           arr == positions[i]
           q == task[i].query
<1>1. i \in TaskIds /\ Owner(i) = t /\ Running /\ pc[t] = "row"
  BY StripeFacts DEF ScanRow, IInv, ThreadControl, StripeControl
<1>2. /\ N \in Nat /\ p \in Nat /\ start[t] \in Nat
      /\ arr \in [0..(N - 1) -> Int]
      /\ ntuples[i] \in Nat /\ count[t] \in Nat
  <2>1. N \in Nat /\ ntuples[i] \in Nat
    BY <1>1, TypeFacts DEF IInv
  <2>2. p \in Nat /\ start[t] \in Nat /\ count[t] \in Nat
    BY TypeFacts DEF IInv
  <2>3. arr \in [0..(N - 1) -> Int]
    BY <1>1 DEF IInv, TypeOK
  <2> QED
    BY <2>1, <2>2, <2>3
<1>3. p < N
  <2>1. p < EndOf(i, start[t])
    BY DEF ScanRow
  <2> QED
    BY <1>2, <2>1 DEF EndOf, Lowest
<1>4. n = Tuples(i) /\ n \in Nat
  <2>1. num_pos[t] = ntuples[i]
    BY <1>1 DEF IInv, ThreadControl, RowControl
  <2> QED
    BY <1>1, <1>2, <2>1 DEF Tuples
<1>5. RowsDone(i) = p
  BY <1>1, <1>2, <1>3 DEF RowsDone, RowReached, Lowest
<1>6. IsSelection(q, arr, n, p) /\ \A j \in DOMAIN arr : j >= n => arr[j] = 0
  BY <1>1, <1>4, <1>5 DEF IInv, PrefixExact
<1>7. n \in 0..(N - 1) /\ arr[n] = 0
  <2>1. n <= p
    BY <1>6 DEF IsSelection
  <2>2. n \in 0..(N - 1)
    BY <2>1, <1>2, <1>3, <1>4
  <2> QED
    BY <2>2, <1>2, <1>6
<1>8. /\ positions'[i] = [arr EXCEPT ![n] = OrInto(arr[n], IF Qualifies(q, p) THEN p ELSE 0)]
      /\ \A j \in TaskIds \ {i} : positions'[j] = positions[j]
      /\ positions' = [j \in TaskIds |-> positions'[j]]
  BY <1>1, <1>2, <1>7 DEF ScanRow, IInv, TypeOK
<1>9. Tuples(i)' = n + (IF Qualifies(q, p) THEN 1 ELSE 0)
  <2>1. /\ Owner(i)' = t /\ pc'[t] = "row" /\ index'[t] = i /\ ntuples' = ntuples
        /\ count'[t] = count[t] + (IF Qualifies(q, p) THEN 1 ELSE 0)
    BY <1>1 DEF ScanRow, serverVars, Owner, IInv, TypeOK
  <2>2. num_pos[t] = ntuples[i]
    BY <1>1 DEF IInv, ThreadControl, RowControl
  <2>3. Tuples(i)' = ntuples[i] + count'[t]
    BY <2>1 DEF Tuples
  <2> QED
    BY <1>2, <2>1, <2>2, <2>3
<1> HIDE DEF i, n, p, N, arr, q
<1>10. CASE Qualifies(q, p)
  <2>1. positions'[i] = [arr EXCEPT ![n] = p] /\ Tuples(i)' = n + 1
    BY <1>7, <1>8, <1>9, <1>10 DEF OrInto
  <2>2. IsSelection(q, positions'[i], n + 1, p + 1)
    <3>1. IsSelection(q, [arr EXCEPT ![n] = p], n + 1, p + 1)
      BY <1>2, <1>3, <1>4, <1>6, <1>10, SelectionTake
    <3> QED
      BY <2>1, <3>1
  <2>3. \A j \in DOMAIN positions'[i] : j >= n + 1 => positions'[i][j] = 0
    <3> SUFFICES ASSUME NEW j \in DOMAIN positions'[i], j >= n + 1
                 PROVE  positions'[i][j] = 0
      OBVIOUS
    <3>1. j \in DOMAIN arr /\ j \in Int
      BY <1>2, <2>1
    <3>2. j # n /\ j >= n
      BY <1>4, <3>1
    <3> QED
      BY <1>6, <2>1, <3>1, <3>2
  <2>4. positions'[i] \in [0..(N - 1) -> Int]
    <3>1. p \in Int
      BY <1>2
    <3> QED
      BY <1>2, <2>1, <3>1
  <2> QED
    BY <1>1, <1>2, <1>3, <1>5, <1>8, <2>1, <2>2, <2>3, <2>4 DEF i, p, N, q
<1>11. CASE ~Qualifies(q, p)
  <2>1. positions'[i] = arr /\ Tuples(i)' = n
    BY <1>2, <1>4, <1>7, <1>8, <1>9, <1>11 DEF OrInto
  <2>2. IsSelection(q, positions'[i], n, p + 1)
    BY <1>2, <1>4, <1>6, <1>11, <2>1, SelectionSkip
  <2>3. \A j \in DOMAIN positions'[i] : j >= n => positions'[i][j] = 0
    BY <1>6, <2>1
  <2> QED
    BY <1>1, <1>2, <1>3, <1>5, <1>8, <2>1, <2>2, <2>3 DEF i, p, N, q
<1> QED
  BY <1>10, <1>11

\* One row more is dealt with, in the task the thread is in and in no other.
LEMMA ScanRowIInv ==
  ASSUME NEW t \in Threads, IInv, ScanRow(t)
  PROVE  IInv'
<1> USE DEF batchVars, serverVars
<1>0. PICK i0 \in TaskIds : i0 = index[t]
  BY DEF ScanRow, IInv, ThreadControl, StripeControl
<1>1. /\ i0 = index[t] /\ Owner(i0) = t /\ Running /\ pc[t] = "row"
      /\ UNCHANGED <<batchVars, ntuples, vpool, serverVars, pc, start, index, isdone, num_pos>>
      /\ pos' = [pos EXCEPT ![t] = @ + 1]
      /\ TaskIds' = TaskIds /\ Running'
  BY <1>0, ScanRowGrows, StripeFacts DEF ScanRow, Running, TaskIds
<1>2. TypeOK'
  <2>1. \A i \in TaskIds : positions'[i] \in [0..(NumRowsOf(i)' - 1) -> Int]
    BY <1>1, ScanRowGrows DEF IInv, TypeOK, NumRowsOf, ColOf
  <2>2. positions' = [i \in TaskIds |-> positions'[i]]
    BY ScanRowGrows
  <2>3. pos' \in [Threads -> Nat]
    <3>1. pos[t] + 1 \in Nat /\ pos \in [Threads -> Nat]
      <4>1. pos[t] \in Nat
        BY TypeFacts DEF IInv
      <4>2. pos \in [Threads -> Nat]
        BY DEF IInv, TypeOK
      <4> QED
        BY <4>1, <4>2
    <3> QED
      BY <1>1, <3>1, UpdateType
  <2>4. count' \in [Threads -> Nat]
    <3>1. PICK d \in {0, 1} : count' = [count EXCEPT ![t] = count[t] + d]
      BY DEF ScanRow
    <3>2. count[t] + d \in Nat /\ count \in [Threads -> Nat]
      <4>1. count[t] \in Nat
        BY TypeFacts DEF IInv
      <4>2. count \in [Threads -> Nat]
        BY DEF IInv, TypeOK
      <4> QED
        BY <4>1, <4>2
    <3> QED
      BY <3>1, <3>2, UpdateType
  <2> QED
    BY <1>1, <2>1, <2>2, <2>3, <2>4 DEF IInv, TypeOK, IsVector
<1>3. ServerControl' /\ FreshTasks'
  BY <1>1, <1>2, ThreadKeepsServer DEF TypeOK
<1>4. ThreadControl'
  <2> SUFFICES ASSUME NEW u \in Threads, pc'[u] # "none"
               PROVE  StripeControl(u)' /\ (pc'[u] = "row" => RowControl(u)')
    BY DEF ThreadControl
  <2>1. CASE u = t
    <3>1. StripeControl(t) /\ RowControl(t)
      BY <1>1 DEF IInv, ThreadControl
    <3>2. StripeControl(t)'
      BY <1>1, <3>1 DEF StripeControl, NumRowsOf, ColOf
    <3>0. NumRowsOf(i0) \in Nat /\ pos[t] \in Nat /\ start[t] \in Nat
      BY TypeFacts DEF IInv
    <3>3. /\ pos[t] < EndOf(i0, start[t]) /\ pos'[t] = pos[t] + 1
          /\ EndOf(i0, start[t]) \in Nat
      <4>1. pos[t] < EndOf(i0, start[t])
        BY <1>1 DEF ScanRow
      <4>2. pos'[t] = pos[t] + 1
        BY <1>1 DEF IInv, TypeOK
      <4>3. EndOf(i0, start[t]) \in Nat
        BY <3>0 DEF EndOf, Lowest
      <4> QED
        BY <4>1, <4>2, <4>3
    <3>4. EndOf(i0, start[t])' = EndOf(i0, start[t])
      BY <1>1 DEF EndOf, NumRowsOf, ColOf
    <3>5. RowControl(t)'
      BY <1>1, <3>0, <3>1, <3>3, <3>4 DEF RowControl
    <3> QED
      BY <2>1, <3>2, <3>5
  <2>2. CASE u # t
    BY <1>1, <2>2, OtherThreadKeeps DEF IInv, TypeOK
  <2> QED
    BY <2>1, <2>2
<1>5. PrefixExact'
  <2> SUFFICES ASSUME NEW i \in TaskIds
               PROVE  /\ IsSelection(task[i].query, positions'[i], Tuples(i)', RowsDone(i)')
                      /\ \A j \in DOMAIN positions'[i] : j >= Tuples(i)' => positions'[i][j] = 0
    BY <1>1 DEF PrefixExact
  <2>1. CASE i = i0
    <3>0. NumRowsOf(i0) \in Nat
      BY TypeFacts DEF IInv
    <3>1. pos[t] \in Nat /\ pos[t] < NumRowsOf(i0) /\ NumRowsOf(i0) \in Nat
      BY <1>1, <3>0, ScanRowGrows
    <3>2. pos'[t] = pos[t] + 1 /\ Owner(i0)' = t /\ pc'[t] = "row" /\ index'[t] = i0
      BY <1>1 DEF Owner, IInv, TypeOK
    <3>3. RowReached(i0)' = pos[t] + 1
      BY <3>2 DEF RowReached
    <3>4. NumRowsOf(i0)' = NumRowsOf(i0)
      BY <1>1 DEF NumRowsOf, ColOf
    <3>5. RowsDone(i0)' = pos[t] + 1
      BY <3>1, <3>3, <3>4 DEF RowsDone, Lowest
    <3>6. /\ IsSelection(task[i0].query, positions'[i0], Tuples(i0)', pos[t] + 1)
          /\ \A j \in DOMAIN positions'[i0] : j >= Tuples(i0)' => positions'[i0][j] = 0
      <4>1. Tuples(index[t])' = Tuples(i0)'
        BY <1>1
      <4> QED
        BY <1>1, <4>1, ScanRowGrows
    <3>7. task'[i0] = task[i0] /\ IsSelection(task[i0].query, positions'[i0], Tuples(i0)', RowsDone(i0)')
      BY <1>1, <3>5, <3>6
    <3> QED
      BY <2>1, <3>6, <3>7
  <2>2. CASE i # i0
    <3>1. positions'[i] = positions[i]
      BY <1>1, <2>2, ScanRowGrows
    <3>2. Tuples(i)' = Tuples(i) /\ RowsDone(i)' = RowsDone(i)
      <4>1. Owner(i) \in Threads /\ Owner(i)' = Owner(i)
        BY <1>1, OwnerFacts DEF IInv, Owner
      <4>2. CASE Owner(i) = t
        BY <1>1, <2>2, <4>1, <4>2 DEF Tuples, RowsDone, RowReached, NumRowsOf, ColOf
      <4>3. CASE Owner(i) # t
        <5>1. \A u \in Threads \ {t} : pos'[u] = pos[u] /\ count'[u] = count[u]
          BY DEF ScanRow, IInv, TypeOK
        <5> QED
          BY <1>1, <4>1, <4>3, <5>1, OtherTaskKeeps
      <4> QED
        BY <4>2, <4>3
    <3> QED
      BY <1>1, <3>1, <3>2 DEF IInv, PrefixExact
  <2> QED
    BY <2>1, <2>2
<1> QED
  BY <1>2, <1>3, <1>4, <1>5 DEF IInv

\* The locals are added to the task; the thread stands one task on.
LEMMA EndVectorIInv ==
  ASSUME NEW t \in Threads, IInv, EndVector(t)
  PROVE  IInv'
<1> USE DEF batchVars, serverVars
<1>0. PICK i0 \in TaskIds : i0 = index[t]
  BY DEF EndVector, IInv, ThreadControl, StripeControl
<1>1. /\ i0 \in TaskIds /\ i0 = index[t] /\ Owner(i0) = t /\ Running /\ pc[t] = "row"
      /\ nthreads \in Nat \ {0} /\ t \in Nat /\ i0 \in Nat /\ t <= i0
      /\ UNCHANGED <<batchVars, positions, vpool, serverVars, start, pos, num_pos, count>>
      /\ TaskIds' = TaskIds /\ Running'
  <2>1. pc[t] = "row" /\ index[t] \in TaskIds
    BY DEF EndVector, IInv, ThreadControl, StripeControl
  <2> QED
    BY <1>0, <2>1, StripeFacts DEF EndVector, Running, TaskIds
<1>2. /\ ntuples[i0] \in Nat /\ count[t] \in Nat /\ start[t] \in Nat /\ pos[t] \in Nat
      /\ NumRowsOf(i0) \in Nat
  BY <1>1 DEF IInv, TypeOK, NumRowsOf, ColOf
<1>3. /\ pc'[t] = "pick" /\ index'[t] = i0 + nthreads
      /\ isdone'[t] = ReachedEnd(i0, start[t])
      /\ ntuples'[i0] = ntuples[i0] + count[t]
      /\ \A i \in TaskIds \ {i0} : ntuples'[i] = ntuples[i]
      /\ \A u \in Threads \ {t} : /\ pc'[u] = pc[u]
                                  /\ index'[u] = index[u]
                                  /\ isdone'[u] = isdone[u]
  BY <1>1 DEF EndVector, IInv, TypeOK, NextInStripe
<1>4. TypeOK'
  <2>1. ntuples' \in [TaskIds -> Nat]
    <3>1. ntuples' = [ntuples EXCEPT ![i0] = ntuples[i0] + count[t]]
      BY <1>1 DEF EndVector
    <3>2. ntuples[i0] + count[t] \in Nat
      BY <1>2
    <3> QED
      BY <3>1, <3>2 DEF IInv, TypeOK
  <2>2. \A i \in TaskIds : positions'[i] \in [0..(NumRowsOf(i)' - 1) -> Int]
    BY <1>1 DEF IInv, TypeOK, NumRowsOf, ColOf
  <2>3. /\ pc' \in [Threads -> {"none", "pick", "row", "exited"}]
        /\ index' \in [Threads -> Nat]
    <3>1. index' = [index EXCEPT ![t] = index[t] + nthreads] /\ index[t] + nthreads \in Nat
      BY <1>1 DEF EndVector, NextInStripe
    <3>2. index' \in [Threads -> Nat]
      BY <3>1, UpdateType DEF IInv, TypeOK
    <3>3. pc' = [pc EXCEPT ![t] = "pick"]
      BY DEF EndVector
    <3>4. pc' \in [Threads -> {"none", "pick", "row", "exited"}]
      BY <3>3, UpdateType DEF IInv, TypeOK
    <3> QED
      BY <3>2, <3>4
  <2>4. isdone' \in [Threads -> BOOLEAN]
    <3>1. ReachedEnd(i0, start[t]) \in BOOLEAN
      BY DEF ReachedEnd
    <3>2. isdone' = [isdone EXCEPT ![t] = ReachedEnd(i0, start[t])]
      BY <1>1 DEF EndVector
    <3> QED
      BY <3>1, <3>2 DEF IInv, TypeOK
  <2> QED
    BY <1>1, <2>1, <2>2, <2>3, <2>4 DEF IInv, TypeOK, IsVector
<1>5. ServerControl' /\ FreshTasks'
  BY <1>1, <1>3, <1>4, ThreadKeepsServer DEF TypeOK
<1>6. ThreadControl'
  <2> SUFFICES ASSUME NEW u \in Threads, pc'[u] # "none"
               PROVE  StripeControl(u)' /\ (pc'[u] = "row" => RowControl(u)')
    BY DEF ThreadControl
  <2>1. CASE u = t
    <3>1. (i0 + nthreads) % nthreads = t
      BY <1>1, StripeStep DEF Owner
    <3>2. isdone'[t] => start[t] + VEC_SIZE >= NumRowsOf(i0)
      <4>1. ReachedEnd(i0, start[t]) => start[t] + VEC_SIZE >= NumRowsOf(i0)
        BY <1>2 DEF ReachedEnd, EndOf, Lowest
      <4> QED
        BY <1>3, <4>1
    <3>3. NumRowsOf(i0)' = NumRowsOf(i0)
      BY <1>1 DEF NumRowsOf, ColOf
    <3>4. index'[t] - nthreads' = i0 /\ index'[t] # t
      BY <1>1, <1>3
    <3>5. StripeControl(t)'
      <4>1. index'[t] % nthreads' = t /\ start'[t] = start[t]
        BY <1>1, <1>3, <3>1
      <4>3. NumRowsOf(index[t] - nthreads)' = NumRowsOf(i0)
        BY <1>1, <3>4 DEF NumRowsOf, ColOf
      <4>4. (index[t] - nthreads)' \in TaskIds'
        BY <1>1, <3>4
      <4>5. isdone'[t] => start'[t] + VEC_SIZE >= NumRowsOf(index[t] - nthreads)'
        BY <3>2, <4>1, <4>3
      <4> QED
        BY <1>1, <1>3, <3>4, <4>1, <4>4, <4>5 DEF StripeControl
    <3> QED
      BY <1>3, <2>1, <3>5
  <2>2. CASE u # t
    <3>1. ASSUME pc[u] = "row" PROVE ntuples'[index[u]] = ntuples[index[u]]
      <4>1. index[u] \in TaskIds /\ Owner(index[u]) = u
        BY <3>1, StripeFacts DEF IInv, ThreadControl, StripeControl
      <4> QED
        BY <1>1, <1>3, <2>2, <4>1
    <3> QED
      BY <1>1, <1>3, <2>2, <3>1, OtherThreadKeeps
  <2> QED
    BY <2>1, <2>2
<1>7. ASSUME NEW i \in TaskIds
      PROVE  Tuples(i)' = Tuples(i) /\ RowsDone(i)' = RowsDone(i)
  <2>1. /\ Owner(i) \in Threads /\ Owner(i)' = Owner(i) /\ i \in Nat
        /\ NumRowsOf(i)' = NumRowsOf(i)
    BY <1>1, OwnerFacts DEF IInv, Owner, NumRowsOf, ColOf
  <2>2. CASE i = i0
    <3>1. Tuples(i)' = Tuples(i)
      <4>1. Tuples(i) = ntuples[i0] + count[t]
        BY <1>1, <2>2 DEF Tuples
      <4>2. Tuples(i)' = ntuples'[i0] + 0
        BY <1>3, <2>1, <2>2, <1>1 DEF Tuples
      <4> QED
        BY <1>2, <1>3, <4>1, <4>2
    <3>2. RowReached(i) = pos[t] /\ RowReached(i)' = start[t] + VEC_SIZE
      BY <1>1, <1>3, <2>1, <2>2 DEF RowReached
    <3>3. /\ pos[t] >= EndOf(i0, start[t])
          /\ pos[t] = start[t] \/ (pos[t] > start[t] /\ pos[t] <= EndOf(i0, start[t]))
      BY <1>1 DEF EndVector, IInv, ThreadControl, RowControl
    <3>4. RowsDone(i)' = RowsDone(i)
      <4>1. Lowest(pos[t], NumRowsOf(i0)) = Lowest(start[t] + VEC_SIZE, NumRowsOf(i0))
        <5>1. CASE start[t] + VEC_SIZE < NumRowsOf(i0)
          <6>1. EndOf(i0, start[t]) = start[t] + VEC_SIZE
            BY <5>1 DEF EndOf, Lowest
          <6>2. pos[t] = start[t] + VEC_SIZE
            <7>1. VEC_SIZE \in Nat /\ VEC_SIZE > 0
              BY ScanAssumption
            <7>2. pos[t] >= start[t] + VEC_SIZE
              BY <3>3, <6>1
            <7>3. pos[t] # start[t]
              BY <1>2, <7>1, <7>2
            <7> QED
              BY <1>2, <3>3, <6>1, <7>1, <7>2, <7>3
          <6> QED
            BY <6>2
        <5>2. CASE ~(start[t] + VEC_SIZE < NumRowsOf(i0))
          <6>1. EndOf(i0, start[t]) = NumRowsOf(i0)
            BY <5>2 DEF EndOf, Lowest
          <6>2. ~(pos[t] < NumRowsOf(i0))
            BY <1>2, <3>3, <6>1
          <6> QED
            BY <5>2, <6>2 DEF Lowest
        <5> QED
          BY <5>1, <5>2
      <4> QED
        BY <2>1, <2>2, <3>2, <4>1 DEF RowsDone
    <3> QED
      BY <3>1, <3>4
  <2>3. CASE i # i0 /\ Owner(i) = t
    <3>1. i > i0 => i >= i0 + nthreads
      BY <1>1, <2>3, StripeFacts
    <3>2. RowReached(i)' = RowReached(i)
      BY <1>1, <1>3, <2>1, <2>3, <3>1 DEF RowReached
    <3>3. Tuples(i)' = Tuples(i)
      BY <1>1, <1>3, <2>1, <2>3 DEF Tuples
    <3> QED
      BY <2>1, <3>2, <3>3 DEF RowsDone
  <2>4. CASE Owner(i) # t
    BY <1>1, <1>3, <2>1, <2>4, OtherTaskKeeps
  <2> QED
    BY <2>2, <2>3, <2>4
<1>8. PrefixExact'
  BY <1>1, <1>7, FramePrefix DEF IInv
<1> QED
  BY <1>4, <1>5, <1>6, <1>8 DEF IInv

\* The next vector begins where this one ended for every task of the stripe.
LEMMA NextVectorIInv ==
  ASSUME NEW t \in Threads, IInv, NextVector(t)
  PROVE  IInv'
<1> USE DEF batchVars, taskVars, serverVars
<1>1. /\ Running /\ pc[t] = "pick" /\ index[t] >= arr_size
      /\ nthreads \in Nat \ {0} /\ t \in Nat /\ t < nthreads /\ index[t] \in Nat /\ t <= index[t]
      /\ UNCHANGED <<batchVars, taskVars, vpool, serverVars, isdone, pos, num_pos, count>>
      /\ TaskIds' = TaskIds /\ Running'
  BY StripeFacts DEF NextVector, Running, TaskIds
<1>2. arr_size \in Nat /\ t < arr_size /\ start[t] \in Nat
  BY <1>1 DEF IInv, TypeOK, Lowest
<1>3. /\ start'[t] = start[t] + VEC_SIZE
      /\ isdone[t] => pc'[t] = "exited" /\ index'[t] = index[t]
      /\ ~isdone[t] => pc'[t] = "pick" /\ index'[t] = t
      /\ \A u \in Threads \ {t} : /\ pc'[u] = pc[u]
                                  /\ index'[u] = index[u]
                                  /\ start'[u] = start[u]
  BY DEF NextVector, IInv, TypeOK
<1>4. TypeOK'
  <2>1. \A i \in TaskIds : positions'[i] \in [0..(NumRowsOf(i)' - 1) -> Int]
    BY <1>1 DEF IInv, TypeOK, NumRowsOf, ColOf
  <2>2. /\ pc' \in [Threads -> {"none", "pick", "row", "exited"}]
        /\ start' \in [Threads -> Nat]
        /\ index' \in [Threads -> Nat]
    <3>1. pc' \in [Threads -> {"none", "pick", "row", "exited"}]
      BY <1>1 DEF NextVector, IInv, TypeOK
    <3>2. start' \in [Threads -> Nat]
      <4>1. start' = [start EXCEPT ![t] = start[t] + VEC_SIZE] /\ start[t] + VEC_SIZE \in Nat
        BY TypeFacts DEF NextVector, IInv
      <4> QED
        BY <4>1, UpdateType DEF IInv, TypeOK
    <3>3. index' \in [Threads -> Nat]
      <4>1. index' = index \/ index' = [index EXCEPT ![t] = t]
        BY DEF NextVector
      <4>2. index \in [Threads -> Nat]
        BY DEF IInv, TypeOK
      <4> QED
        BY <1>1, <4>1, <4>2, UpdateType
    <3> QED
      BY <3>1, <3>2, <3>3
  <2> QED
    BY <1>1, <2>1, <2>2 DEF IInv, TypeOK, IsVector
<1>5. ServerControl' /\ FreshTasks'
  <2>1. pc'[t] # "none"
    BY <1>3 DEF IInv, TypeOK
  <2> QED
    BY <1>1, <1>3, <1>4, <2>1, ThreadKeepsServer DEF TypeOK
<1>6. ThreadControl'
  <2> SUFFICES ASSUME NEW u \in Threads, pc'[u] # "none"
               PROVE  StripeControl(u)' /\ (pc'[u] = "row" => RowControl(u)')
    BY DEF ThreadControl
  <2>1. CASE u = t
    <3>1. StripeControl(t)
      BY <1>1 DEF IInv, ThreadControl
    <3>2. CASE isdone[t]
      <4>1. index[t] # t /\ index[t] - nthreads \in TaskIds
        BY <1>1, <3>1, <3>2 DEF StripeControl
      <4>2. start'[t] >= NumRowsOf(index[t] - nthreads)
        BY <1>1, <1>3, <3>1, <3>2 DEF StripeControl
      <4>3. NumRowsOf(index[t] - nthreads)' = NumRowsOf(index[t] - nthreads)
        BY <1>1, <1>3, <3>2 DEF NumRowsOf, ColOf
      <4>4. StripeControl(t)'
        BY <1>1, <1>3, <3>1, <3>2, <4>1, <4>2, <4>3 DEF StripeControl
      <4> QED
        BY <1>3, <2>1, <3>2, <4>4
    <3>3. CASE ~isdone[t]
      <4>1. t % nthreads = t
        <5>1. t \in 0..(nthreads - 1)
          BY <1>1
        <5> QED
          BY <1>1, <5>1, ModOfSmall
      <4>2. StripeControl(t)'
        BY <1>1, <1>3, <3>3, <4>1 DEF StripeControl
      <4> QED
        BY <1>3, <2>1, <3>3, <4>2
    <3> QED
      BY <3>2, <3>3
  <2>2. CASE u # t
    BY <1>1, <1>3, <2>2, OtherThreadKeeps
  <2> QED
    BY <2>1, <2>2
<1>7. ASSUME NEW i \in TaskIds
      PROVE  Tuples(i)' = Tuples(i) /\ RowsDone(i)' = RowsDone(i)
  <2>1. /\ Owner(i) \in Threads /\ Owner(i)' = Owner(i) /\ i \in Nat /\ i < arr_size
        /\ NumRowsOf(i)' = NumRowsOf(i)
    BY <1>1, <1>2, OwnerFacts DEF IInv, Owner, NumRowsOf, ColOf, TaskIds
  <2>2. CASE Owner(i) = t
    <3>1. t <= i
      BY <1>1, <2>2, StripeFacts
    <3>2. RowReached(i) = start[t] + VEC_SIZE
      BY <1>1, <1>2, <2>1, <2>2 DEF RowReached
    <3>3. RowReached(i)' = start[t] + VEC_SIZE
      BY <1>1, <1>2, <1>3, <2>1, <2>2, <3>1 DEF RowReached
    <3>4. pc'[t] # "row"
      BY <1>3 DEF IInv, TypeOK
    <3>5. Tuples(i)' = Tuples(i)
      BY <1>1, <2>1, <2>2, <3>4 DEF Tuples
    <3> QED
      BY <2>1, <3>2, <3>3, <3>5 DEF RowsDone
  <2>3. CASE Owner(i) # t
    BY <1>1, <1>3, <2>1, <2>3, OtherTaskKeeps
  <2> QED
    BY <2>2, <2>3
<1>8. PrefixExact'
  BY <1>1, <1>7, FramePrefix DEF IInv
<1> QED
  BY <1>4, <1>5, <1>6, <1>8 DEF IInv
-------------------------------------------------------------------------------
(* Theorems *)

\* The invariant is inductive.
LEMMA StepIInv == IInv /\ [Next]_vars => IInv'
<1> SUFFICES ASSUME IInv, [Next]_vars PROVE IInv'
  OBVIOUS
<1>1. CASE BatchQueries
  BY <1>1, BatchQueriesIInv
<1>2. ASSUME NEW q \in Queries, NEW h \in Handles, BatchSelect(q, h) PROVE IInv'
  BY <1>2, BatchSelectIInv
<1>3. CASE BatchExecute
  BY <1>3, BatchExecuteIInv
<1>4. CASE CreateThread
  BY <1>4, CreateThreadIInv
<1>5. CASE AllCreated \/ JoinThread \/ AllJoined
  BY <1>5, ServerMovesIInv
<1>6. CASE Publish
  BY <1>6, PublishIInv
<1>7. CASE AllPublished
  BY <1>7, AllPublishedIInv
<1>8. ASSUME NEW t \in Threads, BeginVector(t) PROVE IInv'
  BY <1>8, BeginVectorIInv
<1>9. ASSUME NEW t \in Threads, ScanRow(t) PROVE IInv'
  BY <1>9, ScanRowIInv
<1>10. ASSUME NEW t \in Threads, EndVector(t) PROVE IInv'
  BY <1>10, EndVectorIInv
<1>11. ASSUME NEW t \in Threads, NextVector(t) PROVE IInv'
  BY <1>11, NextVectorIInv
<1>12. CASE UNCHANGED vars
  <2> USE <1>12 DEF vars, batchVars, taskVars, serverVars, threadVars
  <2>1. TypeOK'
    BY DEF IInv, TypeOK, Running, TaskIds, IsVector, NumRowsOf, ColOf
  <2>2. ServerControl'
    BY DEF IInv, ServerControl, Running
  <2>3. ThreadControl'
    BY DEF IInv, ThreadControl, StripeControl, RowControl, TaskIds, NumRowsOf, ColOf, EndOf
  <2>4. FreshTasks'
    BY DEF IInv, FreshTasks, Running, TaskIds
  <2>5. PrefixExact'
    BY DEF IInv, PrefixExact, Running, TaskIds, NumRowsOf, ColOf, Tuples, RowsDone, RowReached, Owner
  <2> QED
    BY <2>1, <2>2, <2>3, <2>4, <2>5 DEF IInv
<1> QED
  BY <1>1, <1>2, <1>3, <1>4, <1>5, <1>6, <1>7, <1>8, <1>9, <1>10, <1>11, <1>12
     DEF Next, Client, Server, Scan

\* The inductive invariant holds in every reachable state.
THEOREM Invariance == Spec => []IInv
<1>1. Init => IInv
  BY InitIInv
<1>2. IInv /\ [Next]_vars => IInv'
  BY StepIInv
<1> QED
  BY <1>1, <1>2, PTL DEF Spec

\* Every variable keeps its type (all of SharedScan's actions).
THEOREM TypeCorrect == Spec => []TypeOK
<1>1. IInv => TypeOK
  BY DEF IInv
<1> QED
  BY <1>1, Invariance, PTL

\* At every row of every interleaving of the scan threads, a task's cells are
\* the exact answer for the rows its thread has passed (shared_scan and the
\* db_select_shared_*_op functions).
THEOREM PrefixCorrect == Spec => []PrefixExact
<1>1. IInv => PrefixExact
  BY DEF IInv
<1> QED
  BY <1>1, Invariance, PTL

\* Two threads are never inside the select function of one task, so that the
\* unlocked read and write of *ntuples do not race (shared_scan's stripes).
THEOREM StripesDisjoint == Spec => []NoSharedTask
<1>1. IInv => NoSharedTask
  <2> SUFFICES ASSUME IInv, NEW t \in Threads, NEW u \in Threads,
                      pc[t] = "row", pc[u] = "row", index[t] = index[u]
               PROVE  t = u
    BY DEF NoSharedTask
  <2>1. index[t] \in TaskIds /\ index[u] \in TaskIds
    BY DEF IInv, ThreadControl, StripeControl
  <2>2. Owner(index[t]) = t /\ Owner(index[u]) = u
    BY <2>1, StripeFacts
  <2> QED
    BY <2>2
<1> QED
  BY <1>1, Invariance, PTL

\* The cell a row is OR-ed into exists (calloc of nallocsz cells).
THEOREM CellsInBounds == Spec => []CellInBounds
<1>1. IInv => CellInBounds
  <2> SUFFICES ASSUME IInv, NEW t \in Threads, pc[t] = "row",
                      pos[t] < EndOf(index[t], start[t])
               PROVE  /\ index[t] \in TaskIds
                      /\ num_pos[t] + count[t] \in DOMAIN positions[index[t]]
    BY DEF CellInBounds
  <2>1. PICK i \in TaskIds : i = index[t] /\ Owner(i) = t /\ Running
    BY StripeFacts DEF IInv, ThreadControl, StripeControl
  <2>2. /\ NumRowsOf(i) \in Nat /\ pos[t] \in Nat /\ start[t] \in Nat
        /\ ntuples[i] \in Nat /\ count[t] \in Nat
    BY TypeFacts DEF IInv
  <2>3. pos[t] < NumRowsOf(i)
    BY <2>1, <2>2 DEF EndOf, Lowest
  <2>4. num_pos[t] = ntuples[i]
    BY <2>1 DEF IInv, ThreadControl, RowControl
  <2>5. Tuples(i) = num_pos[t] + count[t] /\ RowsDone(i) = pos[t]
    BY <2>1, <2>2, <2>3, <2>4 DEF Tuples, RowsDone, RowReached, Lowest
  <2>6. num_pos[t] + count[t] <= pos[t]
    BY <2>1, <2>5 DEF IInv, PrefixExact, IsSelection
  <2>7. DOMAIN positions[i] = 0..(NumRowsOf(i) - 1)
    BY DEF IInv, TypeOK
  <2> QED
    BY <2>1, <2>2, <2>3, <2>4, <2>6, <2>7
<1> QED
  BY <1>1, Invariance, PTL

\* What a joined batch holds: every task's array answers its select for the
\* rows of its own column or, if that is shorter, of its stripe's last column.
LEMMA JoinedIsExact ==
  ASSUME IInv, spc = "destroy", NEW i \in TaskIds
  PROVE  \E m \in 0..NumRowsOf(i) :
            /\ LastOf(i) \in TaskIds
            /\ m >= Lowest(NumRowsOf(i), NumRowsOf(LastOf(i)))
            /\ IsSelection(task[i].query, positions[i], ntuples[i], m)
<1> DEFINE t == Owner(i)
           last == index[t] - nthreads
<1>1. Running
  BY DEF Running
<1>2. t \in Threads /\ nthreads \in Nat \ {0} /\ t < nthreads
  BY <1>1, OwnerFacts DEF IInv
<1>3. pc[t] = "exited" /\ IsSelection(task[i].query, positions[i], ntuples[i], RowsDone(i))
  BY TuplesWhenJoined
<1>4. /\ index[t] % nthreads = t /\ index[t] \in Nat
      /\ index[t] >= arr_size /\ start[t] \in Nat /\ arr_size \in Nat
      /\ start[t] >= NumRowsOf(last)
  <2>1. index[t] \in Nat /\ start[t] \in Nat /\ arr_size \in Nat
    BY <1>2, TypeFacts DEF IInv, TypeOK
  <2>2. StripeControl(t)
    BY <1>2, <1>3 DEF IInv, ThreadControl
  <2> QED
    BY <1>3, <2>1, <2>2 DEF StripeControl
<1>5. last \in TaskIds
  BY <1>2, <1>3 DEF IInv, ThreadControl, StripeControl
<1>6. Owner(last) = t /\ last + nthreads >= arr_size /\ last \in Nat
  <2>1. last \in Nat /\ last + nthreads = index[t]
    BY <1>2, <1>4, <1>5 DEF TaskIds
  <2>2. last % nthreads = t
    BY <1>2, <1>4, <2>1, StripeStep
  <2> QED
    BY <1>4, <2>1, <2>2 DEF Owner
<1>7. LastOf(i) = last
  <2>1. ASSUME NEW j \in TaskIds, Owner(j) = Owner(i), j + nthreads >= arr_size
        PROVE  j = last
    <3>1. j \in Nat /\ j < arr_size /\ last < arr_size
      BY <1>4, <1>5 DEF TaskIds
    <3>2. j % nthreads = last % nthreads
      BY <1>6, <2>1 DEF Owner
    <3>3. j < last => j + nthreads <= last
      BY <1>2, <1>6, <3>1, <3>2, StripeGap
    <3>4. last < j => last + nthreads <= j
      BY <1>2, <1>6, <3>1, <3>2, StripeGap
    <3> QED
      BY <1>2, <1>4, <1>6, <2>1, <3>1, <3>3, <3>4
  <2> QED
    BY <1>5, <1>6, <2>1 DEF LastOf
<1>8. /\ NumRowsOf(i) \in Nat /\ NumRowsOf(last) \in Nat
  BY <1>5, TypeFacts DEF IInv
<1>9. RowsDone(i) = Lowest(start[t], NumRowsOf(i))
  BY <1>3 DEF RowsDone, RowReached
<1>10. RowsDone(i) \in 0..NumRowsOf(i) /\ RowsDone(i) >= Lowest(NumRowsOf(i), NumRowsOf(last))
  BY <1>4, <1>8, <1>9 DEF Lowest
<1> QED
  BY <1>3, <1>5, <1>7, <1>10

\* What a batch publishes is exact for the whole column of each select, or for
\* at least the rows of the last column of its stripe (shared_scan).
THEOREM PublishedExact == Spec => []BatchExact
<1>1. IInv => BatchExact
  BY JoinedIsExact DEF BatchExact
<1> QED
  BY <1>1, Invariance, PTL

\* A handle's positions change only after every scan thread has exited, and
\* then the task arrays stay as they are (destroy_threadpool before
\* tarray_destroy).
THEOREM PublicationWaits == Spec => PublishedAfterJoin
<1>1. ASSUME IInv, [Next]_vars
      PROVE  [ \A h \in Handles : vpool'[h] # vpool[h] /\ vpool'[h].kind = "posvec"
                 => /\ \A t \in Threads : pc[t] \notin {"pick", "row"}
                    /\ UNCHANGED taskVars ]_vars
  <2> SUFFICES ASSUME NEW h \in Handles, vpool'[h] # vpool[h], vpool'[h].kind = "posvec"
               PROVE  /\ \A t \in Threads : pc[t] \notin {"pick", "row"}
                      /\ UNCHANGED taskVars
    OBVIOUS
  <2>1. CASE Publish
    <3>1. Running /\ spc = "destroy"
      BY <2>1 DEF Publish, Running
    <3>2. \A t \in Threads : pc[t] \in {"none", "exited"}
      <4> SUFFICES ASSUME NEW t \in Threads PROVE pc[t] \in {"none", "exited"}
        OBVIOUS
      <4>1. t \in Nat /\ nthreads \in Nat
        BY <1>1, <3>1 DEF IInv, TypeOK, Threads, Lowest, TaskIds
      <4>2. t >= nthreads => pc[t] = "none"
        BY <1>1 DEF IInv, ServerControl
      <4>3. t < nthreads => pc[t] = "exited"
        BY <1>1, <3>1 DEF IInv, ServerControl
      <4> QED
        BY <4>1, <4>2, <4>3
    <3> QED
      BY <2>1, <3>2 DEF Publish
  <2>2. ASSUME NEW q \in Queries, NEW g \in Handles, BatchSelect(q, g) PROVE FALSE
    <3>1. vpool' = vpool \/ vpool' = [vpool EXCEPT ![g] = Pending]
      BY <2>2 DEF BatchSelect
    <3>2. DOMAIN vpool = Handles
      BY <1>1 DEF IInv, TypeOK
    <3>3. vpool'[h] = Pending
      BY <3>1, <3>2
    <3> QED
      BY <3>3 DEF Pending
  <2>3. CASE ~Publish /\ ~\E q \in Queries, g \in Handles : BatchSelect(q, g)
    <3>1. vpool' = vpool
      BY <1>1, <2>3 DEF Next, Client, Server, Scan, vars, BatchQueries, BatchExecute, CreateThread,
         AllCreated, JoinThread, AllJoined, AllPublished, BeginVector, ScanRow, EndVector, NextVector
    <3> QED
      BY <3>1
  <2> QED
    BY <2>1, <2>2, <2>3
<1> QED
  BY <1>1, Invariance, PTL DEF Spec, PublishedAfterJoin

-------------------------------------------------------------------------------
(* SharedScan implements BatchSelect *)

\* The array a finished task hands to its handle answers the task's select.
LEMMA FilledAnswers ==
  ASSUME IInv, spc = "destroy", NEW i \in TaskIds
  PROVE  Abstract!Answers(Filled(ntuples[i], positions[i]), task[i].query)
<1> DEFINE v == Filled(ntuples[i], positions[i])
           q == task[i].query
<1>1. PICK m \in 0..NumRowsOf(i) :
         /\ LastOf(i) \in TaskIds
         /\ m >= Lowest(NumRowsOf(i), NumRowsOf(LastOf(i)))
         /\ IsSelection(q, positions[i], ntuples[i], m)
  BY JoinedIsExact
<1>2. v.kind = "posvec" /\ v.num_tuples = ntuples[i]
  BY DEF Filled
<1>3. \A j \in 0..(ntuples[i] - 1) : v.positions[j] = positions[i][j]
  BY DEF Filled
<1> HIDE DEF v
<1>4. Abstract!IsSelection(q, v.positions, v.num_tuples, m)
  BY <1>1, <1>2, <1>3 DEF Abstract!IsSelection, IsSelection, Abstract!Qualifies, Qualifies
<1>5. Abstract!Answers(v, q)
  BY <1>1, <1>2, <1>4 DEF Abstract!Answers, Abstract!Lowest, Lowest, NumRowsOf, ColOf, TaskIds
<1> QED
  BY <1>5 DEF v

\* Initial states map to initial states.
LEMMA RefinesInit == Init => Abstract!Init
BY DEF Init, Abstract!Init, Running, Empty, Abstract!Empty, Unset, Abstract!Unset

\* Every step is an abstract step or changes nothing the client can see.
LEMMA RefinesNext == IInv /\ [Next]_vars => [Abstract!Next]_(Abstract!vars)
<1> SUFFICES ASSUME IInv, [Next]_vars PROVE Abstract!Next \/ UNCHANGED Abstract!vars
  OBVIOUS
<1> USE DEF Running, Empty, Abstract!Empty
<1>1. CASE BatchQueries
  <2>1. Abstract!Open
    BY <1>1 DEF BatchQueries, Abstract!Open, serverVars
  <2> QED
    BY <2>1 DEF Abstract!Next
<1>2. ASSUME NEW q \in Queries, NEW h \in Handles, BatchSelect(q, h) PROVE Abstract!Next
  <2>1. CASE spc' = spc
    <3>1. Abstract!Collect(q, h)
      BY <1>2, <2>1 DEF BatchSelect, Abstract!Collect, Pending, Abstract!Pending
    <3> QED
      BY <3>1 DEF Abstract!Next
  <2>2. CASE spc' # spc
    <3>1. Abstract!Crash
      BY <1>2, <2>2 DEF BatchSelect, Abstract!Crash
    <3> QED
      BY <3>1 DEF Abstract!Next
  <2> QED
    BY <2>1, <2>2
<1>3. CASE BatchExecute
  <2>1. CASE allocated
    <3>1. Abstract!Run
      BY <1>3, <2>1 DEF BatchExecute, Abstract!Run
    <3> QED
      BY <3>1 DEF Abstract!Next
  <2>2. CASE ~allocated
    <3>1. Abstract!Crash
      BY <1>3, <2>2 DEF BatchExecute, Abstract!Crash
    <3> QED
      BY <3>1 DEF Abstract!Next
  <2> QED
    BY <2>1, <2>2
<1>4. CASE CreateThread \/ AllCreated \/ JoinThread \/ AllJoined
  BY <1>4 DEF CreateThread, AllCreated, JoinThread, AllJoined, Abstract!vars, batchVars, threadVars
<1>5. CASE Publish
  <2>1. spc = "destroy" /\ k \in TaskIds /\ spc' = "destroy" /\ k < arr_size
    BY <1>5 DEF Publish, IInv, TypeOK, TaskIds
  <2>2. Abstract!Answers(Filled(ntuples[k], positions[k]), task[k].query)
    BY <2>1, FilledAnswers
  <2>3. DOMAIN vpool = Handles /\ task[k].res_name \in Handles
    BY <2>1 DEF IInv, TypeOK
  <2>4. Abstract!Publish
    BY <1>5, <2>1, <2>2, <2>3 DEF Publish, Abstract!Publish, batchVars
  <2> QED
    BY <2>4 DEF Abstract!Next
<1>6. CASE AllPublished
  <2>1. Abstract!Finish
    BY <1>6 DEF AllPublished, Abstract!Finish
  <2> QED
    BY <2>1 DEF Abstract!Next
<1>7. ASSUME NEW t \in Threads, Scan(t) PROVE UNCHANGED Abstract!vars
  BY <1>7 DEF Scan, BeginVector, ScanRow, EndVector, NextVector, Abstract!vars, batchVars, serverVars
<1>8. CASE UNCHANGED vars
  BY <1>8 DEF vars, Abstract!vars, batchVars, serverVars
<1> QED
  BY <1>1, <1>2, <1>3, <1>4, <1>5, <1>6, <1>7, <1>8 DEF Next, Client, Server

\* The batch with its threads, vectors and stripes is, to the client, the
\* batch that hands out one right answer after another (parse.c's batch
\* commands, batch_run and tarray_destroy).
THEOREM Refinement == Spec => ImplementsBatch
<1>1. Init => Abstract!Init
  BY RefinesInit
<1>2. IInv /\ [Next]_vars => [Abstract!Next]_(Abstract!vars)
  BY RefinesNext
<1> QED
  BY <1>1, <1>2, Invariance, PTL DEF Spec, ImplementsBatch, Abstract!Spec
===============================================================================
