------------------------------ MODULE SharedScan ------------------------------
(***************************************************************************)
(* Batched selects: `batch_queries', a list of selects, `batch_execute'.   *)
(*                                                                         *)
(* While the parser is batching, a select is not executed: it becomes a    *)
(* Task with a zeroed positions array, and its handle is entered in the    *)
(* variable pool with a position vector nobody has filled.  batch_execute  *)
(* creates min(#tasks, MAX_THREADS) threads.  Thread id owns the stripe of *)
(* tasks id, id + nthreads, id + 2*nthreads, ...; it walks its stripe once *)
(* for every vector of VEC_SIZE rows, so that the selects of a stripe share *)
(* the scan of a column.  The server thread joins all of them, and only    *)
(* then hands every task's positions to its handle.                        *)
(*                                                                         *)
(* A thread takes one step per row, and reads and writes the tuple count   *)
(* of its task in separate steps, as the C code does: were two threads to  *)
(* share a task, the model would show what they do to each other.          *)
(*                                                                         *)
(* An operator named Defect... is a deliberate mistake: it stands in for   *)
(* the definition after it when a property is tested against faulty code,  *)
(* and is used nowhere else.                                               *)
(***************************************************************************)
EXTENDS Selection, FiniteSets

CONSTANTS
    Handles,       \* names of the variable pool
    VEC_SIZE,      \* rows per vector
    MAX_THREADS,   \* upper bound on the threads of a batch
    MaxTasks       \* bound of the model: selects in one batch

ASSUME ScanAssumption ==
    /\ VEC_SIZE \in Nat \ {0}
    /\ MAX_THREADS \in Nat \ {0}
    /\ MaxTasks \in Nat

Threads == 0..(MAX_THREADS - 1)

AllZero == [t \in Threads |-> 0]

VARIABLES
    is_batching,   \* the parser's static flag
    allocated,     \* task_array # NULL
    arr_size,      \* number of tasks
    task,          \* [0..arr_size-1 -> [query, res_name]]
    ntuples,       \* tuple count of every task
    positions,     \* positions array of every task, nallocsz cells
    vpool,         \* the variable pool: what each handle stands for
    spc, k,        \* server thread: where it is, and its loop counter
    nthreads,      \* pool->nthreads
    pc,            \* scan threads: where each is
    start, index,  \* first row of the vector, task being scanned
    isdone,        \* what the last scanned task returned
    pos, num_pos, count  \* locals of a select function

batchVars == <<is_batching, allocated, arr_size, task>>
taskVars == <<ntuples, positions>>
serverVars == <<spc, k, nthreads>>
threadVars == <<pc, start, index, isdone, pos, num_pos, count>>
vars == <<batchVars, taskVars, vpool, serverVars, threadVars>>
-------------------------------------------------------------------------------
(* The selects *)

TaskIds == 0..(arr_size - 1)
ColOf(i) == task[i].query.col
NumRowsOf(i) == NumRows[ColOf(i)]

\* One past the last row of the vector that begins at row s, and whether the
\* vector is the last one.
EndOf(i, s) == Lowest(s + VEC_SIZE, NumRowsOf(i))
DefectReachedEndEarly(i, s) == s + VEC_SIZE >= NumRowsOf(i) - 1
ReachedEnd(i, s) == EndOf(i, s) = NumRowsOf(i)

\* calloc'ed cells of the positions array of a select.
DefectOneCellShort(q) == [j \in 0..(NumRows[q.col] - 2) |-> 0]
NewCells(q) == [j \in 0..(NumRows[q.col] - 1) |-> 0]

\* The first cell a vector of task i writes.
DefectCellZero(i) == 0
FirstCell(i) == ntuples[i]

\* Threads of a batch, and the task after task i in a stripe.
DefectAlwaysFullPool == MAX_THREADS
PoolSize == Lowest(arr_size, MAX_THREADS)
DefectNextInArray(i) == i + 1
NextInStripe(i) == i + nthreads

\* Threads that pthread_create is called for, and a thread that
\* pthread_join returns for.
DefectAllButOne == nthreads - 1
ToCreate == nthreads
DefectNoWait(t) == TRUE
Joinable(t) == pc[t] = "exited"

\* The word left by `old |= new'; -1 stands for two rows' bits in one word.
OrInto(old, new) == IF old = 0 THEN new ELSE IF new = 0 THEN old ELSE -1

(* The variable pool *)

Empty == [i \in {} |-> 0]
Unset == [kind |-> "none", num_tuples |-> 0, positions |-> Empty]
\* A PositionVector from malloc: neither field has been written.
Pending == [kind |-> "pending", num_tuples |-> 0, positions |-> Empty]
\* realloc keeps the first ntuples cells of the task's array.
DefectFilledToCapacity(n, arr) ==
    [kind |-> "posvec", num_tuples |-> Cardinality(DOMAIN arr), positions |-> arr]
Filled(n, arr) == [kind |-> "posvec", num_tuples |-> n,
                   positions |-> [j \in 0..(n - 1) |-> arr[j]]]
-------------------------------------------------------------------------------
Init ==
    /\ is_batching = FALSE
    /\ allocated = FALSE
    /\ arr_size = 0
    /\ task = Empty
    /\ ntuples = Empty
    /\ positions = Empty
    /\ vpool = [h \in Handles |-> Unset]
    /\ spc = "command"
    /\ k = 0
    /\ nthreads = 0
    /\ pc = [t \in Threads |-> "none"]
    /\ start = AllZero
    /\ index = AllZero
    /\ isdone = [t \in Threads |-> FALSE]
    /\ pos = AllZero
    /\ num_pos = AllZero
    /\ count = AllZero

(* Commands of the client *)

\* A new task array; tasks of a batch that was never executed are dropped.
BatchQueries ==
    /\ spc = "command"
    /\ is_batching' = TRUE
    /\ allocated' = TRUE
    /\ arr_size' = 0
    /\ task' = Empty
    /\ ntuples' = Empty
    /\ positions' = Empty
    /\ UNCHANGED <<vpool, serverVars, threadVars>>

\* The select is queued and its handle entered in the pool.  Parsing first
\* frees what the handle stood for: when that is a position vector whose
\* fields nobody wrote, free() is given whatever the memory held, and the
\* server may or may not survive.
BatchSelect(q, h) ==
    /\ spc = "command"
    /\ is_batching
    /\ arr_size < MaxTasks
    /\ \/ /\ arr_size' = arr_size + 1
          /\ task' = [i \in 0..arr_size |->
                         IF i = arr_size THEN [query |-> q, res_name |-> h] ELSE task[i]]
          /\ ntuples' = [i \in 0..arr_size |-> IF i = arr_size THEN 0 ELSE ntuples[i]]
          /\ positions' = [i \in 0..arr_size |->
                              IF i = arr_size
                              THEN NewCells(q)
                              ELSE positions[i]]
          /\ vpool' = [vpool EXCEPT ![h] = Pending]
          /\ spc' = spc
       \/ /\ vpool[h].kind = "pending"
          /\ spc' = "crashed"
          /\ UNCHANGED <<arr_size, task, taskVars, vpool>>
    /\ UNCHANGED <<is_batching, allocated, k, nthreads, threadVars>>

\* Without a task array there is no size to read.
BatchExecute ==
    /\ spc = "command"
    /\ is_batching' = FALSE
    /\ IF allocated
       THEN /\ spc' = "create"
            /\ nthreads' = PoolSize
       ELSE /\ spc' = "crashed"
            /\ nthreads' = nthreads
    /\ k' = 0
    /\ UNCHANGED <<allocated, arr_size, task, taskVars, vpool, threadVars>>
-------------------------------------------------------------------------------
(* The server thread inside batch_run *)

CreateThread ==
    /\ spc = "create"
    /\ k < ToCreate
    /\ pc' = [pc EXCEPT ![k] = "pick"]
    /\ start' = [start EXCEPT ![k] = 0]
    /\ index' = [index EXCEPT ![k] = k]
    /\ isdone' = [isdone EXCEPT ![k] = FALSE]
    /\ k' = k + 1
    /\ UNCHANGED <<batchVars, taskVars, vpool, spc, nthreads, pos, num_pos, count>>

AllCreated ==
    /\ spc = "create"
    /\ k = ToCreate
    /\ spc' = "join"
    /\ k' = 0
    /\ UNCHANGED <<batchVars, taskVars, vpool, nthreads, threadVars>>

JoinThread ==
    /\ spc = "join"
    /\ k < nthreads
    /\ Joinable(k)
    /\ k' = k + 1
    /\ UNCHANGED <<batchVars, taskVars, vpool, spc, nthreads, threadVars>>

AllJoined ==
    /\ spc = "join"
    /\ k = nthreads
    /\ spc' = "destroy"
    /\ k' = 0
    /\ UNCHANGED <<batchVars, taskVars, vpool, nthreads, threadVars>>

\* One turn of tarray_destroy's loop: the handle gets the task's positions.
Publish ==
    /\ spc = "destroy"
    /\ k < arr_size
    /\ vpool' = [vpool EXCEPT ![task[k].res_name] = Filled(ntuples[k], positions[k])]
    /\ k' = k + 1
    /\ UNCHANGED <<batchVars, taskVars, spc, nthreads, threadVars>>

\* The tasks, the pool and the threads' locals are gone.
AllPublished ==
    /\ spc = "destroy"
    /\ k = arr_size
    /\ spc' = "command"
    /\ k' = 0
    /\ allocated' = FALSE
    /\ arr_size' = 0
    /\ task' = Empty
    /\ ntuples' = Empty
    /\ positions' = Empty
    /\ nthreads' = 0
    /\ pc' = [t \in Threads |-> "none"]
    /\ start' = AllZero
    /\ index' = AllZero
    /\ isdone' = [t \in Threads |-> FALSE]
    /\ pos' = AllZero
    /\ num_pos' = AllZero
    /\ count' = AllZero
    /\ UNCHANGED <<is_batching, vpool>>
-------------------------------------------------------------------------------
(* A scan thread *)

\* The stripe has another task: its select function begins, reading *ntuples.
BeginVector(t) ==
    /\ pc[t] = "pick"
    /\ index[t] < arr_size
    /\ pc' = [pc EXCEPT ![t] = "row"]
    /\ pos' = [pos EXCEPT ![t] = start[t]]
    /\ num_pos' = [num_pos EXCEPT ![t] = FirstCell(index[t])]
    /\ count' = [count EXCEPT ![t] = 0]
    /\ UNCHANGED <<batchVars, taskVars, vpool, serverVars, start, index, isdone>>

\* One row: its number is OR-ed into the next cell whether or not it
\* qualifies (as zero when it does not), and only a match moves on.
ScanRow(t) ==
    LET i == index[t]
        match == Qualifies(task[i].query, pos[t])
        cell == num_pos[t] + count[t]
    IN /\ pc[t] = "row"
       /\ pos[t] < EndOf(i, start[t])
       /\ positions' = [positions EXCEPT ![i][cell] =
                           OrInto(@, IF match THEN pos[t] ELSE 0)]
       /\ count' = [count EXCEPT ![t] = @ + (IF match THEN 1 ELSE 0)]
       /\ pos' = [pos EXCEPT ![t] = @ + 1]
       /\ UNCHANGED <<batchVars, ntuples, vpool, serverVars, pc, start, index,
                      isdone, num_pos>>

\* The select function returns whether the vector reached the last row, and
\* the thread moves to the next task of its stripe.
EndVector(t) ==
    LET i == index[t]
    IN /\ pc[t] = "row"
       /\ pos[t] >= EndOf(i, start[t])
       /\ ntuples' = [ntuples EXCEPT ![i] = @ + count[t]]
       /\ isdone' = [isdone EXCEPT ![t] = ReachedEnd(i, start[t])]
       /\ index' = [index EXCEPT ![t] = NextInStripe(@)]
       /\ pc' = [pc EXCEPT ![t] = "pick"]
       /\ UNCHANGED <<batchVars, positions, vpool, serverVars, start, pos,
                      num_pos, count>>

\* The stripe is exhausted: the next vector, unless the last task is done.
NextVector(t) ==
    /\ pc[t] = "pick"
    /\ index[t] >= arr_size
    /\ start' = [start EXCEPT ![t] = @ + VEC_SIZE]
    /\ IF isdone[t]
       THEN /\ pc' = [pc EXCEPT ![t] = "exited"]
            /\ index' = index
       ELSE /\ index' = [index EXCEPT ![t] = t]
            /\ pc' = pc
    /\ UNCHANGED <<batchVars, taskVars, vpool, serverVars, isdone, pos, num_pos, count>>
-------------------------------------------------------------------------------
Client ==
    \/ BatchQueries
    \/ \E q \in Queries, h \in Handles : BatchSelect(q, h)
    \/ BatchExecute

Server ==
    \/ CreateThread
    \/ AllCreated
    \/ JoinThread
    \/ AllJoined
    \/ Publish
    \/ AllPublished

Scan(t) ==
    \/ BeginVector(t)
    \/ ScanRow(t)
    \/ EndVector(t)
    \/ NextVector(t)

Next ==
    \/ Client
    \/ Server
    \/ \E t \in Threads : Scan(t)

Spec == Init /\ [][Next]_vars

\* The scheduler runs every thread that can run; nobody makes the client send.
Fairness ==
    /\ WF_vars(Server)
    /\ \A t \in Threads : WF_vars(Scan(t))

FairSpec == Spec /\ Fairness
-------------------------------------------------------------------------------
(* Properties *)

Running == spc \in {"create", "join", "destroy"}

IsVector(v) ==
    /\ v.kind \in {"none", "pending", "posvec"}
    /\ v.num_tuples \in Nat
    /\ v.positions \in [0..(v.num_tuples - 1) -> Int]

\* Every variable has its type; the tasks' arrays have the size calloc was
\* asked for, and a batch that runs has as many threads as it can keep busy.
TypeOK ==
    /\ is_batching \in BOOLEAN
    /\ allocated \in BOOLEAN
    /\ arr_size \in 0..MaxTasks
    /\ task \in [TaskIds -> [query : Queries, res_name : Handles]]
    /\ ntuples \in [TaskIds -> Nat]
    /\ positions = [i \in TaskIds |-> positions[i]]
    /\ \A i \in TaskIds : positions[i] \in [0..(NumRowsOf(i) - 1) -> Int]
    /\ DOMAIN vpool = Handles
    /\ \A h \in Handles : IsVector(vpool[h])
    /\ spc \in {"command", "create", "join", "destroy", "crashed"}
    /\ k \in Nat
    /\ nthreads = IF Running THEN Lowest(arr_size, MAX_THREADS) ELSE 0
    /\ pc \in [Threads -> {"none", "pick", "row", "exited"}]
    /\ start \in [Threads -> Nat]
    /\ index \in [Threads -> Nat]
    /\ isdone \in [Threads -> BOOLEAN]
    /\ pos \in [Threads -> Nat]
    /\ num_pos \in [Threads -> Nat]
    /\ count \in [Threads -> Nat]

\* The thread whose stripe holds task i.
Owner(i) == i % nthreads

\* Rows of task i the scan has dealt with, and cells it has filled, counting
\* the vector that is being scanned.
RowReached(i) ==
    LET t == Owner(i)
    IN IF pc[t] = "none" THEN 0
       ELSE IF pc[t] = "row" /\ index[t] = i THEN pos[t]
       ELSE IF pc[t] # "exited" /\ i < index[t] THEN start[t] + VEC_SIZE
       ELSE start[t]

RowsDone(i) == Lowest(RowReached(i), NumRowsOf(i))

Tuples(i) ==
    LET t == Owner(i)
    IN ntuples[i] + (IF pc[t] = "row" /\ index[t] = i THEN count[t] ELSE 0)

\* At every row of every interleaving, the cells of a task hold exactly the
\* matching rows its own thread has passed, in order, and the cells after
\* them are still zero, so that the next `|=' stores a row and not a mixture
\* (shared_scan, db_select_shared_*_op).
PrefixExact ==
    Running =>
        \A i \in TaskIds :
            /\ IsSelection(task[i].query, positions[i], Tuples(i), RowsDone(i))
            /\ \A j \in DOMAIN positions[i] : j >= Tuples(i) => positions[i][j] = 0

\* No two threads are ever inside the select function of one task: *ntuples
\* is read and written without a lock.
NoSharedTask ==
    \A t, u \in Threads :
        pc[t] = "row" /\ pc[u] = "row" /\ index[t] = index[u] => t = u

\* The cell a row is OR-ed into lies inside the array of the thread's own
\* task, matching row or not: the array has one cell per row of its column.
CellInBounds ==
    \A t \in Threads :
        pc[t] = "row" /\ pos[t] < EndOf(index[t], start[t])
            => /\ index[t] \in TaskIds
               /\ num_pos[t] + count[t] \in DOMAIN positions[index[t]]

\* The last task of the stripe that task i belongs to.
LastOf(i) == CHOOSE j \in TaskIds : Owner(j) = Owner(i) /\ j + nthreads >= arr_size

\* When the batch is published every task's array is the answer of its select
\* over the whole column, unless the last task of its stripe scans a shorter
\* column: a thread stops with its last task, and the answer is then exact for
\* at least that task's rows.
BatchExact ==
    spc = "destroy" =>
        \A i \in TaskIds :
            \E m \in 0..NumRowsOf(i) :
                /\ m >= Lowest(NumRowsOf(i), NumRowsOf(LastOf(i)))
                /\ IsSelection(task[i].query, positions[i], ntuples[i], m)

\* What the comment of db_batch_execute says: it executes the operations given
\* between batch_queries and batch_execute, so every select has seen every row
\* of its column when the batch is published.  The code does not keep it: a
\* thread stops when the last task of its stripe is done (isdone).
BatchComplete ==
    spc = "destroy" =>
        \A i \in TaskIds :
            IsSelection(task[i].query, positions[i], ntuples[i], NumRowsOf(i))

\* A handle's positions appear only after every thread of the batch exited,
\* and the arrays no longer change: destroy_threadpool joins before
\* tarray_destroy publishes.
PublishedAfterJoin ==
    [][ \A h \in Handles : vpool'[h] # vpool[h] /\ vpool'[h].kind = "posvec"
            => /\ \A t \in Threads : pc[t] \notin {"pick", "row"}
               /\ UNCHANGED taskVars ]_vars

\* A batch that was started ends: no scan thread spins on an empty stripe, and
\* the server thread comes back to the client.
BatchEnds == spc = "create" ~> spc = "command"

\* The batch, threads and all, implements the abstract batch.
Abstract == INSTANCE BatchSelect WITH
    collecting <- is_batching,
    opened <- allocated,
    size <- arr_size,
    queue <- task,
    pool <- vpool,
    phase <- IF Running THEN "running" ELSE spc,
    published <- IF spc = "destroy" THEN k ELSE 0

ImplementsBatch == Abstract!Spec
-------------------------------------------------------------------------------
(* The inductive invariant behind the safety properties *)

\* Which threads exist and which have exited, by where the server thread is.
ServerControl ==
    /\ spc = "create" => k \in 0..nthreads
    /\ spc = "join" => k \in 0..nthreads
    /\ spc = "destroy" => k \in 0..arr_size
    /\ is_batching => allocated /\ ~Running
    /\ \A t \in Threads :
           /\ ~Running \/ t >= nthreads => pc[t] = "none"
           /\ spc = "create" => (pc[t] = "none" <=> t >= k)
           /\ spc = "join" /\ t < nthreads => pc[t] # "none"
           /\ spc = "join" /\ t < k => pc[t] = "exited"
           /\ spc = "destroy" /\ t < nthreads => pc[t] = "exited"

\* Where a thread is in its stripe, and what its isdone says about the task it
\* scanned last.
StripeControl(t) ==
    LET last == index[t] - nthreads
    IN /\ index[t] % nthreads = t
       /\ index[t] # t => last \in TaskIds
       /\ pc[t] = "row" => index[t] \in TaskIds
       /\ index[t] = t => ~isdone[t]
       /\ pc[t] = "exited" => /\ index[t] >= arr_size
                              /\ isdone[t]
                              /\ start[t] >= NumRowsOf(last)
       /\ pc[t] # "exited" /\ isdone[t] => start[t] + VEC_SIZE >= NumRowsOf(last)

\* A select function's locals.
RowControl(t) ==
    /\ num_pos[t] = ntuples[index[t]]
    /\ pos[t] = start[t] \/ (pos[t] > start[t] /\ pos[t] <= EndOf(index[t], start[t]))

ThreadControl ==
    \A t \in Threads : pc[t] # "none" => /\ StripeControl(t)
                                         /\ pc[t] = "row" => RowControl(t)

\* Tasks that wait for batch_execute are as calloc left them.
FreshTasks ==
    ~Running =>
        \A i \in TaskIds : /\ ntuples[i] = 0
                           /\ \A j \in DOMAIN positions[i] : positions[i][j] = 0

\* The invariant the proofs carry: types, control, and the exact prefix.
IInv == TypeOK /\ ServerControl /\ ThreadControl /\ FreshTasks /\ PrefixExact
===============================================================================
