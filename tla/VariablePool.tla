----------------------------- MODULE VariablePool -----------------------------
(***************************************************************************)
(* The names a client uses: the base columns of the database and the       *)
(* handles its commands define.  The server keeps a table of columns       *)
(* (server_context), copies it into a table of the client's own when one   *)
(* connects (client_context) and back when it leaves.  Commands look names *)
(* up while they are parsed, free what the handle they define stood for,   *)
(* and enter the new object when they are executed; there is no counting   *)
(* of references.                                                          *)
(*                                                                         *)
(* Nothing in the server checks how names are used.  fault is the first    *)
(* thing that goes wrong: "memory" is a use of memory that is free or was  *)
(* never set, "overrun" an access past the end of a table, "abort" a       *)
(* failed assert.  The model follows the program up to there.  kept and    *)
(* ordered are history variables: the client kept the rules below.         *)
(*                                                                         *)
(* Operands have the kind their command expects; while batching only       *)
(* selects are sent (parse_command queues anything as a select).  Columns  *)
(* belong to tables that exist and have room.                              *)
(***************************************************************************)
EXTENDS Naturals, FiniteSets

CONSTANTS
    Columns,        \* full names of columns
    Handles,        \* names of intermediates
    Objects,        \* what malloc may return; its size bounds the heap
    Null,           \* the null pointer
    NoName,         \* the empty string
    MaxVPool,       \* MAX_VPOOL: slots of a client's table
    MaxBaseCol      \* MAX_BASE_COL: slots of the server's table

ASSUME PoolAssumption ==
    /\ MaxVPool \in Nat \ {0}
    /\ MaxBaseCol \in 1..MaxVPool
    /\ Columns \cap Handles = {}
    /\ NoName \notin Columns \cup Handles
    /\ Null \notin Objects

VARIABLES
    dbOpen,     \* current_db is not NULL
    column,     \* the Column object of every column of current_db
    heap,       \* what every object is: see Contents
    client,     \* client_context
    server,     \* server_context
    phase,      \* where main and handle_client are
    i,          \* the loop variable of copy_catalog
    batching,   \* is_batching; a task array exists
    tasks,      \* res_name of every queued select
    fault,      \* what went wrong
    kept,       \* no rule was broken
    ordered     \* no column was created in a session that had handles already

session == <<server, phase, i>>    \* what no command changes
batch == <<batching, tasks>>
vars == <<dbOpen, column, heap, client, server, phase, i, batching, tasks,
          fault, kept, ordered>>

Names == Columns \cup Handles
Kinds == {"RESULT", "POSITION", "SCALAR", "COLUMN"}
Phases == {"idle", "copyIn", "serving", "copyOut", "closed", "ended"}

\* An object is free, in use with unset contents ("raw": a queued position
\* vector; "part": a result without a length, left by add or sub of two
\* columns of different length), or complete.
Contents == {"free", "raw", "part", "full"}

-------------------------------------------------------------------------------
(* Tables of names.                                                        *)

\* calloc: kind 0 is RESULT.
Vacant == [name |-> NoName, kind |-> "RESULT", obj |-> Null]

\* Mistake: one slot too few is cleared.
DefectNewTableShort(slots) ==
    [slots |-> slots, inUse |-> 0, entry |-> [j \in 0..(slots - 2) |-> Vacant]]

NewTable(slots) ==
    [slots |-> slots, inUse |-> 0, entry |-> [j \in 0..(slots - 1) |-> Vacant]]

\* What the loops over chandles_in_use look at.
InUse(t) == {j \in 0..(t.slots - 1) : j < t.inUse}

Places(n, t) == {j \in InUse(t) : t.entry[j].name = n}
Exists(n, t) == Places(n, t) # {}

\* handle_exists, lookup_generalized_column: the first entry of that name.
First(n, t) == CHOOSE j \in Places(n, t) : \A k \in Places(n, t) : j <= k
Bound(n, t) == t.entry[First(n, t)]

Position(n, t) == IF Exists(n, t) THEN First(n, t) ELSE t.inUse

PutAt(t, j, e) == [t.entry EXCEPT ![j] = e]

\* Mistake: a handle is never entered in its old place.
DefectEnterAppend(t, n, kind, o) ==
    [slots |-> t.slots,
     inUse |-> t.inUse + 1,
     entry |-> PutAt(t, t.inUse, [name |-> n, kind |-> kind, obj |-> o])]

\* add_position_vector_, add_result_vector_, add_scalar_catalog_manager.
Enter(t, n, kind, o) ==
    [slots |-> t.slots,
     inUse |-> IF Exists(n, t) THEN t.inUse ELSE t.inUse + 1,
     entry |-> PutAt(t, Position(n, t), [name |-> n, kind |-> kind, obj |-> o])]

Grown(t) ==
    [slots |-> 2 * t.slots,
     inUse |-> t.inUse,
     entry |-> [j \in 0..(2 * t.slots - 1) |->
                   IF j < t.slots THEN t.entry[j] ELSE Vacant]]

\* add_base_column_catalog_manager: appends, whatever is there.
Append(t, c, o) ==
    LET r == IF t.slots = t.inUse THEN Grown(t) ELSE t
    IN  [slots |-> r.slots,
         inUse |-> t.inUse + 1,
         entry |-> PutAt(r, t.inUse, [name |-> c, kind |-> "COLUMN", obj |-> o])]

\* Mistake: the other table's length stays as it was.
DefectCopiedUncounted(to, j, e) ==
    [slots |-> to.slots, inUse |-> to.inUse, entry |-> PutAt(to, j, e)]

\* One entry of copy_catalog: to the same index of the other table.
Copied(to, j, e) ==
    [slots |-> to.slots, inUse |-> to.inUse + 1, entry |-> PutAt(to, j, e)]

IsHandle(e) == e.kind # "COLUMN"

HandlesOf(t) == {t.entry[j] : j \in {k \in InUse(t) : IsHandle(t.entry[k])}}

-------------------------------------------------------------------------------
(* The heap.                                                               *)

Release(hp, objs) == [o \in Objects |-> IF o \in objs THEN "free" ELSE hp[o]]

\* free is called on a pointer that is not there, was freed, or was never set.
\* The payload of a half-built result is NULL, which may be freed.
BadFree(e) == e.obj = Null \/ heap[e.obj] \notin {"part", "full"}

\* The operand an entry stands for can be used: of a column, it is the column
\* the database has by that name.
Usable(e, hp) ==
    IF e.kind = "COLUMN" THEN column[e.name] = e.obj
    ELSE e.obj # Null /\ hp[e.obj] = "full"

-------------------------------------------------------------------------------
Injective(f) == \A j, k \in DOMAIN f : f[j] = f[k] => j = k

\* db_startup: the columns a catalog file lists, in its order.
Init ==
    /\ \E n \in 0..MaxBaseCol :
       \E listed \in [0..(n - 1) -> Columns], obj \in [0..(n - 1) -> Objects] :
          /\ Injective(listed)
          /\ Injective(obj)
          /\ column = [c \in Columns |->
                IF \E j \in 0..(n - 1) : listed[j] = c
                THEN obj[CHOOSE j \in 0..(n - 1) : listed[j] = c] ELSE Null]
          /\ server = [slots |-> MaxBaseCol, inUse |-> n,
                entry |-> [j \in 0..(MaxBaseCol - 1) |->
                    IF j < n THEN [name |-> listed[j], kind |-> "COLUMN", obj |-> obj[j]]
                    ELSE Vacant]]
    /\ dbOpen \in BOOLEAN
    /\ (\E c \in Columns : column[c] # Null) => dbOpen
    /\ heap = [o \in Objects |-> IF \E c \in Columns : column[c] = o
                                 THEN "full" ELSE "free"]
    /\ client = NewTable(MaxVPool)
    /\ phase = "idle"
    /\ i = 0
    /\ batching = FALSE
    /\ tasks = {}
    /\ fault = "none"
    /\ kept = TRUE
    /\ ordered = TRUE

Running == fault = "none"
AtPrompt == Running /\ phase = "serving"

\* The table and the heap are not looked at after a fault.
Faults(f) == fault' = f /\ UNCHANGED <<heap, client>>

-------------------------------------------------------------------------------
(* Sessions.                                                               *)

Accept ==
    /\ Running
    /\ phase = "idle"
    /\ phase' = "copyIn"
    /\ i' = 0
    /\ client' = NewTable(MaxVPool)
    /\ UNCHANGED <<dbOpen, column, heap, server, batch, fault, kept, ordered>>

\* Mistake: the loop begins with the second entry.
DefectCopyEntryLate(from, to, copy) ==
    IF i = 0 THEN fault' = fault /\ copy = to
    ELSE LET e == from.entry[i]
         IN  IF IsHandle(e) \/ Exists(e.name, to) THEN fault' = fault /\ copy = to
             ELSE fault' = fault /\ copy = Copied(to, i, e)

\* One turn of the loop of copy_catalog(from, to).
CopyEntry(from, to, copy) ==
    IF i >= from.slots THEN fault' = "overrun" /\ copy = to
    ELSE LET e == from.entry[i]
         IN  IF IsHandle(e) \/ Exists(e.name, to) THEN fault' = fault /\ copy = to
             ELSE IF i >= to.slots THEN fault' = "overrun" /\ copy = to
             ELSE fault' = fault /\ copy = Copied(to, i, e)

CopyIn ==
    /\ Running
    /\ phase = "copyIn"
    /\ i < server.inUse
    /\ i' = i + 1
    /\ CopyEntry(server, client, client')
    /\ UNCHANGED <<dbOpen, column, heap, server, phase, batch, kept, ordered>>

BeginSession ==
    /\ Running
    /\ phase = "copyIn"
    /\ i >= server.inUse
    /\ phase' = "serving"
    /\ i' = 0
    /\ UNCHANGED <<dbOpen, column, heap, client, server, batch, fault, kept, ordered>>

Disconnect ==
    /\ AtPrompt
    /\ phase' = "copyOut"
    /\ i' = 0
    /\ kept' = (kept /\ ~batching)
    /\ UNCHANGED <<dbOpen, column, heap, client, server, batch, fault, ordered>>

CopyOut ==
    /\ Running
    /\ phase = "copyOut"
    /\ i < client.inUse
    /\ i' = i + 1
    /\ CopyEntry(client, server, server')
    /\ UNCHANGED <<dbOpen, column, heap, client, phase, batch, kept, ordered>>

\* db_clear_client_context; a table that is gone is modelled as a vacant one.
ClearFails ==
    \/ \E e \in HandlesOf(client) : BadFree(e)
    \/ \E j, k \in InUse(client) : /\ j # k
                                   /\ IsHandle(client.entry[j])
                                   /\ IsHandle(client.entry[k])
                                   /\ client.entry[j].obj = client.entry[k].obj

ClearContext(inUse) ==
    IF ClearFails THEN Faults("memory")
    ELSE /\ heap' = Release(heap, {e.obj : e \in HandlesOf(client)})
         /\ client' = [NewTable(MaxVPool) EXCEPT !.inUse = inUse]
         /\ UNCHANGED fault

EndSession ==
    /\ Running
    /\ phase = "copyOut"
    /\ i >= client.inUse
    /\ phase' = "idle"
    /\ ClearContext(0)
    /\ UNCHANGED <<dbOpen, column, server, i, batch, kept, ordered>>

\* CLOSE: clear the table, then write the database, which must be there.
Shutdown ==
    /\ AtPrompt
    /\ ~batching
    /\ phase' = "closed"
    /\ IF dbOpen THEN ClearContext(client.inUse) ELSE Faults("memory")
    /\ kept' = (kept /\ dbOpen)
    /\ UNCHANGED <<dbOpen, column, server, i, batch, ordered>>

\* The table is free now, but its length is not zero.
CommandAfterShutdown ==
    /\ Running
    /\ phase = "closed"
    /\ client.inUse > 0
    /\ Faults("memory")
    /\ kept' = FALSE
    /\ UNCHANGED <<dbOpen, column, session, batch, ordered>>

\* main copies the client's columns back all the same, and exits.
DisconnectAfterShutdown ==
    /\ Running
    /\ phase = "closed"
    /\ phase' = "ended"
    /\ IF client.inUse > 0 THEN Faults("memory") ELSE UNCHANGED <<fault, heap, client>>
    /\ UNCHANGED <<dbOpen, column, server, i, batch, kept, ordered>>

-------------------------------------------------------------------------------
(* Databases and columns.                                                  *)

\* Rule: a database is created once.
CreateDb ==
    /\ AtPrompt
    /\ ~batching
    /\ dbOpen' = TRUE
    /\ heap' = Release(heap, {column[c] : c \in Columns})
    /\ column' = [c \in Columns |-> Null]
    /\ kept' = (kept /\ ~dbOpen)
    /\ UNCHANGED <<client, session, batch, fault, ordered>>

\* Rules: a database is there, the column is not, and the server's table will
\* have a slot for it.
CreateColumn(c) ==
    /\ AtPrompt
    /\ ~batching
    /\ kept' = (kept /\ dbOpen /\ column[c] = Null /\ client.inUse < MaxBaseCol)
    /\ ordered' = (ordered /\ HandlesOf(client) = {})
    /\ IF dbOpen /\ column[c] = Null
       THEN \E o \in Objects :
              /\ heap[o] = "free"
              /\ heap' = [heap EXCEPT ![o] = "full"]
              /\ column' = [column EXCEPT ![c] = o]
              /\ client' = Append(client, c, o)
              /\ UNCHANGED fault
       ELSE Faults("memory") /\ UNCHANGED column
    /\ UNCHANGED <<dbOpen, session, batch>>

-------------------------------------------------------------------------------
(* Commands that define handles.                                           *)

Has(n, kinds) == Exists(n, client) /\ Bound(n, client).kind \in kinds

Old(hs) == {Bound(h, client) : h \in {g \in hs : Exists(g, client)}}

\* Mistake: cleanup_handle forgets to free.
DefectNotCleaned(hs) == heap

\* The heap after cleanup_handle of hs.
Cleaned(hs) == Release(heap, {e.obj : e \in {f \in Old(hs) : IsHandle(f)}})

CleanupFails(hs) == \E e \in Old(hs) : IsHandle(e) /\ BadFree(e)

\* Rules: a command does not define what it reads, and nothing is read that a
\* failed command left.
Reads(ops) ==
    \A n \in ops : IsHandle(Bound(n, client)) => heap[Bound(n, client).obj] # "part"

\* A command that reads ops and defines h.  The operands were looked up as
\* entries, so they are read after the handle they may share an entry with was
\* given its new object.
Assign(h, kind, ops, content) ==
    /\ AtPrompt
    /\ ~batching
    /\ kept' = (kept /\ h \notin ops /\ Reads(ops))
    /\ \E o \in Objects :
          LET pool == Enter(client, h, kind, o)
              hp == [Cleaned({h}) EXCEPT ![o] = "raw"]
          IN  /\ Cleaned({h})[o] = "free"
              /\ IF CleanupFails({h}) THEN Faults("memory")
                 ELSE IF client.inUse >= MaxVPool THEN Faults("abort")
                 ELSE IF \E n \in ops : ~Usable(Bound(n, pool), hp) THEN Faults("memory")
                 ELSE /\ client' = pool
                      /\ heap' = [hp EXCEPT ![o] = content]
                      /\ UNCHANGED fault
    /\ UNCHANGED <<dbOpen, column, session, batch, ordered>>

Select(h, c) ==
    /\ Has(c, {"COLUMN", "RESULT"})
    /\ Assign(h, "POSITION", {c}, "full")

\* The position vector of a select with four arguments is read after the scan.
\* If it is the select's own, its positions are looked up in themselves: that
\* may stay in bounds by luck, and counts as a fault here.
SelectFrom(h, p, c) ==
    /\ Has(p, {"POSITION"})
    /\ Has(c, {"COLUMN", "RESULT"})
    /\ Assign(h, "POSITION", {p, c}, "full")

Fetch(h, c, p) ==
    /\ Has(c, {"COLUMN", "RESULT"})
    /\ Has(p, {"POSITION"})
    /\ Assign(h, "RESULT", {c, p}, "full")

ScalarOp(h, c) ==
    /\ Has(c, {"COLUMN", "RESULT"})
    /\ Assign(h, "SCALAR", {c}, "full")

\* Lengths may differ: db_arithmetic_op returns ERROR with the result entered.
ArithmeticOp(h, c, d) ==
    /\ Has(c, {"COLUMN", "RESULT"})
    /\ Has(d, {"COLUMN", "RESULT"})
    /\ \E content \in {"full", "part"} : Assign(h, "RESULT", {c, d}, content)

\* The operands' objects are picked up before the two results are entered.
Join(g, h, v1, s1, v2, s2) ==
    LET ops == {v1, s1, v2, s2}
        clean == Cleaned({g, h})
    IN  /\ AtPrompt
        /\ ~batching
        /\ Has(v1, {"RESULT"}) /\ Has(v2, {"RESULT"})
        /\ Has(s1, {"POSITION"}) /\ Has(s2, {"POSITION"})
        /\ kept' = (kept /\ g # h /\ {g, h} \cap ops = {} /\ Reads(ops))
        /\ \E o, p \in Objects :
              /\ o # p
              /\ clean[o] = "free" /\ clean[p] = "free"
              /\ IF \/ CleanupFails({g, h})
                    \/ g = h /\ Exists(g, client)    \* freed twice
                    \/ \E n \in ops : ~Usable(Bound(n, client), clean)
                 THEN Faults("memory")
                 ELSE LET pool == Enter(client, g, "POSITION", o)
                      IN  IF client.inUse >= MaxVPool \/ pool.inUse >= MaxVPool
                          THEN Faults("abort")
                          ELSE /\ client' = Enter(pool, h, "POSITION", p)
                               /\ heap' = [clean EXCEPT ![o] = "full", ![p] = "full"]
                               /\ UNCHANGED fault
        /\ UNCHANGED <<dbOpen, column, session, batch, ordered>>

\* print, relational_update, relational_delete: operands, no handle.
Read(n) ==
    /\ AtPrompt
    /\ ~batching
    /\ Exists(n, client)
    /\ kept' = (kept /\ Reads({n}))
    /\ IF Usable(Bound(n, client), heap) THEN UNCHANGED <<fault, heap, client>>
       ELSE Faults("memory")
    /\ UNCHANGED <<dbOpen, column, session, batch, ordered>>

-------------------------------------------------------------------------------
(* Batches: handles are entered when the select is parsed.                 *)

\* Rule: no batch within a batch.
BatchQueries ==
    /\ AtPrompt
    /\ batching' = TRUE
    /\ tasks' = {}
    /\ kept' = (kept /\ ~batching)
    /\ UNCHANGED <<dbOpen, column, heap, client, session, fault, ordered>>

\* Rule: a handle is defined once in a batch.
BatchedSelect(h, c) ==
    /\ AtPrompt
    /\ batching
    /\ Has(c, {"COLUMN"})
    /\ kept' = (kept /\ h \notin tasks)
    /\ tasks' = tasks \cup {h}
    /\ \E o \in Objects :
          /\ Cleaned({h})[o] = "free"
          /\ IF CleanupFails({h}) THEN Faults("memory")
             ELSE IF client.inUse >= MaxVPool THEN Faults("abort")
             ELSE IF ~Usable(Bound(c, client), heap) THEN Faults("memory")
             ELSE /\ client' = Enter(client, h, "POSITION", o)
                  /\ heap' = [Cleaned({h}) EXCEPT ![o] = "raw"]
                  /\ UNCHANGED fault
    /\ UNCHANGED <<dbOpen, column, session, batching, ordered>>

\* Rule: there is a batch to execute.
BatchExecute ==
    /\ AtPrompt
    /\ batching' = FALSE
    /\ tasks' = {}
    /\ kept' = (kept /\ batching)
    /\ IF batching
       THEN /\ heap' = [o \in Objects |->
                  IF \E h \in tasks : Bound(h, client).obj = o THEN "full" ELSE heap[o]]
            /\ UNCHANGED <<client, fault>>
       ELSE Faults("memory")
    /\ UNCHANGED <<dbOpen, column, session, ordered>>

-------------------------------------------------------------------------------
Define ==
    \E h \in Handles :
        \/ \E c \in Names : Select(h, c) \/ ScalarOp(h, c)
        \/ \E p, c \in Names : SelectFrom(h, p, c) \/ Fetch(h, c, p)
        \/ \E c, d \in Names : ArithmeticOp(h, c, d)
        \/ \E g \in Handles, v1, s1, v2, s2 \in Handles : Join(g, h, v1, s1, v2, s2)
        \/ \E c \in Columns : BatchedSelect(h, c)

Next ==
    \/ Accept \/ CopyIn \/ BeginSession
    \/ Disconnect \/ CopyOut \/ EndSession
    \/ Shutdown \/ CommandAfterShutdown \/ DisconnectAfterShutdown
    \/ CreateDb \/ \E c \in Columns : CreateColumn(c)
    \/ Define
    \/ \E n \in Names : Read(n)
    \/ BatchQueries \/ BatchExecute

Spec == Init /\ [][Next]_vars

-------------------------------------------------------------------------------
(* Properties.                                                             *)

Entries == [name : Names \cup {NoName}, kind : Kinds, obj : Objects \cup {Null}]
IsTable(t) == t \in [slots : Nat, inUse : Nat, entry : [0..(t.slots - 1) -> Entries]]

\* Every variable keeps its type; the tables never shrink.
TypeOK ==
    /\ dbOpen \in BOOLEAN
    /\ column \in [Columns -> Objects \cup {Null}]
    /\ heap \in [Objects -> Contents]
    /\ IsTable(client) /\ client.slots >= MaxVPool
    /\ IsTable(server) /\ server.slots = MaxBaseCol
    /\ phase \in Phases
    /\ i \in Nat
    /\ batching \in BOOLEAN
    /\ tasks \subseteq Handles
    /\ fault \in {"none", "memory", "overrun", "abort"}
    /\ kept \in BOOLEAN
    /\ ordered \in BOOLEAN

\* A client that keeps the rules, and creates its columns before its handles,
\* never makes the server use memory it must not, except in the copy after a
\* shutdown, when everything is on disk (main calls copy_catalog on the table
\* that db_clear_client_context freed).
RulesSuffice == fault \in {"memory", "overrun"} /\ kept /\ ordered => phase = "ended"

Trusted == Running /\ kept /\ ordered
Promising == Trusted /\ phase # "closed" /\ phase # "ended"

\* While the rules are kept no name is in a table twice, so that a lookup, which takes the first
\* entry, finds the last definition.
OneEntryPerName ==
    Promising =>
        \A t \in {client, server} : \A j, k \in InUse(t) :
            t.entry[j].name = t.entry[k].name => j = k

\* Then every object malloc gave out is a column of the database or what a
\* handle of the client stands for: a handle that is defined again, and a
\* session that ends, leave nothing behind.
NothingLeaks ==
    Trusted /\ phase \in {"idle", "serving", "copyOut"} =>
        \A o \in Objects : heap[o] # "free" =>
            \/ \E c \in Columns : column[c] = o
            \/ phase # "idle" /\ \E e \in HandlesOf(client) : e.obj = o

\* The columns of a table that stand before its first handle, or gap.
Leading(t) == {j \in InUse(t) : \A k \in InUse(t) : k <= j => ~IsHandle(t.entry[k])}

BeginsWith(t, s) == \A j \in Leading(s) : j \in Leading(t) /\ t.entry[j] = s.entry[j]

\* The columns a client creates before its handles are not lost, whatever it and
\* earlier clients do otherwise: no command takes one from its table, the copy
\* back hands all of them to the server when the session ends, and the next
\* client is given all the server has before a gap (copy_catalog, both ways).
ColumnsHandedOver ==
    [][kept' =>
          /\ BeginSession => BeginsWith(client', server)
          /\ phase = "serving" /\ phase' = "serving" => BeginsWith(client', client)
          /\ EndSession => BeginsWith(server', client)]_vars

\* What the names of a session stand for.
Seen == [n \in Names |-> IF Promising /\ phase = "serving" /\ Exists(n, client)
                         THEN Bound(n, client).obj ELSE Null]

\* The pool is the environment of names a client may rely on.
Promised == INSTANCE Environment WITH
    session <- phase = "serving",
    catalog <- column,
    env <- Seen,
    trusted <- Promising
ImplementsEnvironment == Promised!Spec

-------------------------------------------------------------------------------
(* The inductive invariant, for a client that is trusted.                  *)

Connected == phase \in {"serving", "copyOut"}

IsColumn(e) ==
    /\ e.kind = "COLUMN"
    /\ e.name \in Columns
    /\ e.obj \in Objects
    /\ e.obj = column[e.name]

Distinct(t) == \A j, k \in InUse(t) : t.entry[j].name = t.entry[k].name => j = k

Lists(t) == \A c \in Columns : column[c] # Null => Exists(c, t)

\* Columns are objects of their own, and there are none without a database.
ColumnsOwned ==
    \A c \in Columns : column[c] # Null =>
        /\ dbOpen
        /\ heap[column[c]] = "full"
        /\ \A d \in Columns : column[d] = column[c] => c = d

\* The server's table holds columns without a gap.
ServerHolds ==
    /\ server.inUse <= server.slots
    /\ \A j \in InUse(server) : IsColumn(server.entry[j])
    /\ Distinct(server)
    /\ phase \in {"idle", "copyIn"} => Lists(server)

Idle == phase = "idle" => client.inUse = 0

CopiedIn ==
    phase = "copyIn" =>
        /\ i <= server.inUse
        /\ client.inUse = i
        /\ client.slots >= MaxVPool
        /\ \A j \in 0..(i - 1) : client.entry[j] = server.entry[j]

\* A table that holds columns and then handles, and begins with what the
\* server's table holds.
Shape(t) ==
    /\ t.inUse <= t.slots
    /\ \A j \in InUse(t) :
           \/ IsColumn(t.entry[j]) /\ j < MaxBaseCol
           \/ /\ IsHandle(t.entry[j])
              /\ t.entry[j].name \in Handles
              /\ t.entry[j].obj \in Objects
    /\ \A j, k \in InUse(t) :
           j < k /\ IsHandle(t.entry[j]) => IsHandle(t.entry[k])
    /\ Distinct(t)
    /\ Lists(t)
    /\ server.inUse <= t.inUse
    /\ \A j \in 0..(server.inUse - 1) : t.entry[j] = server.entry[j]

ClientHolds == Connected => Shape(client)

CopiedOut ==
    phase = "copyOut" =>
        /\ i <= client.inUse
        /\ \A j \in InUse(client) :
               j < i /\ ~IsHandle(client.entry[j]) => j < server.inUse

\* Handles own their objects; only queued ones are unset.
HandlesOwn ==
    Connected =>
        \A j \in InUse(client) : IsHandle(client.entry[j]) =>
            /\ heap[client.entry[j].obj] # "free"
            /\ heap[client.entry[j].obj] = "raw" => client.entry[j].name \in tasks
            /\ \A c \in Columns : column[c] # client.entry[j].obj
            /\ \A k \in InUse(client) :
                   client.entry[k].obj = client.entry[j].obj => k = j

Queued ==
    /\ phase # "serving" => ~batching
    /\ ~batching => tasks = {}
    /\ \A h \in tasks : Exists(h, client)

Reachable ==
    \A o \in Objects : heap[o] # "free" =>
        \/ \E c \in Columns : column[c] = o
        \/ Connected /\ \E j \in InUse(client) :
                            IsHandle(client.entry[j]) /\ client.entry[j].obj = o

Sound ==
    /\ ColumnsOwned
    /\ ServerHolds
    /\ Idle
    /\ CopiedIn
    /\ ClientHolds
    /\ CopiedOut
    /\ HandlesOwn
    /\ Queued
    /\ Reachable

\* While the client is trusted and the server has not shut down, the tables and
\* the heap are Sound; and the rules suffice.
IInv ==
    /\ TypeOK
    /\ RulesSuffice
    /\ Promising => Sound
===============================================================================
