-------------------------- MODULE VariablePoolProofs --------------------------
(***************************************************************************)
(* Proofs about VariablePool, for any number of columns, handles, objects  *)
(* and slots.                                                              *)
(***************************************************************************)
EXTENDS VariablePool, TLAPS

USE DEF Names, Kinds, Phases, Contents, Running, AtPrompt

-------------------------------------------------------------------------------
(* Types.                                                                  *)

LEMMA Fields ==
    ASSUME NEW t, IsTable(t)
    PROVE  /\ t.slots \in Nat /\ t.inUse \in Nat
           /\ t.entry \in [0..(t.slots - 1) -> Entries]
           /\ t = [slots |-> t.slots, inUse |-> t.inUse, entry |-> t.entry]
  BY DEF IsTable

LEMMA TableOf ==
    ASSUME NEW m \in Nat, NEW k \in Nat, NEW f \in [0..(m - 1) -> Entries]
    PROVE  IsTable([slots |-> m, inUse |-> k, entry |-> f])
  BY DEF IsTable

LEMMA NewTableType ==
    ASSUME NEW n \in Nat
    PROVE  IsTable(NewTable(n)) /\ NewTable(n).slots = n /\ NewTable(n).inUse = 0
  BY DEF IsTable, NewTable, Vacant, Entries

LEMMA PutAtType ==
    ASSUME NEW t, IsTable(t), NEW j, NEW e \in Entries
    PROVE  PutAt(t, j, e) \in [0..(t.slots - 1) -> Entries]
  BY DEF IsTable, PutAt

LEMMA EnterType ==
    ASSUME NEW t, IsTable(t), NEW h \in Names, NEW kind \in Kinds, NEW o \in Objects
    PROVE  IsTable(Enter(t, h, kind, o)) /\ Enter(t, h, kind, o).slots = t.slots
  <1> DEFINE f == PutAt(t, Position(h, t), [name |-> h, kind |-> kind, obj |-> o])
             k == IF Exists(h, t) THEN t.inUse ELSE t.inUse + 1
  <1>1. [name |-> h, kind |-> kind, obj |-> o] \in Entries
    BY DEF Entries
  <1>2. f \in [0..(t.slots - 1) -> Entries]
    BY <1>1, PutAtType
  <1>3. t.slots \in Nat /\ k \in Nat
    BY Fields
  <1>4. Enter(t, h, kind, o) = [slots |-> t.slots, inUse |-> k, entry |-> f]
    BY DEF Enter
  <1> QED
    BY <1>2, <1>3, <1>4, TableOf

LEMMA GrownType ==
    ASSUME NEW t, IsTable(t)
    PROVE  IsTable(Grown(t)) /\ Grown(t).slots = 2 * t.slots /\ Grown(t).inUse = t.inUse
  <1> DEFINE m == 2 * t.slots
             f == [j \in 0..(m - 1) |-> IF j < t.slots THEN t.entry[j] ELSE Vacant]
  <1>1. m \in Nat /\ t.inUse \in Nat
    BY Fields
  <1>2. Vacant \in Entries
    BY DEF Vacant, Entries
  <1>3. f \in [0..(m - 1) -> Entries]
    BY <1>1, <1>2, Fields
  <1>4. Grown(t) = [slots |-> m, inUse |-> t.inUse, entry |-> f]
    BY DEF Grown
  <1>5. m = 2 * t.slots
    OBVIOUS
  <1> HIDE DEF m, f
  <1>6. IsTable(Grown(t))
    BY <1>1, <1>3, <1>4, TableOf
  <1>7. Grown(t).slots = m /\ Grown(t).inUse = t.inUse
    BY <1>4
  <1> QED
    BY <1>5, <1>6, <1>7

LEMMA AppendType ==
    ASSUME NEW t, IsTable(t), NEW c \in Columns, NEW o \in Objects
    PROVE  IsTable(Append(t, c, o)) /\ Append(t, c, o).slots >= t.slots
  <1> DEFINE r == IF t.slots = t.inUse THEN Grown(t) ELSE t
             e == [name |-> c, kind |-> "COLUMN", obj |-> o]
  <1>1. IsTable(r) /\ r.slots \in Nat /\ r.slots >= t.slots /\ t.inUse + 1 \in Nat
    <2>1. CASE t.slots = t.inUse
      <3>1. r = Grown(t)
        BY <2>1
      <3>2. t.slots \in Nat /\ t.inUse \in Nat
        BY Fields
      <3>3. IsTable(r) /\ r.slots = 2 * t.slots
        BY <3>1, GrownType
      <3> HIDE DEF r
      <3> QED
        BY <3>2, <3>3
    <2>2. CASE t.slots # t.inUse
      <3>1. r = t
        BY <2>2
      <3> HIDE DEF r
      <3> QED
        BY <3>1, Fields
    <2> QED
      BY <2>1, <2>2
  <1>2. e \in Entries
    BY DEF Entries
  <1>3. Append(t, c, o) = [slots |-> r.slots, inUse |-> t.inUse + 1, entry |-> PutAt(r, t.inUse, e)]
    BY DEF Append
  <1> HIDE DEF r, e
  <1>4. PutAt(r, t.inUse, e) \in [0..(r.slots - 1) -> Entries]
    BY <1>1, <1>2, PutAtType
  <1> QED
    BY <1>1, <1>3, <1>4, TableOf

LEMMA CopiedType ==
    ASSUME NEW t, IsTable(t), NEW j, NEW e \in Entries
    PROVE  IsTable(Copied(t, j, e)) /\ Copied(t, j, e).slots = t.slots
  BY PutAtType, Fields, TableOf DEF Copied

LEMMA CopyEntryType ==
    ASSUME NEW from, IsTable(from), NEW to, IsTable(to), NEW copy, i \in Nat,
           fault \in {"none", "memory", "overrun", "abort"}, CopyEntry(from, to, copy)
    PROVE  /\ IsTable(copy) /\ copy.slots = to.slots
           /\ fault' \in {"none", "memory", "overrun", "abort"}
  <1>1. CASE i >= from.slots
    BY <1>1 DEF CopyEntry
  <1>2. CASE ~(i >= from.slots)
    <2>1. from.entry[i] \in Entries
      BY <1>2 DEF IsTable
    <2> QED
      BY <1>2, <2>1, CopiedType DEF CopyEntry
  <1> QED
    BY <1>1, <1>2

LEMMA ReleaseType ==
    ASSUME NEW hp \in [Objects -> Contents], NEW objs
    PROVE  Release(hp, objs) \in [Objects -> Contents]
  BY DEF Release

LEMMA InitType == Init => TypeOK
  <1> SUFFICES ASSUME Init
               PROVE  TypeOK
    OBVIOUS
  <1>1. column \in [Columns -> Objects \cup {Null}] /\ IsTable(server) /\ server.slots = MaxBaseCol
    <2>1. PICK n \in 0..MaxBaseCol : \E listed \in [0..(n - 1) -> Columns], obj \in [0..(n - 1) -> Objects] :
             /\ Injective(listed)
             /\ Injective(obj)
             /\ column = [c \in Columns |->
                    IF \E j \in 0..(n - 1) : listed[j] = c
                    THEN obj[CHOOSE j \in 0..(n - 1) : listed[j] = c] ELSE Null]
             /\ server = [slots |-> MaxBaseCol, inUse |-> n,
                    entry |-> [j \in 0..(MaxBaseCol - 1) |->
                        IF j < n THEN [name |-> listed[j], kind |-> "COLUMN", obj |-> obj[j]]
                        ELSE Vacant]]
      BY DEF Init
    <2>2. PICK listed \in [0..(n - 1) -> Columns], obj \in [0..(n - 1) -> Objects] :
             /\ column = [c \in Columns |->
                    IF \E j \in 0..(n - 1) : listed[j] = c
                    THEN obj[CHOOSE j \in 0..(n - 1) : listed[j] = c] ELSE Null]
             /\ server = [slots |-> MaxBaseCol, inUse |-> n,
                    entry |-> [j \in 0..(MaxBaseCol - 1) |->
                        IF j < n THEN [name |-> listed[j], kind |-> "COLUMN", obj |-> obj[j]]
                        ELSE Vacant]]
      BY <2>1
    <2>3. column \in [Columns -> Objects \cup {Null}]
      BY <2>2
    <2>4. \A j \in 0..(MaxBaseCol - 1) : j < n => j \in 0..(n - 1)
      BY PoolAssumption
    <2>5. server.entry \in [0..(MaxBaseCol - 1) -> Entries]
      BY <2>2, <2>4 DEF Entries, Vacant
    <2> QED
      BY <2>2, <2>3, <2>5, PoolAssumption DEF IsTable
  <1>2. IsTable(client) /\ client.slots >= MaxVPool
    BY NewTableType, PoolAssumption DEF Init
  <1>3. heap \in [Objects -> Contents]
    BY DEF Init
  <1> QED
    BY <1>1, <1>2, <1>3 DEF Init, TypeOK

\* The step of a command that fails, or leaves the tables alone.
LEMMA AssignType ==
    ASSUME TypeOK, NEW h \in Handles, NEW kind \in Kinds, NEW ops, NEW content \in Contents,
           Assign(h, kind, ops, content)
    PROVE  TypeOK'
  <1>1. PICK o \in Objects :
          LET pool == Enter(client, h, kind, o)
              hp == [Cleaned({h}) EXCEPT ![o] = "raw"]
          IN  /\ Cleaned({h})[o] = "free"
              /\ IF CleanupFails({h}) THEN Faults("memory")
                 ELSE IF client.inUse >= MaxVPool THEN Faults("abort")
                 ELSE IF \E n \in ops : ~Usable(Bound(n, pool), hp) THEN Faults("memory")
                 ELSE /\ client' = pool
                      /\ heap' = [hp EXCEPT ![o] = content]
                      /\ UNCHANGED fault
    BY DEF Assign
  <1> DEFINE pool == Enter(client, h, kind, o)
             hp == [[Cleaned({h}) EXCEPT ![o] = "raw"] EXCEPT ![o] = content]
  <1>2. IsTable(pool) /\ pool.slots = client.slots
    BY EnterType DEF TypeOK
  <1>3. hp \in [Objects -> Contents]
    BY ReleaseType DEF TypeOK, Cleaned
  <1> HIDE DEF pool, hp
  <1>4. \/ client' = pool /\ heap' = hp /\ fault' = fault
        \/ client' = client /\ heap' = heap /\ fault' \in {"memory", "abort"}
    BY <1>1 DEF Faults, pool, hp
  <1>5. kept' \in BOOLEAN
    BY DEF Assign, TypeOK
  <1>6. IsTable(client') /\ client'.slots >= MaxVPool
    BY <1>2, <1>4 DEF TypeOK
  <1>7. heap' \in [Objects -> Contents]
    BY <1>3, <1>4 DEF TypeOK
  <1> QED
    BY <1>4, <1>5, <1>6, <1>7 DEF TypeOK, Assign, session, batch

LEMMA DefineType ==
    ASSUME TypeOK, Define
    PROVE  TypeOK'
  <1>1. ASSUME NEW h \in Handles, NEW c \in Names, Select(h, c) \/ ScalarOp(h, c)
        PROVE  TypeOK'
    BY <1>1, AssignType DEF Select, ScalarOp
  <1>2. ASSUME NEW h \in Handles, NEW p \in Names, NEW c \in Names, SelectFrom(h, p, c) \/ Fetch(h, c, p)
        PROVE  TypeOK'
    BY <1>2, AssignType DEF SelectFrom, Fetch
  <1>3. ASSUME NEW h \in Handles, NEW c \in Names, NEW d \in Names, ArithmeticOp(h, c, d)
        PROVE  TypeOK'
    BY <1>3, AssignType DEF ArithmeticOp
  <1>4. ASSUME NEW g \in Handles, NEW h \in Handles, NEW v1, NEW s1, NEW v2, NEW s2,
               Join(g, h, v1, s1, v2, s2)
        PROVE  TypeOK'
    <2> DEFINE clean == Cleaned({g, h})
               ops == {v1, s1, v2, s2}
    <2>1. PICK o \in Objects, p \in Objects :
              IF \/ CleanupFails({g, h})
                 \/ g = h /\ Exists(g, client)
                 \/ \E n \in ops : ~Usable(Bound(n, client), clean)
              THEN Faults("memory")
              ELSE LET pool == Enter(client, g, "POSITION", o)
                   IN  IF client.inUse >= MaxVPool \/ pool.inUse >= MaxVPool
                       THEN Faults("abort")
                       ELSE /\ client' = Enter(pool, h, "POSITION", p)
                            /\ heap' = [clean EXCEPT ![o] = "full", ![p] = "full"]
                            /\ UNCHANGED fault
      BY <1>4 DEF Join
    <2> DEFINE pool == Enter(client, g, "POSITION", o)
               both == Enter(pool, h, "POSITION", p)
               hp == [clean EXCEPT ![o] = "full", ![p] = "full"]
    <2>2. IsTable(pool) /\ pool.slots = client.slots
      BY EnterType DEF TypeOK
    <2>3. hp \in [Objects -> Contents]
      BY ReleaseType DEF TypeOK, Cleaned
    <2> HIDE DEF pool
    <2>4. IsTable(both) /\ both.slots = client.slots
      BY <2>2, EnterType
    <2> HIDE DEF both, hp, clean, ops
    <2>5. \/ client' = both /\ heap' = hp /\ fault' = fault
          \/ client' = client /\ heap' = heap /\ fault' \in {"memory", "abort"}
      BY <2>1 DEF Faults, pool, both, hp
    <2>6. IsTable(client') /\ client'.slots >= MaxVPool /\ heap' \in [Objects -> Contents]
      BY <2>3, <2>4, <2>5 DEF TypeOK
    <2>7. kept' \in BOOLEAN
      BY <1>4 DEF Join, TypeOK
    <2> QED
      BY <1>4, <2>5, <2>6, <2>7 DEF TypeOK, Join, session, batch
  <1>5. ASSUME NEW h \in Handles, NEW c \in Columns, BatchedSelect(h, c)
        PROVE  TypeOK'
    <2>1. PICK o \in Objects :
             IF CleanupFails({h}) THEN Faults("memory")
             ELSE IF client.inUse >= MaxVPool THEN Faults("abort")
             ELSE IF ~Usable(Bound(c, client), heap) THEN Faults("memory")
             ELSE /\ client' = Enter(client, h, "POSITION", o)
                  /\ heap' = [Cleaned({h}) EXCEPT ![o] = "raw"]
                  /\ UNCHANGED fault
      BY <1>5 DEF BatchedSelect
    <2> DEFINE pool == Enter(client, h, "POSITION", o)
               hp == [Cleaned({h}) EXCEPT ![o] = "raw"]
    <2>2. IsTable(pool) /\ pool.slots = client.slots
      BY EnterType DEF TypeOK
    <2>3. hp \in [Objects -> Contents]
      BY ReleaseType DEF TypeOK, Cleaned
    <2> HIDE DEF pool, hp
    <2>4. \/ client' = pool /\ heap' = hp /\ fault' = fault
          \/ client' = client /\ heap' = heap /\ fault' \in {"memory", "abort"}
      BY <2>1 DEF Faults, pool, hp
    <2>5. IsTable(client') /\ client'.slots >= MaxVPool /\ heap' \in [Objects -> Contents]
      BY <2>2, <2>3, <2>4 DEF TypeOK
    <2>6. kept' \in BOOLEAN /\ tasks' \subseteq Handles
      BY <1>5 DEF BatchedSelect, TypeOK
    <2> QED
      BY <1>5, <2>4, <2>5, <2>6 DEF TypeOK, BatchedSelect, session
  <1> QED
    BY <1>1, <1>2, <1>3, <1>4, <1>5 DEF Define

LEMMA ClearType ==
    ASSUME TypeOK, NEW n \in Nat, ClearContext(n)
    PROVE  /\ IsTable(client') /\ client'.slots >= MaxVPool
           /\ heap' \in [Objects -> Contents]
           /\ fault' \in {"none", "memory", "overrun", "abort"}
  <1>1. CASE ClearFails
    BY <1>1 DEF ClearContext, Faults, TypeOK
  <1>2. CASE ~ClearFails
    <2>1. heap' \in [Objects -> Contents] /\ fault' = fault
      BY <1>2, ReleaseType DEF ClearContext, TypeOK
    <2>2. client' = [NewTable(MaxVPool) EXCEPT !.inUse = n]
      BY <1>2 DEF ClearContext
    <2>3. client' = [slots |-> MaxVPool, inUse |-> n, entry |-> NewTable(MaxVPool).entry]
      BY <2>2 DEF NewTable
    <2>4. NewTable(MaxVPool).entry \in [0..(MaxVPool - 1) -> Entries]
      BY NewTableType, PoolAssumption DEF IsTable
    <2>5. IsTable(client') /\ client'.slots = MaxVPool
      BY <2>3, <2>4, TableOf, PoolAssumption
    <2> QED
      BY <2>1, <2>5, PoolAssumption DEF TypeOK
  <1> QED
    BY <1>1, <1>2

LEMMA StepType ==
    ASSUME TypeOK, [Next]_vars
    PROVE  TypeOK'
  <1> USE DEF session, batch
  <1>1. CASE Accept
    BY <1>1, NewTableType, PoolAssumption DEF Accept, TypeOK
  <1>2. CASE CopyIn
    <2>1. /\ IsTable(client') /\ client'.slots = client.slots
          /\ fault' \in {"none", "memory", "overrun", "abort"}
      BY <1>2, CopyEntryType DEF CopyIn, TypeOK
    <2> QED
      BY <1>2, <2>1 DEF CopyIn, TypeOK
  <1>3. CASE BeginSession
    BY <1>3 DEF BeginSession, TypeOK
  <1>4. CASE Disconnect
    BY <1>4 DEF Disconnect, TypeOK
  <1>5. CASE CopyOut
    <2>1. /\ IsTable(server') /\ server'.slots = server.slots
          /\ fault' \in {"none", "memory", "overrun", "abort"}
      BY <1>5, CopyEntryType DEF CopyOut, TypeOK
    <2> QED
      BY <1>5, <2>1 DEF CopyOut, TypeOK
  <1>6. CASE EndSession
    BY <1>6, ClearType DEF EndSession, TypeOK
  <1>7. CASE Shutdown
    <2>1. /\ IsTable(client') /\ client'.slots >= MaxVPool
          /\ heap' \in [Objects -> Contents]
          /\ fault' \in {"none", "memory", "overrun", "abort"}
      BY <1>7, ClearType, Fields DEF Shutdown, Faults, TypeOK
    <2> QED
      BY <1>7, <2>1 DEF Shutdown, TypeOK
  <1>8. CASE CommandAfterShutdown
    BY <1>8 DEF CommandAfterShutdown, Faults, TypeOK
  <1>9. CASE DisconnectAfterShutdown
    BY <1>9 DEF DisconnectAfterShutdown, Faults, TypeOK
  <1>10. CASE CreateDb
    BY <1>10, ReleaseType DEF CreateDb, TypeOK
  <1>11. ASSUME NEW c \in Columns, CreateColumn(c)
         PROVE  TypeOK'
    <2>1. CASE dbOpen /\ column[c] = Null
      <3>1. PICK o \in Objects :
              /\ heap' = [heap EXCEPT ![o] = "full"]
              /\ column' = [column EXCEPT ![c] = o]
              /\ client' = Append(client, c, o)
              /\ UNCHANGED fault
        BY <1>11, <2>1 DEF CreateColumn
      <3>2. IsTable(client') /\ client'.slots >= client.slots
        BY <3>1, AppendType DEF TypeOK
      <3>3. client'.slots \in Nat /\ client.slots \in Nat
        BY <3>2, Fields DEF TypeOK
      <3>4. client'.slots >= MaxVPool
        BY <3>2, <3>3, PoolAssumption DEF TypeOK
      <3>5. kept' \in BOOLEAN /\ ordered' \in BOOLEAN
        BY <1>11 DEF CreateColumn, TypeOK
      <3> QED
        BY <1>11, <3>1, <3>2, <3>4, <3>5 DEF CreateColumn, TypeOK
    <2>2. CASE ~(dbOpen /\ column[c] = Null)
      <3>1. kept' \in BOOLEAN /\ ordered' \in BOOLEAN
        BY <1>11 DEF CreateColumn, TypeOK
      <3>2. Faults("memory") /\ column' = column
        BY <1>11, <2>2 DEF CreateColumn
      <3> QED
        BY <1>11, <3>1, <3>2 DEF CreateColumn, Faults, TypeOK
    <2> QED
      BY <2>1, <2>2
  <1>12. CASE Define
    BY <1>12, DefineType
  <1>13. ASSUME NEW n \in Names, Read(n)
         PROVE  TypeOK'
    <2>1. kept' \in BOOLEAN
      BY <1>13 DEF Read, TypeOK
    <2> QED
      BY <1>13, <2>1 DEF Read, Faults, TypeOK
  <1>14. CASE BatchQueries
    BY <1>14 DEF BatchQueries, TypeOK
  <1>15. CASE BatchExecute
    BY <1>15 DEF BatchExecute, Faults, TypeOK
  <1>16. CASE UNCHANGED vars
    BY <1>16 DEF vars, TypeOK
  <1> QED
    BY <1>1, <1>2, <1>3, <1>4, <1>5, <1>6, <1>7, <1>8, <1>9, <1>10, <1>11, <1>12,
       <1>13, <1>14, <1>15, <1>16 DEF Next

\* Every variable keeps its type, whatever clients do.
THEOREM TypeCorrect == Spec => []TypeOK
  BY InitType, StepType, PTL DEF Spec

-------------------------------------------------------------------------------
(* Tables without two entries of a name.                                   *)

LEMMA InUseIs ==
    ASSUME NEW t, IsTable(t), t.inUse <= t.slots
    PROVE  InUse(t) = 0..(t.inUse - 1)
  BY Fields DEF InUse

LEMMA Unique ==
    ASSUME NEW t, IsTable(t), Distinct(t), NEW j \in InUse(t)
    PROVE  /\ Exists(t.entry[j].name, t)
           /\ First(t.entry[j].name, t) = j
           /\ Bound(t.entry[j].name, t) = t.entry[j]
  <1> DEFINE n == t.entry[j].name
  <1>1. Places(n, t) = {j}
    BY DEF Places, Distinct
  <1>2. j <= j
    BY Fields DEF InUse
  <1>3. First(n, t) = j
    BY <1>1, <1>2 DEF First
  <1> QED
    BY <1>1, <1>3 DEF Exists, Bound

LEMMA Found ==
    ASSUME NEW t, IsTable(t), Distinct(t), NEW n, Exists(n, t)
    PROVE  /\ First(n, t) \in InUse(t)
           /\ t.entry[First(n, t)].name = n
           /\ Bound(n, t) = t.entry[First(n, t)]
  <1>1. PICK j \in InUse(t) : t.entry[j].name = n
    BY DEF Exists, Places
  <1> QED
    BY <1>1, Unique DEF Bound

\* What entering a name does to a table.
LEMMA Entered ==
    ASSUME NEW t, IsTable(t), Distinct(t), t.inUse <= t.slots,
           NEW n, NEW kind, NEW o, t.inUse < t.slots
    PROVE  LET r == Enter(t, n, kind, o)
               P == Position(n, t)
           IN  /\ r.slots = t.slots /\ r.inUse <= r.slots /\ t.inUse <= r.inUse
               /\ r.inUse <= t.inUse + 1
               /\ InUse(t) \subseteq InUse(r)
               /\ P \in InUse(r)
               /\ r.entry[P] = [name |-> n, kind |-> kind, obj |-> o]
               /\ \A j \in InUse(r) : j # P =>
                     j \in InUse(t) /\ r.entry[j] = t.entry[j] /\ t.entry[j].name # n
               /\ P \in InUse(t) => t.entry[P].name = n
               /\ P \notin InUse(t) => P = t.inUse
               /\ Distinct(r)
  <1> DEFINE r == Enter(t, n, kind, o)
             P == Position(n, t)
             e == [name |-> n, kind |-> kind, obj |-> o]
  <1>1. t.slots \in Nat /\ t.inUse \in Nat /\ t.entry \in [0..(t.slots - 1) -> Entries]
    BY Fields
  <1>2. /\ r.slots = t.slots
        /\ r.inUse = IF Exists(n, t) THEN t.inUse ELSE t.inUse + 1
        /\ r.entry = [t.entry EXCEPT ![P] = e]
    BY DEF Enter, PutAt
  <1>3. InUse(t) = 0..(t.inUse - 1)
    BY InUseIs
  <1>4. CASE Exists(n, t)
    <2>1. P \in InUse(t) /\ t.entry[P].name = n
      BY <1>4, Found DEF Position
    <2> HIDE DEF r, P, e
    <2>2. InUse(r) = InUse(t)
      BY <1>1, <1>2, <1>4 DEF InUse
    <2>3. r.entry[P] = e
      BY <1>1, <1>2, <1>3, <2>1
    <2>4. \A j \in InUse(r) : j # P =>
                j \in InUse(t) /\ r.entry[j] = t.entry[j] /\ t.entry[j].name # n
      BY <1>1, <1>2, <2>1, <2>2 DEF Distinct, InUse
    <2>5. Distinct(r)
      BY <2>1, <2>2, <2>3, <2>4 DEF Distinct, e
    <2>6. /\ r.slots = t.slots /\ r.inUse <= r.slots /\ t.inUse <= r.inUse
          /\ r.inUse <= t.inUse + 1
      BY <1>1, <1>2, <1>4
    <2> QED
      BY <2>1, <2>2, <2>3, <2>4, <2>5, <2>6 DEF r, P, e
  <1>5. CASE ~Exists(n, t)
    <2>1. P = t.inUse
      BY <1>5 DEF Position
    <2>2. \A j \in InUse(t) : t.entry[j].name # n
      BY <1>5 DEF Exists, Places
    <2> HIDE DEF r, P, e
    <2>3. InUse(r) = InUse(t) \cup {P} /\ P \notin InUse(t)
      BY <1>1, <1>2, <1>5, <2>1 DEF InUse
    <2>4. r.entry[P] = e
      BY <1>1, <1>2, <2>1
    <2>5. \A j \in InUse(r) : j # P =>
                j \in InUse(t) /\ r.entry[j] = t.entry[j] /\ t.entry[j].name # n
      BY <1>1, <1>2, <2>2, <2>3 DEF InUse
    <2>6. Distinct(r)
      BY <2>3, <2>4, <2>5 DEF Distinct, e
    <2>7. /\ r.slots = t.slots /\ r.inUse <= r.slots /\ t.inUse <= r.inUse
          /\ r.inUse <= t.inUse + 1
      BY <1>1, <1>2, <1>5
    <2> QED
      BY <2>1, <2>3, <2>4, <2>5, <2>6, <2>7 DEF r, P, e
  <1> QED
    BY <1>4, <1>5

\* Entering a handle keeps the shape of the client's table.
LEMMA EnterShape ==
    ASSUME NEW t, IsTable(t), Shape(t), t.inUse < t.slots, TypeOK, ServerHolds,
           NEW h \in Handles, NEW kind \in Kinds \ {"COLUMN"}, NEW o \in Objects
    PROVE  Shape(Enter(t, h, kind, o))
  <1> DEFINE r == Enter(t, h, kind, o)
             P == Position(h, t)
  <1>0. Distinct(t) /\ t.inUse <= t.slots
    BY DEF Shape
  <1>1. /\ r.slots = t.slots /\ r.inUse <= r.slots /\ t.inUse <= r.inUse
        /\ InUse(t) \subseteq InUse(r)
        /\ P \in InUse(r)
        /\ r.entry[P] = [name |-> h, kind |-> kind, obj |-> o]
        /\ \A j \in InUse(r) : j # P =>
              j \in InUse(t) /\ r.entry[j] = t.entry[j] /\ t.entry[j].name # h
        /\ P \in InUse(t) => t.entry[P].name = h
        /\ P \notin InUse(t) => P = t.inUse
        /\ Distinct(r)
    BY <1>0, Entered
  <1> HIDE DEF r, P
  <1>2. t.inUse \in Nat /\ t.slots \in Nat /\ InUse(t) = 0..(t.inUse - 1)
    BY <1>0, Fields, InUseIs
  <1>3. server.inUse \in Nat /\ InUse(server) = 0..(server.inUse - 1)
    BY Fields, InUseIs DEF TypeOK, ServerHolds
  <1>4. \A j \in InUse(r) :
           \/ IsColumn(r.entry[j]) /\ j < MaxBaseCol
           \/ /\ IsHandle(r.entry[j])
              /\ r.entry[j].name \in Handles
              /\ r.entry[j].obj \in Objects
    BY <1>1 DEF Shape, IsHandle
  <1>5. P \in InUse(t) => IsHandle(t.entry[P])
    BY <1>1, PoolAssumption DEF Shape, IsColumn
  <1>6. \A j, k \in InUse(r) : j < k /\ IsHandle(r.entry[j]) => IsHandle(r.entry[k])
    <2> TAKE j, k \in InUse(r)
    <2> HAVE j < k /\ IsHandle(r.entry[j])
    <2>1. CASE k = P
      BY <2>1, <1>1 DEF IsHandle
    <2>2. CASE k # P
      <3>1. k \in InUse(t) /\ r.entry[k] = t.entry[k]
        BY <2>2, <1>1
      <3>2. j \in InUse(t)
        BY <3>1, <1>1, <1>2 DEF InUse
      <3>3. IsHandle(t.entry[j])
        BY <3>2, <1>1, <1>5
      <3> QED
        BY <3>1, <3>2, <3>3 DEF Shape
    <2> QED
      BY <2>1, <2>2
  <1>7. Lists(r)
    <2> SUFFICES ASSUME NEW c \in Columns, column[c] # Null
                 PROVE  Exists(c, r)
      BY DEF Lists
    <2>1. PICK j \in InUse(t) : t.entry[j].name = c
      BY DEF Shape, Lists, Exists, Places
    <2>2. j # P
      BY <2>1, <1>1, PoolAssumption
    <2>3. j \in InUse(r) /\ r.entry[j] = t.entry[j]
      BY <2>1, <2>2, <1>1
    <2> QED
      BY <2>1, <2>3 DEF Exists, Places
  <1>8. server.inUse <= r.inUse
    <2>1. r.inUse \in Nat
      BY EnterType, Fields DEF r
    <2> QED
      BY <2>1, <1>1, <1>2, <1>3 DEF Shape
  <1>9. \A j \in 0..(server.inUse - 1) : r.entry[j] = server.entry[j]
    <2> TAKE j \in 0..(server.inUse - 1)
    <2>1. j \in InUse(t) /\ t.entry[j] = server.entry[j]
      BY <1>2, <1>3 DEF Shape
    <2>2. t.entry[j].name \in Columns
      BY <2>1, <1>3 DEF ServerHolds, IsColumn
    <2>3. j # P
      BY <2>1, <2>2, <1>1, PoolAssumption
    <2> QED
      BY <2>1, <2>3, <1>1
  <1> QED
    BY <1>1, <1>4, <1>6, <1>7, <1>8, <1>9 DEF Shape, r

-------------------------------------------------------------------------------
(* Ownership.  A command first frees what its handles stood for and then     *)
(* enters new objects for them: in between, the entries named in pend are    *)
(* dangling.                                                                 *)

OwnsAt(t, hp, q, pend, j) ==
    /\ hp[t.entry[j].obj] # "free"
    /\ hp[t.entry[j].obj] = "raw" => t.entry[j].name \in q
    /\ \A c \in Columns : column[c] # t.entry[j].obj
    /\ \A k \in InUse(t) : t.entry[k].name \notin pend /\ t.entry[k].obj = t.entry[j].obj => k = j

Own(t, hp, q, pend) ==
    \A j \in InUse(t) :
        IsHandle(t.entry[j]) /\ t.entry[j].name \notin pend => OwnsAt(t, hp, q, pend, j)

Reach(t, hp, pend) ==
    \A o \in Objects : hp[o] # "free" =>
        \/ \E c \in Columns : column[c] = o
        \/ \E j \in InUse(t) : /\ IsHandle(t.entry[j])
                               /\ t.entry[j].name \notin pend
                               /\ t.entry[j].obj = o

ColumnsFull(hp) == \A c \in Columns : column[c] # Null => hp[column[c]] = "full"

\* An entry of a table in shape is a column or a handle, as its name tells.
LEMMA ShapeEntry ==
    ASSUME NEW t, Shape(t), NEW j \in InUse(t)
    PROVE  /\ t.entry[j].obj \in Objects
           /\ IsHandle(t.entry[j]) => t.entry[j].name \in Handles
           /\ ~IsHandle(t.entry[j]) => IsColumn(t.entry[j]) /\ j < MaxBaseCol
           /\ t.entry[j].name \in Handles => IsHandle(t.entry[j])
           /\ t.entry[j].name \in Columns => ~IsHandle(t.entry[j])
  BY PoolAssumption DEF Shape, IsColumn, IsHandle

\* The entries cleanup_handle frees are those of the given names.
LEMMA OldIs ==
    ASSUME IsTable(client), Shape(client), NEW hs \in SUBSET Handles
    PROVE  /\ \A e \in Old(hs) : IsHandle(e) /\ \E j \in InUse(client) :
                    e = client.entry[j] /\ client.entry[j].name \in hs
           /\ \A j \in InUse(client) : client.entry[j].name \in hs => client.entry[j] \in Old(hs)
  <1>1. Distinct(client)
    BY DEF Shape
  <1>2. ASSUME NEW e \in Old(hs)
        PROVE  IsHandle(e) /\ \E j \in InUse(client) :
                    e = client.entry[j] /\ client.entry[j].name \in hs
    <2>1. PICK g \in hs : Exists(g, client) /\ e = Bound(g, client)
      BY DEF Old
    <2>2. /\ First(g, client) \in InUse(client)
          /\ client.entry[First(g, client)].name = g
          /\ e = client.entry[First(g, client)]
      BY <1>1, <2>1, Found
    <2> QED
      BY <2>2, ShapeEntry
  <1>3. ASSUME NEW j \in InUse(client), client.entry[j].name \in hs
        PROVE  client.entry[j] \in Old(hs)
    BY <1>1, <1>3, Unique DEF Old
  <1> QED
    BY <1>2, <1>3

LEMMA CleanOwn ==
    ASSUME TypeOK, Shape(client), NEW q, Own(client, heap, q, {}), Reach(client, heap, {}),
           ColumnsFull(heap), NEW hs \in SUBSET Handles
    PROVE  /\ Own(client, Cleaned(hs), q, hs)
           /\ Reach(client, Cleaned(hs), hs)
           /\ ColumnsFull(Cleaned(hs))
           /\ \A j \in InUse(client) : client.entry[j].name \notin hs =>
                    Cleaned(hs)[client.entry[j].obj] = heap[client.entry[j].obj]
           /\ q \cap hs = {} => ~CleanupFails(hs)
  <1> DEFINE F == {e.obj : e \in {f \in Old(hs) : IsHandle(f)}}
             hp == Cleaned(hs)
  <1>1. \A o \in Objects : hp[o] = IF o \in F THEN "free" ELSE heap[o]
    BY DEF Cleaned, Release
  <1>2. IsTable(client)
    BY DEF TypeOK
  <1>3. \A o : o \in F <=> \E j \in InUse(client) :
                client.entry[j].name \in hs /\ client.entry[j].obj = o
    BY <1>2, OldIs
  <1> HIDE DEF F, hp
  <1>4. ASSUME NEW j \in InUse(client), client.entry[j].name \notin hs
        PROVE  client.entry[j].obj \notin F
    <2> SUFFICES ASSUME NEW k \in InUse(client), client.entry[k].name \in hs,
                        client.entry[k].obj = client.entry[j].obj
                 PROVE  FALSE
      BY <1>3
    <2>1. IsHandle(client.entry[k])
      BY ShapeEntry
    <2>2. OwnsAt(client, heap, q, {}, k)
      BY <2>1 DEF Own
    <2>3. j = k
      BY <2>2 DEF OwnsAt
    <2> QED
      BY <2>3, <1>4
  <1>5. \A j \in InUse(client) : client.entry[j].name \notin hs =>
                    hp[client.entry[j].obj] = heap[client.entry[j].obj]
    BY <1>1, <1>4, ShapeEntry
  <1>6. Own(client, hp, q, hs)
    <2> SUFFICES ASSUME NEW j \in InUse(client), IsHandle(client.entry[j]),
                        client.entry[j].name \notin hs
                 PROVE  OwnsAt(client, hp, q, hs, j)
      BY DEF Own
    <2>1. OwnsAt(client, heap, q, {}, j)
      BY DEF Own
    <2> QED
      BY <2>1, <1>5 DEF OwnsAt
  <1>7. Reach(client, hp, hs)
    <2> SUFFICES ASSUME NEW o \in Objects, hp[o] # "free"
                 PROVE  \/ \E c \in Columns : column[c] = o
                        \/ \E j \in InUse(client) : /\ IsHandle(client.entry[j])
                               /\ client.entry[j].name \notin hs
                               /\ client.entry[j].obj = o
      BY DEF Reach
    <2>1. o \notin F /\ heap[o] # "free"
      BY <1>1
    <2>2. \/ \E c \in Columns : column[c] = o
          \/ \E j \in InUse(client) : IsHandle(client.entry[j]) /\ client.entry[j].obj = o
      BY <2>1 DEF Reach
    <2> QED
      BY <2>1, <2>2, <1>3
  <1>8. ColumnsFull(hp)
    <2> SUFFICES ASSUME NEW c \in Columns, column[c] # Null
                 PROVE  hp[column[c]] = "full"
      BY DEF ColumnsFull
    <2>1. column[c] \in Objects
      BY DEF TypeOK
    <2>2. column[c] \notin F
      <3> SUFFICES ASSUME NEW k \in InUse(client), client.entry[k].name \in hs,
                          client.entry[k].obj = column[c]
                   PROVE  FALSE
        BY <1>3
      <3>1. OwnsAt(client, heap, q, {}, k)
        BY ShapeEntry DEF Own
      <3> QED
        BY <3>1 DEF OwnsAt
    <2> QED
      BY <1>1, <2>1, <2>2 DEF ColumnsFull
  <1>9. ASSUME q \cap hs = {}
        PROVE  ~CleanupFails(hs)
    <2> SUFFICES ASSUME NEW e \in Old(hs), BadFree(e)
                 PROVE  FALSE
      BY DEF CleanupFails
    <2>1. PICK j \in InUse(client) : e = client.entry[j] /\ client.entry[j].name \in hs
      BY <1>2, OldIs
    <2>2. OwnsAt(client, heap, q, {}, j) /\ e.obj \in Objects
      BY <2>1, ShapeEntry DEF Own
    <2>3. heap[e.obj] \in Contents
      BY <2>2 DEF TypeOK
    <2>4. heap[e.obj] \in {"part", "full"}
      BY <1>9, <2>1, <2>2, <2>3 DEF OwnsAt
    <2> QED
      BY <2>2, <2>4, PoolAssumption DEF BadFree
  <1> QED
    BY <1>5, <1>6, <1>7, <1>8, <1>9 DEF hp

LEMMA EnterOwn ==
    ASSUME NEW t, IsTable(t), Distinct(t), t.inUse < t.slots,
           NEW hp \in [Objects -> Contents], NEW r, NEW pend,
           Own(t, hp, r, pend), Reach(t, hp, pend), ColumnsFull(hp),
           column \in [Columns -> Objects \cup {Null}],
           \A j \in InUse(t) : t.entry[j].obj \in Objects \/ t.entry[j].name \in pend,
           \A j \in InUse(t) : ~IsHandle(t.entry[j]) => IsColumn(t.entry[j]),
           NEW h \in Handles, Exists(h, t) => h \in pend, NEW kind \in Kinds \ {"COLUMN"},
           NEW o \in Objects, hp[o] = "free",
           NEW content \in {"raw", "part", "full"}, content = "raw" => h \in r
    PROVE  LET s == Enter(t, h, kind, o)
               hp2 == [hp EXCEPT ![o] = content]
           IN  /\ Own(s, hp2, r, pend \ {h})
               /\ Reach(s, hp2, pend \ {h})
               /\ ColumnsFull(hp2)
  <1> DEFINE s == Enter(t, h, kind, o)
             hp2 == [hp EXCEPT ![o] = content]
             P == Position(h, t)
             rest == pend \ {h}
  <1>0. t.inUse \in Nat /\ t.slots \in Nat
    BY Fields
  <1>1. /\ InUse(t) \subseteq InUse(s)
        /\ P \in InUse(s)
        /\ s.entry[P] = [name |-> h, kind |-> kind, obj |-> o]
        /\ \A j \in InUse(s) : j # P =>
              j \in InUse(t) /\ s.entry[j] = t.entry[j] /\ t.entry[j].name # h
        /\ P \in InUse(t) => t.entry[P].name = h
    BY <1>0, Entered
  <1>2. hp2[o] = content /\ \A p \in Objects : p # o => hp2[p] = hp[p]
    OBVIOUS
  <1>3. \A c \in Columns : column[c] # o
    BY PoolAssumption DEF ColumnsFull
  <1> HIDE DEF s, hp2, P
  <1>4. ASSUME NEW j \in InUse(s), s.entry[j].name \notin rest, j # P
        PROVE  /\ j \in InUse(t) /\ s.entry[j] = t.entry[j]
               /\ t.entry[j].name \notin pend
               /\ t.entry[j].obj # o
    <2>1. /\ j \in InUse(t) /\ s.entry[j] = t.entry[j]
          /\ t.entry[j].name \notin pend
      BY <1>1, <1>4
    <2>2. CASE IsHandle(t.entry[j])
      BY <2>1, <2>2 DEF Own, OwnsAt
    <2>3. CASE ~IsHandle(t.entry[j])
      BY <1>3, <2>1, <2>3 DEF IsColumn
    <2> QED
      BY <2>1, <2>2, <2>3
  <1>5. Own(s, hp2, r, rest)
    <2> SUFFICES ASSUME NEW j \in InUse(s), IsHandle(s.entry[j]), s.entry[j].name \notin rest
                 PROVE  OwnsAt(s, hp2, r, rest, j)
      BY DEF Own
    <2>1. CASE j = P
      <3>1. s.entry[j].obj = o /\ s.entry[j].name = h
        BY <1>1, <2>1
      <3>2. \A k \in InUse(s) : s.entry[k].name \notin rest /\ s.entry[k].obj = o => k = P
        BY <1>4
      <3> QED
        BY <1>2, <1>3, <2>1, <3>1, <3>2 DEF OwnsAt
    <2>2. CASE j # P
      <3>1. /\ j \in InUse(t) /\ s.entry[j] = t.entry[j]
            /\ t.entry[j].name \notin pend
            /\ t.entry[j].obj # o
        BY <1>4, <2>2
      <3>2. OwnsAt(t, hp, r, pend, j) /\ t.entry[j].obj \in Objects
        BY <3>1 DEF Own
      <3>3. hp2[s.entry[j].obj] = hp[t.entry[j].obj]
        BY <1>2, <3>1, <3>2
      <3>4. \A k \in InUse(s) : s.entry[k].name \notin rest /\ s.entry[k].obj = s.entry[j].obj => k = j
        BY <1>1, <1>4, <3>1, <3>2 DEF OwnsAt
      <3> QED
        BY <3>1, <3>2, <3>3, <3>4 DEF OwnsAt
    <2> QED
      BY <2>1, <2>2
  <1>6. Reach(s, hp2, rest)
    <2> SUFFICES ASSUME NEW p \in Objects, hp2[p] # "free",
                        \A c \in Columns : column[c] # p
                 PROVE  \E j \in InUse(s) : /\ IsHandle(s.entry[j])
                               /\ s.entry[j].name \notin rest
                               /\ s.entry[j].obj = p
      BY DEF Reach
    <2>1. CASE p = o
      BY <1>1, <2>1 DEF IsHandle
    <2>2. CASE p # o
      <3>1. hp[p] # "free"
        BY <1>2, <2>2
      <3>2. PICK j \in InUse(t) : /\ IsHandle(t.entry[j])
                                  /\ t.entry[j].name \notin pend
                                  /\ t.entry[j].obj = p
        BY <3>1 DEF Reach
      <3>3. CASE j # P
        BY <1>1, <3>2, <3>3
      <3>4. CASE j = P
        <4>1. t.entry[j].name = h /\ h \notin pend
          BY <1>1, <3>2, <3>4
        <4>2. Exists(h, t)
          BY <3>2, <4>1 DEF Exists, Places
        <4> QED
          BY <4>1, <4>2
      <3> QED
        BY <3>3, <3>4
    <2> QED
      BY <2>1, <2>2
  <1>7. ColumnsFull(hp2)
    BY <1>2, <1>3 DEF ColumnsFull
  <1> QED
    BY <1>5, <1>6, <1>7 DEF s, hp2

-------------------------------------------------------------------------------
(* The invariant, action by action.                                        *)

Safe == RulesSuffice /\ (Promising => Sound)

LEMMA SessionSafe ==
    ASSUME TypeOK, Sound, Promising, Accept \/ BeginSession \/ Disconnect
    PROVE  Safe'
  <1> USE DEF session, batch
  <1>0. IsTable(server) /\ IsTable(client)
    BY DEF TypeOK
  <1>1. CASE Accept
    <2>1. NewTable(MaxVPool).slots = MaxVPool /\ NewTable(MaxVPool).inUse = 0
      BY DEF NewTable
    <2>2. ColumnsOwned'
      BY <1>1 DEF Accept, Sound, ColumnsOwned
    <2>3. ServerHolds'
      BY <1>1 DEF Accept, Sound, ServerHolds, IsColumn, Distinct, InUse, Lists, Exists, Places
    <2>4. CopiedIn'
      BY <1>1, <2>1, <1>0, Fields, PoolAssumption DEF Accept, CopiedIn
    <2>5. Reachable'
      BY <1>1 DEF Accept, Sound, Reachable, Connected
    <2>6. Queued'
      BY <1>1 DEF Accept, Sound, Queued
    <2>7. Idle' /\ ClientHolds' /\ CopiedOut' /\ HandlesOwn'
      BY <1>1 DEF Accept, Idle, ClientHolds, CopiedOut, HandlesOwn, Connected
    <2>8. RulesSuffice'
      BY <1>1 DEF Accept, RulesSuffice
    <2> QED
      BY <2>2, <2>3, <2>4, <2>5, <2>6, <2>7, <2>8 DEF Sound, Safe
  <1>2. CASE BeginSession
    <2>0. /\ client' = client /\ server' = server /\ heap' = heap /\ column' = column
          /\ dbOpen' = dbOpen /\ phase' = "serving" /\ phase = "copyIn"
          /\ tasks' = tasks /\ batching' = batching
      BY <1>2 DEF BeginSession
    <2>1. /\ client.inUse = server.inUse
          /\ \A j \in 0..(server.inUse - 1) : client.entry[j] = server.entry[j]
          /\ server.inUse <= MaxBaseCol /\ MaxBaseCol <= client.slots
          /\ server.inUse \in Nat /\ client.slots \in Nat
      BY <1>0, <1>2, Fields, PoolAssumption DEF BeginSession, Sound, CopiedIn, ServerHolds, TypeOK
    <2>2. InUse(client) = 0..(server.inUse - 1) /\ InUse(server) = 0..(server.inUse - 1)
      BY <1>0, <2>1, PoolAssumption DEF InUse, TypeOK
    <2>3. \A j \in InUse(client) : IsColumn(client.entry[j]) /\ ~IsHandle(client.entry[j]) /\ j < MaxBaseCol
      BY <2>1, <2>2, PoolAssumption DEF Sound, ServerHolds, IsColumn, IsHandle
    <2>4. Distinct(client)
      BY <2>1, <2>2 DEF Sound, ServerHolds, Distinct
    <2>5. Lists(client)
      BY <2>0, <2>1, <2>2 DEF Sound, ServerHolds, Lists, Exists, Places
    <2>6. Shape(client)
      BY <2>1, <2>2, <2>3, <2>4, <2>5, PoolAssumption DEF Shape
    <2>7. ClientHolds'
      BY <2>0, <2>6 DEF ClientHolds, Shape, IsColumn, IsHandle, Distinct, Lists, Exists, Places, InUse
    <2>8. ColumnsOwned'
      BY <2>0 DEF Sound, ColumnsOwned
    <2>9. ServerHolds'
      BY <2>0 DEF Sound, ServerHolds, IsColumn, Distinct, InUse
    <2>10. HandlesOwn'
      BY <2>0, <2>3 DEF HandlesOwn, InUse, IsHandle
    <2>11. Reachable'
      BY <2>0 DEF Sound, Reachable, Connected
    <2>12. Queued'
      BY <2>0 DEF Sound, Queued
    <2>13. Idle' /\ CopiedIn' /\ CopiedOut'
      BY <2>0 DEF Idle, CopiedIn, CopiedOut
    <2>14. RulesSuffice'
      BY <1>2 DEF BeginSession, RulesSuffice
    <2> QED
      BY <2>7, <2>8, <2>9, <2>10, <2>11, <2>12, <2>13, <2>14 DEF Sound, Safe
  <1>3. CASE Disconnect
    <2>0. /\ client' = client /\ server' = server /\ heap' = heap /\ column' = column
          /\ dbOpen' = dbOpen /\ phase' = "copyOut" /\ phase = "serving" /\ i' = 0
          /\ tasks' = tasks /\ batching' = batching
      BY <1>3 DEF Disconnect
    <2>1. ClientHolds'
      BY <2>0 DEF Sound, Connected, ClientHolds, Shape, IsColumn, IsHandle, Distinct, Lists,
                  Exists, Places, InUse
    <2>2. ColumnsOwned'
      BY <2>0 DEF Sound, ColumnsOwned
    <2>3. ServerHolds'
      BY <2>0 DEF Sound, ServerHolds, IsColumn, Distinct, InUse
    <2>4. HandlesOwn'
      BY <2>0 DEF Sound, HandlesOwn, InUse, IsHandle, Connected
    <2>5. Reachable'
      BY <2>0 DEF Sound, Reachable, Connected, InUse, IsHandle
    <2>6. kept' => Queued'
      <3>1. kept' => ~batching
        BY <1>3 DEF Disconnect
      <3> QED
        BY <2>0, <3>1 DEF Sound, Queued
    <2>7. CopiedOut'
      <3>1. InUse(client) \subseteq Nat /\ client.inUse \in Nat
        BY <1>0, Fields DEF InUse
      <3> QED
        BY <2>0, <3>1 DEF CopiedOut, InUse
    <2>8. Idle' /\ CopiedIn'
      BY <2>0 DEF Idle, CopiedIn
    <2>9. RulesSuffice'
      BY <1>3 DEF Disconnect, RulesSuffice
    <2> QED
      BY <2>1, <2>2, <2>3, <2>4, <2>5, <2>6, <2>7, <2>8, <2>9 DEF Sound, Safe, Promising, Trusted
  <1> QED
    BY <1>1, <1>2, <1>3

\* What Copied writes.
LEMMA CopiedIs ==
    ASSUME NEW t, IsTable(t), NEW j \in 0..(t.slots - 1), NEW e
    PROVE  LET r == Copied(t, j, e)
           IN  /\ r.slots = t.slots /\ r.inUse = t.inUse + 1
               /\ r.entry[j] = e
               /\ \A k \in 0..(t.slots - 1) : k # j => r.entry[k] = t.entry[k]
  BY Fields DEF Copied, PutAt

LEMMA CopyInSafe ==
    ASSUME TypeOK, Sound, Promising, CopyIn
    PROVE  Safe'
  <1> DEFINE e == server.entry[i]
             r == Copied(client, i, e)
  <1>0. IsTable(server) /\ IsTable(client) /\ i \in Nat /\ phase = "copyIn" /\ i' = i + 1
    BY DEF TypeOK, CopyIn
  <1>1. /\ i < server.inUse /\ server.inUse <= MaxBaseCol /\ server.slots = MaxBaseCol
        /\ server.inUse \in Nat /\ client.slots \in Nat
        /\ client.inUse = i /\ MaxBaseCol <= client.slots
        /\ \A j \in 0..(i - 1) : client.entry[j] = server.entry[j]
    BY <1>0, Fields, PoolAssumption DEF CopyIn, Sound, ServerHolds, CopiedIn, TypeOK
  <1>2. InUse(server) = 0..(server.inUse - 1) /\ InUse(client) = 0..(i - 1)
    BY <1>0, <1>1, PoolAssumption DEF InUse
  <1>3. i \in InUse(server) /\ ~IsHandle(e)
    BY <1>0, <1>1, <1>2 DEF Sound, ServerHolds, IsColumn, IsHandle
  <1>4. ~Exists(e.name, client)
    <2> SUFFICES ASSUME NEW j \in 0..(i - 1), client.entry[j].name = e.name
                 PROVE  FALSE
      BY <1>2 DEF Exists, Places
    <2>1. j \in InUse(server) /\ server.entry[j].name = e.name /\ j # i
      BY <1>0, <1>1, <1>2
    <2> QED
      BY <1>3, <2>1 DEF Sound, ServerHolds, Distinct
  <1>5. ~(i >= server.slots) /\ ~(i >= client.slots) /\ i \in 0..(client.slots - 1)
    BY <1>0, <1>1, PoolAssumption
  <1>6. fault' = fault /\ client' = r
    BY <1>3, <1>4, <1>5 DEF CopyIn, CopyEntry
  <1>7. /\ r.slots = client.slots /\ r.inUse = i + 1
        /\ r.entry[i] = e
        /\ \A k \in 0..(client.slots - 1) : k # i => r.entry[k] = client.entry[k]
    BY <1>0, <1>1, <1>5, CopiedIs
  <1> HIDE DEF r
  <1>8. /\ server' = server /\ heap' = heap /\ column' = column /\ dbOpen' = dbOpen
        /\ phase' = "copyIn" /\ tasks' = tasks /\ batching' = batching
    BY <1>0 DEF CopyIn, batch
  <1>9. CopiedIn'
    <2>1. \A j \in 0..i : r.entry[j] = server.entry[j]
      BY <1>0, <1>1, <1>5, <1>7
    <2>2. i + 1 <= server.inUse
      BY <1>0, <1>1
    <2>3. (i + 1) - 1 = i
      BY <1>0
    <2>4. client.slots >= MaxVPool
      BY DEF TypeOK
    <2> QED
      BY <1>0, <1>6, <1>7, <1>8, <2>1, <2>2, <2>3, <2>4 DEF CopiedIn
  <1>10. ColumnsOwned'
    BY <1>8 DEF Sound, ColumnsOwned
  <1>11. ServerHolds'
    BY <1>0, <1>8 DEF Sound, ServerHolds, IsColumn, Distinct, InUse, Lists, Exists, Places
  <1>12. Reachable'
    BY <1>0, <1>8 DEF Sound, Reachable, Connected
  <1>13. Queued'
    BY <1>0, <1>8 DEF Sound, Queued
  <1>14. Idle' /\ ClientHolds' /\ CopiedOut' /\ HandlesOwn'
    BY <1>8 DEF Idle, ClientHolds, CopiedOut, HandlesOwn, Connected
  <1>15. RulesSuffice'
    BY <1>6 DEF RulesSuffice, Promising, Trusted
  <1> QED
    BY <1>9, <1>10, <1>11, <1>12, <1>13, <1>14, <1>15 DEF Sound, Safe

LEMMA CopyOutSafe ==
    ASSUME TypeOK, Sound, Promising, CopyOut
    PROVE  Safe'
  <1> DEFINE e == client.entry[i]
             r == Copied(server, i, e)
  <1>0. IsTable(server) /\ IsTable(client) /\ i \in Nat /\ phase = "copyOut" /\ i' = i + 1
    BY DEF TypeOK, CopyOut
  <1>1. Shape(client)
    BY <1>0 DEF Sound, ClientHolds, Connected
  <1>2. /\ i < client.inUse /\ client.inUse <= client.slots
        /\ server.inUse <= MaxBaseCol /\ server.slots = MaxBaseCol
        /\ server.inUse \in Nat /\ client.inUse \in Nat /\ client.slots \in Nat
        /\ server.inUse <= client.inUse
        /\ \A j \in 0..(server.inUse - 1) : client.entry[j] = server.entry[j]
    BY <1>0, <1>1, Fields DEF CopyOut, Sound, ServerHolds, Shape, TypeOK
  <1>3. InUse(server) = 0..(server.inUse - 1) /\ InUse(client) = 0..(client.inUse - 1)
    BY <1>0, <1>2, PoolAssumption DEF InUse
  <1>4. i \in InUse(client)
    BY <1>0, <1>2, <1>3
  <1>5. /\ client' = client /\ heap' = heap /\ column' = column /\ dbOpen' = dbOpen
        /\ phase' = "copyOut" /\ tasks' = tasks /\ batching' = batching
    BY <1>0 DEF CopyOut, batch
  \* The server's table stays a beginning of the client's.
  <1>6. /\ fault' = fault
        /\ server'.slots = MaxBaseCol /\ server'.inUse \in Nat
        /\ server'.inUse <= MaxBaseCol /\ server'.inUse <= client.inUse
        /\ server.inUse <= server'.inUse
        /\ \A j \in 0..(server'.inUse - 1) :
              server'.entry[j] = client.entry[j] /\ ~IsHandle(client.entry[j])
        /\ ~IsHandle(e) => i < server'.inUse
    <2>0. \A j \in InUse(server) : ~IsHandle(server.entry[j])
      BY DEF Sound, ServerHolds, IsColumn, IsHandle
    <2>1. CASE IsHandle(e)
      <3>1. server' = server /\ fault' = fault
        BY <1>0, <1>2, <2>1 DEF CopyOut, CopyEntry
      <3> QED
        BY <1>2, <1>3, <2>0, <2>1, <3>1
    <2>2. CASE ~IsHandle(e) /\ Exists(e.name, server)
      <3>1. server' = server /\ fault' = fault
        BY <1>0, <1>2, <2>2 DEF CopyOut, CopyEntry
      <3>2. PICK k \in InUse(server) : server.entry[k].name = e.name
        BY <2>2 DEF Exists, Places
      <3>3. k \in InUse(client) /\ client.entry[k].name = e.name /\ k < server.inUse
        BY <1>2, <1>3, <3>2
      <3>4. k = i
        BY <1>1, <1>4, <3>3 DEF Shape, Distinct
      <3> QED
        BY <1>2, <1>3, <2>0, <3>1, <3>3, <3>4
    <2>3. CASE ~IsHandle(e) /\ ~Exists(e.name, server)
      <3>1. i < MaxBaseCol
        BY <1>1, <1>4, <2>3, ShapeEntry
      <3>2. ~(i < server.inUse)
        <4> SUFFICES ASSUME i < server.inUse
                     PROVE  FALSE
          OBVIOUS
        <4>1. i \in InUse(server) /\ server.entry[i] = e
          BY <1>0, <1>2, <1>3
        <4> QED
          BY <2>3, <4>1 DEF Exists, Places
      <3>3. \A j \in 0..(i - 1) : ~IsHandle(client.entry[j]) /\ j < server.inUse
        <4> TAKE j \in 0..(i - 1)
        <4>1. j \in InUse(client) /\ j < i
          BY <1>0, <1>2, <1>3
        <4>2. ~IsHandle(client.entry[j])
          BY <1>1, <1>4, <2>3, <4>1 DEF Shape
        <4> QED
          BY <1>0, <4>1, <4>2 DEF Sound, CopiedOut
      <3>4. i = server.inUse
        <4>1. CASE i = 0
          BY <1>2, <3>2, <4>1
        <4>2. CASE i # 0
          <5>1. i - 1 \in 0..(i - 1)
            BY <1>0, <4>2
          <5>2. i - 1 < server.inUse
            BY <3>3, <5>1
          <5> QED
            BY <1>0, <1>2, <3>2, <5>2
        <4> QED
          BY <4>1, <4>2
      <3>5. ~(i >= client.slots) /\ ~(i >= server.slots) /\ i \in 0..(server.slots - 1)
        BY <1>0, <1>2, <3>1, PoolAssumption
      <3>6. server' = r /\ fault' = fault
        BY <1>0, <2>3, <3>5 DEF CopyOut, CopyEntry
      <3>7. /\ r.slots = server.slots /\ r.inUse = i + 1
            /\ r.entry[i] = e
            /\ \A k \in 0..(server.slots - 1) : k # i => r.entry[k] = server.entry[k]
        BY <1>0, <3>4, <3>5, CopiedIs
      <3> HIDE DEF r
      <3>8. \A j \in 0..i : r.entry[j] = client.entry[j] /\ ~IsHandle(client.entry[j])
        <4> TAKE j \in 0..i
        <4>1. CASE j = i
          BY <3>7, <2>3, <4>1
        <4>2. CASE j # i
          <5>1. j \in 0..(i - 1) /\ j \in 0..(server.slots - 1) /\ j \in 0..(server.inUse - 1)
            BY <1>0, <1>2, <3>1, <3>4, <4>2, PoolAssumption
          <5> QED
            BY <1>2, <3>3, <3>7, <4>2, <5>1
        <4> QED
          BY <4>1, <4>2
      <3>9. (i + 1) - 1 = i /\ i + 1 \in Nat /\ i + 1 <= MaxBaseCol /\ i + 1 <= client.inUse /\ i < i + 1
            /\ server.inUse <= i + 1
        BY <1>0, <1>2, <3>1, <3>4, PoolAssumption
      <3> QED
        BY <1>2, <3>6, <3>7, <3>8, <3>9
    <2> QED
      BY <2>1, <2>2, <2>3
  <1>7. InUse(server') = 0..(server'.inUse - 1) /\ InUse(server') \subseteq InUse(client)
    BY <1>2, <1>3, <1>6, PoolAssumption DEF InUse
  <1>8. ServerHolds'
    <2>1. \A j \in InUse(server') : IsColumn(server'.entry[j])
      BY <1>1, <1>6, <1>7, ShapeEntry
    <2>2. Distinct(server')
      BY <1>1, <1>6, <1>7 DEF Shape, Distinct
    <2>3. (\A j \in InUse(server) : IsColumn(server.entry[j]))'
      BY <1>5, <2>1 DEF IsColumn, InUse
    <2>4. Distinct(server)'
      BY <2>2 DEF Distinct, InUse
    <2> QED
      BY <1>5, <1>6, <2>3, <2>4 DEF ServerHolds
  <1>9. ClientHolds'
    <2>1. /\ client.inUse <= client.slots
          /\ Distinct(client) /\ Lists(client)
          /\ \A j, k \in InUse(client) :
                j < k /\ IsHandle(client.entry[j]) => IsHandle(client.entry[k])
      BY <1>1 DEF Shape
    <2>2. \A j \in InUse(client) :
           \/ IsColumn(client.entry[j]) /\ j < MaxBaseCol
           \/ /\ IsHandle(client.entry[j])
              /\ client.entry[j].name \in Handles
              /\ client.entry[j].obj \in Objects
      BY <1>1 DEF Shape
    <2>3. Distinct(client)' /\ Lists(client)'
      BY <1>5, <2>1 DEF Distinct, Lists, Exists, Places, InUse
    <2> QED
      BY <1>5, <1>6, <2>1, <2>2, <2>3 DEF ClientHolds, Shape, IsColumn, IsHandle, InUse
  <1>10. CopiedOut'
    <2>1. \A j \in InUse(client) : j < i + 1 /\ ~IsHandle(client.entry[j]) => j < server'.inUse
      <3> TAKE j \in InUse(client)
      <3> HAVE j < i + 1 /\ ~IsHandle(client.entry[j])
      <3>1. CASE j = i
        BY <1>6, <3>1
      <3>2. CASE j # i
        <4>1. j < i /\ j \in Nat
          BY <1>0, <1>3, <3>2
        <4>2. j < server.inUse
          BY <1>0, <4>1 DEF Sound, CopiedOut
        <4> QED
          BY <1>2, <1>6, <4>1, <4>2
      <3> QED
        BY <3>1, <3>2
    <2>2. i + 1 <= client.inUse
      BY <1>0, <1>2
    <2> QED
      BY <1>0, <1>5, <2>1, <2>2 DEF CopiedOut, InUse, IsHandle
  <1>11. ColumnsOwned'
    BY <1>5 DEF Sound, ColumnsOwned
  <1>12. HandlesOwn'
    BY <1>0, <1>5 DEF Sound, HandlesOwn, Connected, InUse, IsHandle
  <1>13. Queued'
    BY <1>0, <1>5 DEF Sound, Queued
  <1>14. Reachable'
    BY <1>0, <1>5 DEF Sound, Reachable, Connected, InUse, IsHandle
  <1>15. Idle' /\ CopiedIn'
    BY <1>5 DEF Idle, CopiedIn
  <1>16. RulesSuffice'
    BY <1>6 DEF RulesSuffice, Promising, Trusted
  <1> QED
    BY <1>8, <1>9, <1>10, <1>11, <1>12, <1>13, <1>14, <1>15, <1>16 DEF Sound, Safe

\* A session that ends, or the server that stops, can free every handle.
LEMMA ClearWorks ==
    ASSUME TypeOK, Sound, Connected, tasks = {}
    PROVE  ~ClearFails
  <1>1. Shape(client)
    BY DEF Sound, ClientHolds
  <1>2. ASSUME NEW e \in HandlesOf(client), BadFree(e)
        PROVE  FALSE
    <2>1. PICK j \in InUse(client) : e = client.entry[j] /\ IsHandle(client.entry[j])
      BY DEF HandlesOf
    <2>2. /\ heap[e.obj] # "free"
          /\ heap[e.obj] = "raw" => e.name \in tasks
      BY <2>1 DEF Sound, HandlesOwn
    <2>3. e.obj \in Objects
      BY <1>1, <2>1, ShapeEntry
    <2>4. heap[e.obj] \in Contents
      BY <2>3 DEF TypeOK
    <2> QED
      BY <1>2, <2>2, <2>3, <2>4, PoolAssumption DEF BadFree
  <1>3. ASSUME NEW j \in InUse(client), NEW k \in InUse(client), j # k,
               IsHandle(client.entry[j]), client.entry[j].obj = client.entry[k].obj
        PROVE  FALSE
    BY <1>3 DEF Sound, HandlesOwn
  <1> QED
    BY <1>2, <1>3 DEF ClearFails

LEMMA EndSessionSafe ==
    ASSUME TypeOK, Sound, Promising, EndSession
    PROVE  Safe'
  <1> DEFINE F == {e.obj : e \in HandlesOf(client)}
  <1>0. /\ IsTable(server) /\ IsTable(client) /\ phase = "copyOut" /\ Connected
        /\ tasks = {} /\ ~batching
    BY DEF TypeOK, EndSession, Connected, Sound, Queued
  <1>1. Shape(client)
    BY <1>0 DEF Sound, ClientHolds
  <1>2. ~ClearFails
    BY <1>0, ClearWorks
  <1>3. /\ fault' = fault /\ heap' = Release(heap, F) /\ client'.inUse = 0
        /\ phase' = "idle" /\ server' = server /\ column' = column /\ dbOpen' = dbOpen
        /\ tasks' = tasks /\ batching' = batching
    BY <1>2 DEF EndSession, ClearContext, batch, NewTable
  <1>4. \A o \in Objects : heap'[o] = IF o \in F THEN "free" ELSE heap[o]
    BY <1>3 DEF Release
  <1>5. \A o : o \in F <=> \E j \in InUse(client) : IsHandle(client.entry[j]) /\ client.entry[j].obj = o
    BY DEF HandlesOf
  <1> HIDE DEF F
  <1>6. ColumnsOwned'
    <2> SUFFICES ASSUME NEW c \in Columns, column[c] # Null
                 PROVE  dbOpen /\ heap'[column[c]] = "full" /\ \A d \in Columns : column[d] = column[c] => c = d
      BY <1>3 DEF ColumnsOwned
    <2>1. column[c] \in Objects
      BY DEF TypeOK
    <2>2. column[c] \notin F
      BY <1>0, <1>5 DEF Sound, HandlesOwn
    <2> QED
      BY <1>4, <2>1, <2>2 DEF Sound, ColumnsOwned
  <1>7. Lists(server)
    <2> SUFFICES ASSUME NEW c \in Columns, column[c] # Null
                 PROVE  Exists(c, server)
      BY DEF Lists
    <2>1. PICK j \in InUse(client) : client.entry[j].name = c
      BY <1>1 DEF Shape, Lists, Exists, Places
    <2>2. ~IsHandle(client.entry[j])
      BY <1>1, <2>1, ShapeEntry
    <2>3. i \in Nat /\ client.inUse \in Nat /\ j \in Nat /\ j < client.inUse /\ i >= client.inUse
      BY <1>0, Fields DEF EndSession, TypeOK, InUse
    <2>4. j < server.inUse
      BY <1>0, <2>2, <2>3 DEF Sound, CopiedOut
    <2>5. j \in 0..(server.inUse - 1) /\ j \in InUse(server)
      BY <1>0, <2>3, <2>4, Fields DEF InUse, Sound, ServerHolds
    <2>6. server.entry[j] = client.entry[j]
      BY <1>1, <2>5 DEF Shape
    <2> QED
      BY <2>1, <2>5, <2>6 DEF Exists, Places
  <1>8. ServerHolds'
    BY <1>3, <1>7 DEF Sound, ServerHolds, IsColumn, Distinct, InUse, Lists, Exists, Places
  <1>9. Reachable'
    <2> SUFFICES ASSUME NEW o \in Objects, heap'[o] # "free"
                 PROVE  \E c \in Columns : column[c] = o
      BY <1>3 DEF Reachable
    <2>1. o \notin F /\ heap[o] # "free"
      BY <1>4
    <2> QED
      BY <1>5, <2>1 DEF Sound, Reachable
  <1>10. Queued'
    BY <1>0, <1>3 DEF Queued
  <1>11. Idle' /\ CopiedIn' /\ ClientHolds' /\ CopiedOut' /\ HandlesOwn'
    BY <1>3 DEF Idle, CopiedIn, ClientHolds, CopiedOut, HandlesOwn, Connected
  <1>12. RulesSuffice'
    BY <1>3 DEF RulesSuffice, Promising, Trusted
  <1> QED
    BY <1>6, <1>8, <1>9, <1>10, <1>11, <1>12 DEF Sound, Safe

LEMMA ShutdownSafe ==
    ASSUME TypeOK, Sound, Promising, Shutdown
    PROVE  Safe'
  <1>1. phase' = "closed" /\ ~batching /\ phase = "serving"
    BY DEF Shutdown
  <1>2. tasks = {} /\ Connected
    BY <1>1 DEF Sound, Queued, Connected
  <1>3. ~ClearFails
    BY <1>2, ClearWorks
  <1>4. kept' => dbOpen
    BY DEF Shutdown
  <1>5. dbOpen => fault' = fault
    BY <1>3 DEF Shutdown, ClearContext
  <1> QED
    BY <1>1, <1>4, <1>5 DEF Safe, RulesSuffice, Promising, Trusted

\* A command that leaves the columns alone and the tables and the heap in
\* order.
LEMMA CommandSound ==
    ASSUME TypeOK, Sound, phase = "serving", UNCHANGED session,
           UNCHANGED column, (\E c \in Columns : column[c] # Null) => dbOpen',
           Shape(client'), ColumnsFull(heap'),
           Own(client', heap', tasks', {}), Reach(client', heap', {}),
           ~batching' => tasks' = {},
           \A h \in tasks' : Exists(h, client')
    PROVE  Sound'
  <1> USE DEF session
  <1>1. ColumnsOwned'
    BY DEF Sound, ColumnsOwned, ColumnsFull
  <1>2. ServerHolds'
    BY DEF Sound, ServerHolds, IsColumn, Distinct, InUse
  <1>3. ClientHolds'
    <2>1. /\ client'.inUse <= client'.slots
          /\ Distinct(client') /\ Lists(client')
          /\ \A j, k \in InUse(client') :
                j < k /\ IsHandle(client'.entry[j]) => IsHandle(client'.entry[k])
          /\ server.inUse <= client'.inUse
          /\ \A j \in 0..(server.inUse - 1) : client'.entry[j] = server.entry[j]
      BY DEF Shape
    <2>2. \A j \in InUse(client') :
           \/ IsColumn(client'.entry[j]) /\ j < MaxBaseCol
           \/ /\ IsHandle(client'.entry[j])
              /\ client'.entry[j].name \in Handles
              /\ client'.entry[j].obj \in Objects
      BY DEF Shape
    <2>3. Distinct(client)' /\ Lists(client)'
      BY <2>1 DEF Distinct, Lists, Exists, Places, InUse
    <2> QED
      BY <2>1, <2>2, <2>3 DEF ClientHolds, Shape, IsColumn, IsHandle, InUse
  <1>4. HandlesOwn'
    BY DEF Own, OwnsAt, HandlesOwn, InUse, IsHandle
  <1>5. Queued'
    BY DEF Queued, Exists, Places, InUse
  <1>6. Reachable'
    BY DEF Reach, Reachable, Connected, InUse, IsHandle
  <1>7. Idle' /\ CopiedIn' /\ CopiedOut'
    BY DEF Idle, CopiedIn, CopiedOut
  <1> QED
    BY <1>1, <1>2, <1>3, <1>4, <1>5, <1>6, <1>7 DEF Sound

\* What Sound says of a session in the same words.
LEMMA Serving ==
    ASSUME Sound, phase = "serving"
    PROVE  /\ Shape(client) /\ Distinct(client) /\ ServerHolds
           /\ ColumnsFull(heap)
           /\ Own(client, heap, tasks, {})
           /\ Reach(client, heap, {})
           /\ ~batching => tasks = {}
           /\ \A h \in tasks : Exists(h, client)
           /\ (\E c \in Columns : column[c] # Null) => dbOpen
  <1>1. Shape(client)
    BY DEF Sound, ClientHolds, Connected
  <1>2. ColumnsFull(heap)
    BY DEF Sound, ColumnsOwned, ColumnsFull
  <1>3. Own(client, heap, tasks, {})
    BY DEF Sound, HandlesOwn, Connected, Own, OwnsAt
  <1>4. Reach(client, heap, {})
    BY DEF Sound, Reachable, Reach
  <1> QED
    BY <1>1, <1>2, <1>3, <1>4 DEF Shape, Sound, Queued, ServerHolds, ColumnsOwned

LEMMA CreateDbSafe ==
    ASSUME TypeOK, Sound, Promising, CreateDb
    PROVE  Safe'
  <1>1. kept' => ~dbOpen
    BY DEF CreateDb
  <1>2. RulesSuffice'
    BY DEF CreateDb, RulesSuffice, Promising, Trusted
  <1>3. ASSUME ~dbOpen
        PROVE  Sound'
    <2>1. \A c \in Columns : column[c] = Null
      BY <1>3 DEF Sound, ColumnsOwned
    <2>2. column \in [Columns -> Objects \cup {Null}]
      BY DEF TypeOK
    <2>3. column' = column
      BY <2>1, <2>2 DEF CreateDb
    <2>4. Null \notin Objects
      BY PoolAssumption
    <2>5. \A o \in Objects : o \notin {column[c] : c \in Columns}
      BY <2>1, <2>4
    <2>6. heap \in [Objects -> Contents] /\ heap' = Release(heap, {column[c] : c \in Columns})
      BY DEF TypeOK, CreateDb
    <2>7. heap' = heap
      BY <2>5, <2>6 DEF Release
    <2>8. client' = client /\ tasks' = tasks /\ batching' = batching /\ phase = "serving" /\ UNCHANGED session
      BY DEF CreateDb, batch
    <2> QED
      BY <2>3, <2>7, <2>8, <2>1, CommandSound, Serving
  <1> QED
    BY <1>1, <1>2, <1>3 DEF Safe, Promising, Trusted

LEMMA BatchQueriesSafe ==
    ASSUME TypeOK, Sound, Promising, BatchQueries
    PROVE  Safe'
  <1>1. kept' => ~batching
    BY DEF BatchQueries
  <1>2. RulesSuffice'
    BY DEF BatchQueries, RulesSuffice, Promising, Trusted
  <1>3. ASSUME ~batching
        PROVE  Sound'
    <2>1. /\ client' = client /\ tasks' = {} /\ phase = "serving" /\ UNCHANGED session
          /\ heap' = heap /\ column' = column /\ dbOpen' = dbOpen
      BY DEF BatchQueries
    <2>2. tasks = {}
      BY <1>3, <2>1, Serving
    <2> QED
      BY <2>1, <2>2, CommandSound, Serving
  <1> QED
    BY <1>1, <1>2, <1>3 DEF Safe, Promising, Trusted

\* An operand of a command that is legal: it keeps what it stands for when
\* other handles are freed and entered.
LEMMA OperandKept ==
    ASSUME TypeOK, Sound, phase = "serving", tasks = {},
           NEW hs \in SUBSET Handles, NEW n, n \notin hs, Exists(n, client),
           IsHandle(Bound(n, client)) => heap[Bound(n, client).obj] # "part",
           NEW hp, \A o \in Objects : Cleaned(hs)[o] # "free" => hp[o] = Cleaned(hs)[o]
    PROVE  Usable(Bound(n, client), hp)
  <1>0. IsTable(client) /\ Shape(client) /\ Distinct(client) /\ Own(client, heap, tasks, {})
        /\ Reach(client, heap, {}) /\ ColumnsFull(heap)
    BY Serving DEF TypeOK
  <1> DEFINE j == First(n, client)
             e == client.entry[j]
  <1>1. j \in InUse(client) /\ e.name = n /\ Bound(n, client) = e
    BY <1>0, Found
  <1> HIDE DEF j
  <1>2. e.obj \in Objects /\ (~IsHandle(e) => IsColumn(e))
    BY <1>0, <1>1, ShapeEntry
  <1>3. CASE ~IsHandle(e)
    <2>1. IsColumn(e)
      BY <1>2, <1>3
    <2> QED
      BY <1>1, <2>1 DEF Usable, IsColumn
  <1>4. CASE IsHandle(e)
    <2>1. heap[e.obj] # "free" /\ heap[e.obj] # "raw"
      BY <1>0, <1>1, <1>4 DEF Own, OwnsAt
    <2>2. heap[e.obj] \in Contents
      BY <1>2 DEF TypeOK
    <2>3. heap[e.obj] = "full"
      BY <1>1, <1>4, <2>1, <2>2
    <2>4. Cleaned(hs)[e.obj] = heap[e.obj]
      BY <1>0, <1>1, CleanOwn
    <2>5. hp[e.obj] = "full"
      BY <1>2, <2>3, <2>4
    <2>6. e.obj # Null
      BY <1>2, PoolAssumption
    <2> QED
      BY <1>1, <1>4, <2>5, <2>6 DEF Usable, IsHandle
  <1> QED
    BY <1>3, <1>4

LEMMA ReadSafe ==
    ASSUME TypeOK, Sound, Promising, NEW n \in Names, Read(n)
    PROVE  Safe'
  <1>1. /\ tasks = {} /\ phase = "serving" /\ UNCHANGED session
        /\ column' = column /\ dbOpen' = dbOpen /\ tasks' = tasks /\ batching' = batching
    BY DEF Read, batch, Sound, Queued
  <1>2. kept' => Reads({n})
    BY DEF Read
  <1>3. ASSUME Reads({n})
        PROVE  fault' = fault /\ heap' = heap /\ client' = client
    <2>1. Release(heap, {}) = heap
      BY DEF Release, TypeOK
    <2>2. Old({}) = {}
      BY DEF Old
    <2>3. {e.obj : e \in {f \in Old({}) : IsHandle(f)}} = {}
      BY <2>2
    <2>4. Cleaned({}) = heap
      BY <2>1, <2>3 DEF Cleaned
    <2>5. {} \in SUBSET Handles /\ n \notin {} /\ Exists(n, client)
      BY DEF Read
    <2>6. IsHandle(Bound(n, client)) => heap[Bound(n, client).obj] # "part"
      BY <1>3 DEF Reads
    <2>7. Usable(Bound(n, client), heap)
      BY <1>1, <2>4, <2>5, <2>6, OperandKept
    <2> QED
      BY <2>7 DEF Read
  <1>4. Reads({n}) => Sound'
    BY <1>1, <1>3, CommandSound, Serving
  <1>5. Reads({n}) => RulesSuffice'
    BY <1>3 DEF RulesSuffice, Promising, Trusted
  <1> QED
    BY <1>2, <1>4, <1>5 DEF Safe, Promising, Trusted, RulesSuffice

LEMMA BatchExecuteSafe ==
    ASSUME TypeOK, Sound, Promising, BatchExecute
    PROVE  Safe'
  <1>1. kept' => batching
    BY DEF BatchExecute
  <1>2. ASSUME batching
        PROVE  fault' = fault /\ Sound'
    <2>0. /\ fault' = fault /\ client' = client /\ tasks' = {} /\ phase = "serving"
          /\ UNCHANGED session /\ column' = column /\ dbOpen' = dbOpen
      BY <1>2 DEF BatchExecute
    <2>1. heap' = [o \in Objects |->
                  IF \E h \in tasks : Bound(h, client).obj = o THEN "full" ELSE heap[o]]
      BY <1>2 DEF BatchExecute
    <2>2. IsTable(client) /\ Shape(client) /\ Distinct(client) /\ Own(client, heap, tasks, {})
          /\ Reach(client, heap, {}) /\ ColumnsFull(heap) /\ tasks \subseteq Handles
          /\ \A h \in tasks : Exists(h, client)
      BY <2>0, Serving DEF TypeOK
    <2>3. Own(client, heap', {}, {})
      <3> SUFFICES ASSUME NEW j \in InUse(client), IsHandle(client.entry[j])
                   PROVE  OwnsAt(client, heap', {}, {}, j)
        BY DEF Own
      <3>1. OwnsAt(client, heap, tasks, {}, j) /\ client.entry[j].obj \in Objects
        BY <2>2, ShapeEntry DEF Own
      <3>2. heap'[client.entry[j].obj] # "free"
        BY <2>1, <3>1 DEF OwnsAt
      <3>3. heap'[client.entry[j].obj] # "raw"
        <4>1. CASE heap[client.entry[j].obj] = "raw"
          <5>1. client.entry[j].name \in tasks
            BY <3>1, <4>1 DEF OwnsAt
          <5>2. Bound(client.entry[j].name, client).obj = client.entry[j].obj
            BY <2>2, Unique
          <5> QED
            BY <2>1, <3>1, <5>1, <5>2
        <4>2. CASE heap[client.entry[j].obj] # "raw"
          BY <2>1, <3>1, <4>2
        <4> QED
          BY <4>1, <4>2
      <3> QED
        BY <3>1, <3>2, <3>3 DEF OwnsAt
    <2>4. Reach(client, heap', {})
      <3> SUFFICES ASSUME NEW o \in Objects, heap'[o] # "free"
                   PROVE  \/ \E c \in Columns : column[c] = o
                          \/ \E j \in InUse(client) : IsHandle(client.entry[j]) /\ client.entry[j].obj = o
        BY DEF Reach
      <3>1. CASE \E h \in tasks : Bound(h, client).obj = o
        <4>1. PICK h \in tasks : Bound(h, client).obj = o
          BY <3>1
        <4>2. /\ First(h, client) \in InUse(client)
              /\ client.entry[First(h, client)].name = h
              /\ Bound(h, client) = client.entry[First(h, client)]
          BY <2>2, Found
        <4>3. IsHandle(client.entry[First(h, client)])
          BY <2>2, <4>2, ShapeEntry
        <4> QED
          BY <4>1, <4>2, <4>3
      <3>2. CASE ~\E h \in tasks : Bound(h, client).obj = o
        <4>1. heap[o] # "free"
          BY <2>1, <3>2
        <4> QED
          BY <2>2, <4>1 DEF Reach
      <3> QED
        BY <3>1, <3>2
    <2>5. ColumnsFull(heap')
      <3>1. \A c \in Columns : column[c] # Null => column[c] \in Objects
        BY DEF TypeOK
      <3> QED
        BY <2>1, <2>2, <3>1 DEF ColumnsFull
    <2> QED
      BY <2>0, <2>2, <2>3, <2>4, <2>5, CommandSound, Serving
  <1> QED
    BY <1>1, <1>2 DEF Safe, Promising, Trusted, RulesSuffice

\* Entering a handle leaves what other names stand for.
LEMMA BoundKept ==
    ASSUME NEW t, IsTable(t), Distinct(t), t.inUse < t.slots,
           NEW h \in Names, NEW kind \in Kinds, NEW o \in Objects,
           NEW n, n # h, Exists(n, t)
    PROVE  /\ Exists(n, Enter(t, h, kind, o))
           /\ Bound(n, Enter(t, h, kind, o)) = Bound(n, t)
  <1> DEFINE r == Enter(t, h, kind, o)
             P == Position(h, t)
             j == First(n, t)
  <1>0. t.inUse \in Nat /\ t.slots \in Nat /\ t.inUse <= t.slots
    BY Fields
  <1>1. /\ InUse(t) \subseteq InUse(r)
        /\ P \in InUse(r)
        /\ r.entry[P] = [name |-> h, kind |-> kind, obj |-> o]
        /\ \A k \in InUse(r) : k # P =>
              k \in InUse(t) /\ r.entry[k] = t.entry[k] /\ t.entry[k].name # h
        /\ P \in InUse(t) => t.entry[P].name = h
        /\ Distinct(r)
    BY <1>0, Entered
  <1>2. IsTable(r)
    BY EnterType
  <1>3. j \in InUse(t) /\ t.entry[j].name = n /\ Bound(n, t) = t.entry[j]
    BY Found
  <1> HIDE DEF r, P, j
  <1>4. j \in InUse(r) /\ r.entry[j] = t.entry[j]
    BY <1>1, <1>3
  <1>5. Exists(n, r) /\ Bound(n, r) = r.entry[j]
    BY <1>1, <1>2, <1>3, <1>4, Unique
  <1> QED
    BY <1>3, <1>4, <1>5 DEF r

LEMMA EnterExists ==
    ASSUME NEW t, IsTable(t), Distinct(t), t.inUse < t.slots,
           NEW h \in Names, NEW kind \in Kinds, NEW o \in Objects
    PROVE  Exists(h, Enter(t, h, kind, o))
  <1>1. t.inUse \in Nat /\ t.slots \in Nat /\ t.inUse <= t.slots
    BY Fields
  <1>2. /\ Position(h, t) \in InUse(Enter(t, h, kind, o))
        /\ Enter(t, h, kind, o).entry[Position(h, t)] = [name |-> h, kind |-> kind, obj |-> o]
    BY <1>1, Entered
  <1> QED
    BY <1>2 DEF Exists, Places

LEMMA OverwriteAgain ==
    ASSUME NEW f \in [Objects -> Contents], NEW o \in Objects, NEW a, NEW b
    PROVE  [[f EXCEPT ![o] = a] EXCEPT ![o] = b] = [f EXCEPT ![o] = b]
  OBVIOUS

Intermediate == Kinds \ {"COLUMN"}

\* A command that defines one handle, while every rule is kept.
LEMMA AssignOutcome ==
    ASSUME TypeOK, Sound, Promising,
           NEW h \in Handles, NEW kind \in Intermediate, NEW ops,
           NEW content \in {"part", "full"},
           \A n \in ops : Exists(n, client),
           Assign(h, kind, ops, content), kept'
    PROVE  \/ fault' = "abort"
           \/ /\ fault' = fault
              /\ client.inUse < client.slots
              /\ \E o \in Objects :
                    /\ Cleaned({h})[o] = "free"
                    /\ client' = Enter(client, h, kind, o)
                    /\ heap' = [Cleaned({h}) EXCEPT ![o] = content]
  <1>0. /\ phase = "serving" /\ tasks = {} /\ h \notin ops /\ Reads(ops)
        /\ IsTable(client) /\ Shape(client) /\ Distinct(client)
        /\ Own(client, heap, tasks, {}) /\ Reach(client, heap, {}) /\ ColumnsFull(heap)
        /\ client.slots >= MaxVPool /\ client.inUse \in Nat /\ client.slots \in Nat
    <2>1. phase = "serving" /\ ~batching
      BY DEF Assign
    <2>2. kept' = (kept /\ h \notin ops /\ Reads(ops))
      BY DEF Assign
    <2>3. h \notin ops /\ Reads(ops)
      BY <2>2
    <2> QED
      BY <2>1, <2>3, Serving, Fields DEF TypeOK
  <1>1. PICK o \in Objects :
          LET pool == Enter(client, h, kind, o)
              hp == [Cleaned({h}) EXCEPT ![o] = "raw"]
          IN  /\ Cleaned({h})[o] = "free"
              /\ IF CleanupFails({h}) THEN Faults("memory")
                 ELSE IF client.inUse >= MaxVPool THEN Faults("abort")
                 ELSE IF \E n \in ops : ~Usable(Bound(n, pool), hp) THEN Faults("memory")
                 ELSE /\ client' = pool
                      /\ heap' = [hp EXCEPT ![o] = content]
                      /\ UNCHANGED fault
    BY DEF Assign
  <1> DEFINE pool == Enter(client, h, kind, o)
             hp == [Cleaned({h}) EXCEPT ![o] = "raw"]
  <1>2. {h} \in SUBSET Handles /\ tasks \cap {h} = {}
    BY <1>0
  <1>3. ~CleanupFails({h})
    BY <1>0, <1>2, CleanOwn
  <1>4. CASE client.inUse >= MaxVPool
    BY <1>1, <1>3, <1>4 DEF Faults
  <1>5. CASE ~(client.inUse >= MaxVPool)
    <2>1. client.inUse < client.slots
      BY <1>0, <1>5, PoolAssumption
    <2>2. Cleaned({h}) \in [Objects -> Contents]
      BY ReleaseType DEF Cleaned, TypeOK
    <2>3. \A p \in Objects : Cleaned({h})[p] # "free" => hp[p] = Cleaned({h})[p]
      BY <1>1, <2>2
    <2> HIDE DEF hp, pool
    <2>4. ASSUME NEW n \in ops
          PROVE  Usable(Bound(n, pool), hp)
      <3>1. n # h /\ n \notin {h} /\ Exists(n, client)
        BY <1>0
      <3>2. IsHandle(Bound(n, client)) => heap[Bound(n, client).obj] # "part"
        BY <1>0 DEF Reads
      <3>3. Usable(Bound(n, client), hp)
        BY <1>0, <1>2, <2>3, <3>1, <3>2, OperandKept
      <3>4. Bound(n, pool) = Bound(n, client)
        BY <1>0, <2>1, <3>1, BoundKept DEF Intermediate, pool
      <3> QED
        BY <3>3, <3>4
    <2>5. client' = pool /\ heap' = [hp EXCEPT ![o] = content] /\ fault' = fault
      BY <1>1, <1>3, <1>5, <2>4 DEF pool, hp
    <2>6. heap' = [Cleaned({h}) EXCEPT ![o] = content]
      BY <2>2, <2>5, OverwriteAgain DEF hp
    <2> QED
      BY <1>1, <2>1, <2>5, <2>6 DEF pool
  <1> QED
    BY <1>4, <1>5

\* Freeing a handle's old object and entering a new one keeps the order.
LEMMA DefinedSound ==
    ASSUME TypeOK, Sound, phase = "serving", UNCHANGED <<session, column, dbOpen, batching>>,
           client.inUse < client.slots,
           NEW h \in Handles, NEW kind \in Intermediate, NEW o \in Objects,
           NEW content \in {"raw", "part", "full"}, content = "raw" => h \in tasks',
           Cleaned({h})[o] = "free",
           client' = Enter(client, h, kind, o),
           heap' = [Cleaned({h}) EXCEPT ![o] = content],
           tasks' \in SUBSET Handles, tasks \subseteq tasks', tasks' \subseteq tasks \cup {h},
           ~batching => tasks' = {}
    PROVE  Sound'
  <1>0. /\ IsTable(client) /\ Shape(client) /\ Distinct(client) /\ ServerHolds
        /\ Own(client, heap, tasks, {}) /\ Reach(client, heap, {}) /\ ColumnsFull(heap)
        /\ \A g \in tasks : Exists(g, client)
        /\ ((\E c \in Columns : column[c] # Null) => dbOpen)
        /\ column \in [Columns -> Objects \cup {Null}]
    BY Serving DEF TypeOK
  <1>1. {h} \in SUBSET Handles
    OBVIOUS
  <1>2. /\ Own(client, Cleaned({h}), tasks, {h})
        /\ Reach(client, Cleaned({h}), {h})
        /\ ColumnsFull(Cleaned({h}))
    BY <1>0, <1>1, CleanOwn
  <1>3. Cleaned({h}) \in [Objects -> Contents]
    BY ReleaseType DEF Cleaned, TypeOK
  <1>4. /\ \A j \in InUse(client) : client.entry[j].obj \in Objects \/ client.entry[j].name \in {h}
        /\ \A j \in InUse(client) : ~IsHandle(client.entry[j]) => IsColumn(client.entry[j])
    BY <1>0, ShapeEntry
  <1>5. {h} \ {h} = {}
    OBVIOUS
  <1> DEFINE pend == {h}
             cl == Cleaned({h})
             q == tasks
  <1>6. /\ Own(client, cl, q, pend) /\ Reach(client, cl, pend) /\ ColumnsFull(cl)
        /\ cl \in [Objects -> Contents] /\ cl[o] = "free" /\ heap' = [cl EXCEPT ![o] = content]
        /\ (Exists(h, client) => h \in pend) /\ pend \ {h} = {}
        /\ \A j \in InUse(client) : client.entry[j].obj \in Objects \/ client.entry[j].name \in pend
    BY <1>2, <1>3, <1>4, <1>5
  <1> HIDE DEF pend, cl, q
  <1>7. /\ Own(client', heap', tasks', pend \ {h})
        /\ Reach(client', heap', pend \ {h})
        /\ ColumnsFull(heap')
    <2>1. kind \in Kinds \ {"COLUMN"}
      BY DEF Intermediate
    <2> DEFINE t == client
               s == Enter(t, h, kind, o)
               hp2 == [cl EXCEPT ![o] = content]
               r == tasks'
    <2>2. content = "raw" => h \in r
      OBVIOUS
    <2>7. Own(t, cl, r, pend)
      BY <1>6 DEF Own, OwnsAt, q
    <2> HIDE DEF r
    <2>5. /\ IsTable(t) /\ Distinct(t) /\ t.inUse < t.slots
          /\ Reach(t, cl, pend) /\ ColumnsFull(cl)
          /\ \A j \in InUse(t) : t.entry[j].obj \in Objects \/ t.entry[j].name \in pend
          /\ \A j \in InUse(t) : ~IsHandle(t.entry[j]) => IsColumn(t.entry[j])
          /\ Exists(h, t) => h \in pend
      BY <1>0, <1>4, <1>6
    <2> HIDE DEF t
    <2>6. /\ cl \in [Objects -> Contents] /\ cl[o] = "free"
          /\ column \in [Columns -> Objects \cup {Null}]
      BY <1>0, <1>6
    <2>3. Own(s, hp2, r, pend \ {h}) /\ Reach(s, hp2, pend \ {h}) /\ ColumnsFull(hp2)
      BY <2>1, <2>2, <2>5, <2>6, <2>7, EnterOwn, ZenonT(40)
    <2>4. client' = s /\ heap' = hp2
      BY <1>6 DEF t
    <2> QED
      BY <2>3, <2>4 DEF r
  <1>8. Shape(client')
    BY <1>0, EnterShape DEF Intermediate
  <1>9. \A g \in tasks' : Exists(g, client')
    <2> TAKE g \in tasks'
    <2>1. CASE g = h
      BY <1>0, <2>1, EnterExists DEF Intermediate
    <2>2. CASE g # h
      <3>1. g \in tasks /\ Exists(g, client)
        BY <1>0, <2>2
      <3> QED
        BY <1>0, <2>2, <3>1, BoundKept DEF Intermediate
    <2> QED
      BY <2>1, <2>2
  <1> QED
    BY <1>0, <1>6, <1>7, <1>8, <1>9, CommandSound

LEMMA AssignSafe ==
    ASSUME TypeOK, Sound, Promising,
           NEW h \in Handles, NEW kind \in Intermediate, NEW ops,
           NEW content \in {"part", "full"},
           \A n \in ops : Exists(n, client),
           Assign(h, kind, ops, content)
    PROVE  Safe'
  <1>1. CASE ~kept'
    BY <1>1 DEF Safe, RulesSuffice, Promising, Trusted
  <1>2. CASE kept'
    <2>1. CASE fault' = "abort"
      BY <2>1 DEF Safe, RulesSuffice, Promising, Trusted
    <2>2. CASE fault' # "abort"
      <3>1. PICK o \in Objects :
              /\ fault' = fault
              /\ client.inUse < client.slots
              /\ Cleaned({h})[o] = "free"
              /\ client' = Enter(client, h, kind, o)
              /\ heap' = [Cleaned({h}) EXCEPT ![o] = content]
        BY <1>2, <2>2, AssignOutcome
      <3>2. /\ phase = "serving" /\ UNCHANGED <<session, column, dbOpen, batching>>
            /\ tasks' = tasks /\ ~batching
        BY DEF Assign, batch
      <3>3. tasks = {}
        BY <3>2, Serving
      <3>4. Sound'
        BY <3>1, <3>2, <3>3, DefinedSound
      <3>5. RulesSuffice'
        BY <3>1 DEF RulesSuffice, Promising, Trusted
      <3> QED
        BY <3>4, <3>5 DEF Safe
    <2> QED
      BY <2>1, <2>2
  <1> QED
    BY <1>1, <1>2

LEMMA BatchedSelectSafe ==
    ASSUME TypeOK, Sound, Promising, NEW h \in Handles, NEW c \in Columns, BatchedSelect(h, c)
    PROVE  Safe'
  <1>1. CASE ~kept'
    BY <1>1 DEF Safe, RulesSuffice, Promising, Trusted
  <1>2. CASE kept'
    <2>0. /\ phase = "serving" /\ UNCHANGED <<session, column, dbOpen, batching>>
          /\ tasks' = tasks \cup {h} /\ batching /\ Exists(c, client)
      BY DEF BatchedSelect, Has
    <2>1. kept' = (kept /\ h \notin tasks)
      BY DEF BatchedSelect
    <2>2. tasks \cap {h} = {} /\ {h} \in SUBSET Handles
      BY <1>2, <2>1
    <2>3. PICK o \in Objects :
             /\ Cleaned({h})[o] = "free"
             /\ IF CleanupFails({h}) THEN Faults("memory")
                ELSE IF client.inUse >= MaxVPool THEN Faults("abort")
                ELSE IF ~Usable(Bound(c, client), heap) THEN Faults("memory")
                ELSE /\ client' = Enter(client, h, "POSITION", o)
                     /\ heap' = [Cleaned({h}) EXCEPT ![o] = "raw"]
                     /\ UNCHANGED fault
      BY DEF BatchedSelect
    <2>4. /\ IsTable(client) /\ Shape(client) /\ Distinct(client)
          /\ Own(client, heap, tasks, {}) /\ Reach(client, heap, {}) /\ ColumnsFull(heap)
          /\ client.slots >= MaxVPool /\ client.inUse \in Nat /\ client.slots \in Nat
          /\ tasks \subseteq Handles
      BY <2>0, Serving, Fields DEF TypeOK
    <2>5. ~CleanupFails({h})
      BY <2>2, <2>4, CleanOwn
    <2>6. Usable(Bound(c, client), heap)
      <3>1. /\ First(c, client) \in InUse(client)
            /\ client.entry[First(c, client)].name = c
            /\ Bound(c, client) = client.entry[First(c, client)]
        BY <2>0, <2>4, Found
      <3>2. IsColumn(client.entry[First(c, client)])
        BY <2>4, <3>1, ShapeEntry
      <3> QED
        BY <3>1, <3>2 DEF Usable, IsColumn
    <2>7. CASE client.inUse >= MaxVPool
      BY <2>3, <2>5, <2>7 DEF Faults, Safe, RulesSuffice, Promising, Trusted
    <2>8. CASE ~(client.inUse >= MaxVPool)
      <3>1. /\ client' = Enter(client, h, "POSITION", o)
            /\ heap' = [Cleaned({h}) EXCEPT ![o] = "raw"]
            /\ fault' = fault
        BY <2>3, <2>5, <2>6, <2>8
      <3>2. client.inUse < client.slots
        BY <2>4, <2>8, PoolAssumption
      <3>3. "POSITION" \in Intermediate
        BY DEF Intermediate
      <3>4. tasks' \in SUBSET Handles /\ tasks \subseteq tasks' /\ tasks' \subseteq tasks \cup {h}
            /\ h \in tasks'
        BY <2>0, <2>4
      <3>5. Sound'
        BY <2>0, <2>3, <3>1, <3>2, <3>3, <3>4, DefinedSound
      <3>6. RulesSuffice'
        BY <3>1 DEF RulesSuffice, Promising, Trusted
      <3> QED
        BY <3>5, <3>6 DEF Safe
    <2> QED
      BY <2>7, <2>8
  <1> QED
    BY <1>1, <1>2

\* A join, while every rule is kept.
LEMMA JoinOutcome ==
    ASSUME TypeOK, Sound, Promising, NEW g \in Handles, NEW h \in Handles,
           NEW v1, NEW s1, NEW v2, NEW s2, Join(g, h, v1, s1, v2, s2), kept'
    PROVE  /\ g # h
           /\ \/ fault' = "abort"
              \/ /\ fault' = fault
                 /\ client.inUse < client.slots
                 /\ \E o, p \in Objects :
                      LET clean == Cleaned({g, h})
                          pool == Enter(client, g, "POSITION", o)
                      IN  /\ o # p /\ clean[o] = "free" /\ clean[p] = "free"
                          /\ pool.inUse < client.slots
                          /\ client' = Enter(pool, h, "POSITION", p)
                          /\ heap' = [[clean EXCEPT ![o] = "full"] EXCEPT ![p] = "full"]
  <1> DEFINE ops == {v1, s1, v2, s2}
             clean == Cleaned({g, h})
  <1>1. kept' = (kept /\ g # h /\ {g, h} \cap ops = {} /\ Reads(ops))
    BY DEF Join
  <1>2. g # h /\ {g, h} \cap ops = {} /\ Reads(ops)
    BY <1>1
  <1>3. /\ phase = "serving" /\ ~batching
        /\ \A n \in ops : Exists(n, client)
    BY DEF Join, Has
  <1>4. /\ IsTable(client) /\ Shape(client) /\ Distinct(client)
        /\ Own(client, heap, tasks, {}) /\ Reach(client, heap, {}) /\ ColumnsFull(heap)
        /\ client.slots >= MaxVPool /\ client.inUse \in Nat /\ client.slots \in Nat
        /\ tasks = {}
    BY <1>3, Serving, Fields DEF TypeOK
  <1>5. {g, h} \in SUBSET Handles /\ tasks \cap {g, h} = {}
    BY <1>4
  <1>6. ~CleanupFails({g, h})
    BY <1>4, <1>5, CleanOwn
  <1>7. ASSUME NEW n \in ops
        PROVE  Usable(Bound(n, client), clean)
    <2>1. n \notin {g, h} /\ Exists(n, client)
      BY <1>2, <1>3
    <2>2. IsHandle(Bound(n, client)) => heap[Bound(n, client).obj] # "part"
      BY <1>2 DEF Reads
    <2>3. \A o \in Objects : Cleaned({g, h})[o] # "free" => clean[o] = Cleaned({g, h})[o]
      OBVIOUS
    <2> HIDE DEF clean, ops
    <2> QED
      BY <1>3, <1>4, <1>5, <2>1, <2>2, <2>3, OperandKept
  <1>8. PICK o \in Objects, p \in Objects :
            /\ o # p
            /\ clean[o] = "free" /\ clean[p] = "free"
            /\ IF \/ CleanupFails({g, h})
                  \/ g = h /\ Exists(g, client)
                  \/ \E n \in ops : ~Usable(Bound(n, client), clean)
               THEN Faults("memory")
               ELSE LET pool == Enter(client, g, "POSITION", o)
                    IN  IF client.inUse >= MaxVPool \/ pool.inUse >= MaxVPool
                        THEN Faults("abort")
                        ELSE /\ client' = Enter(pool, h, "POSITION", p)
                             /\ heap' = [clean EXCEPT ![o] = "full", ![p] = "full"]
                             /\ UNCHANGED fault
    BY DEF Join
  <1> DEFINE pool == Enter(client, g, "POSITION", o)
  <1>9. IsTable(pool) /\ pool.slots = client.slots
    BY <1>4, EnterType
  <1>10. pool.inUse \in Nat
    BY <1>9, Fields
  <1> HIDE DEF ops, clean, pool
  <1>11. IF client.inUse >= MaxVPool \/ pool.inUse >= MaxVPool
         THEN Faults("abort")
         ELSE /\ client' = Enter(pool, h, "POSITION", p)
              /\ heap' = [clean EXCEPT ![o] = "full", ![p] = "full"]
              /\ UNCHANGED fault
    BY <1>2, <1>6, <1>7, <1>8 DEF pool
  <1>12. CASE client.inUse >= MaxVPool \/ pool.inUse >= MaxVPool
    BY <1>2, <1>11, <1>12 DEF Faults
  <1>13. CASE ~(client.inUse >= MaxVPool \/ pool.inUse >= MaxVPool)
    <2>1. client.inUse < client.slots /\ pool.inUse < client.slots
      BY <1>4, <1>10, <1>13, PoolAssumption
    <2>2. /\ client' = Enter(pool, h, "POSITION", p)
          /\ heap' = [[clean EXCEPT ![o] = "full"] EXCEPT ![p] = "full"]
          /\ fault' = fault
      BY <1>11, <1>13
    <2> QED
      BY <1>2, <1>8, <2>1, <2>2 DEF pool, clean
  <1> QED
    BY <1>12, <1>13

LEMMA JoinedSound ==
    ASSUME TypeOK, Sound, phase = "serving", UNCHANGED <<session, column, dbOpen, batch>>,
           ~batching, client.inUse < client.slots,
           NEW g \in Handles, NEW h \in Handles, g # h,
           NEW o \in Objects, NEW p \in Objects, o # p,
           Cleaned({g, h})[o] = "free", Cleaned({g, h})[p] = "free",
           Enter(client, g, "POSITION", o).inUse < client.slots,
           client' = Enter(Enter(client, g, "POSITION", o), h, "POSITION", p),
           heap' = [[Cleaned({g, h}) EXCEPT ![o] = "full"] EXCEPT ![p] = "full"]
    PROVE  Sound'
  <1> DEFINE hs == {g, h}
             cl == Cleaned(hs)
             hp1 == [cl EXCEPT ![o] = "full"]
             hp2 == [hp1 EXCEPT ![p] = "full"]
             t == client
             pool == Enter(t, g, "POSITION", o)
             both == Enter(pool, h, "POSITION", p)
             none == {}
  <1>0. /\ IsTable(t) /\ Shape(t) /\ Distinct(t) /\ ServerHolds
        /\ Own(t, heap, tasks, {}) /\ Reach(t, heap, {}) /\ ColumnsFull(heap)
        /\ tasks = none /\ tasks' = none /\ batching' = batching
        /\ ((\E c \in Columns : column[c] # Null) => dbOpen)
        /\ column \in [Columns -> Objects \cup {Null}]
    BY Serving DEF TypeOK, batch
  <1>1. hs \in SUBSET Handles /\ hs \ {g} = {h} /\ {h} \ {h} = {} /\ g \in hs
        /\ "POSITION" \in Kinds \ {"COLUMN"}
    OBVIOUS
  <1>2. Own(t, cl, none, hs) /\ Reach(t, cl, hs) /\ ColumnsFull(cl)
    BY <1>0, <1>1, CleanOwn
  <1>3. cl \in [Objects -> Contents]
    BY ReleaseType DEF Cleaned, TypeOK
  <1>4. hp1 \in [Objects -> Contents] /\ hp1[p] = "free"
    BY <1>3
  <1>5. /\ \A j \in InUse(t) : t.entry[j].obj \in Objects \/ t.entry[j].name \in hs
        /\ \A j \in InUse(t) : ~IsHandle(t.entry[j]) => IsColumn(t.entry[j])
    BY <1>0, ShapeEntry
  <1>6. cl[o] = "free" /\ t.inUse < t.slots
    OBVIOUS
  <1> HIDE DEF hs, cl, t, none
  <1>7. Own(pool, hp1, none, hs \ {g}) /\ Reach(pool, hp1, hs \ {g}) /\ ColumnsFull(hp1)
    BY <1>0, <1>1, <1>2, <1>3, <1>5, <1>6, EnterOwn
  <1>8. IsTable(pool) /\ Shape(pool) /\ pool.slots = t.slots
    BY <1>0, <1>1, <1>6, EnterType, EnterShape
  <1>9. Distinct(pool) /\ pool.inUse < pool.slots
    BY <1>8 DEF Shape, t
  <1> HIDE DEF pool, hp1
  <1>10. /\ \A j \in InUse(pool) : pool.entry[j].obj \in Objects \/ pool.entry[j].name \in {h}
         /\ \A j \in InUse(pool) : ~IsHandle(pool.entry[j]) => IsColumn(pool.entry[j])
    BY <1>8, ShapeEntry
  <1> DEFINE rest == {h}
  <1>11. Own(pool, hp1, none, rest) /\ Reach(pool, hp1, rest) /\ h \in rest /\ rest \ {h} = {}
         /\ \A j \in InUse(pool) : pool.entry[j].obj \in Objects \/ pool.entry[j].name \in rest
    BY <1>1, <1>7, <1>10
  <1> HIDE DEF rest
  <1>12. Own(both, hp2, none, rest \ {h}) /\ Reach(both, hp2, rest \ {h}) /\ ColumnsFull(hp2)
    BY <1>0, <1>1, <1>4, <1>7, <1>8, <1>9, <1>10, <1>11, EnterOwn
  <1>13. Shape(both)
    BY <1>0, <1>1, <1>8, <1>9, EnterShape
  <1>14. client' = both /\ heap' = hp2
    BY DEF pool, hp1, cl, hs, t
  <1> HIDE DEF both, hp2
  <1>15. Shape(client') /\ ColumnsFull(heap') /\ Own(client', heap', tasks', {})
         /\ Reach(client', heap', {}) /\ tasks' = {}
    BY <1>0, <1>11, <1>12, <1>13, <1>14 DEF none
  <1> QED
    BY <1>0, <1>15, CommandSound

LEMMA JoinSafe ==
    ASSUME TypeOK, Sound, Promising, NEW g \in Handles, NEW h \in Handles,
           NEW v1, NEW s1, NEW v2, NEW s2, Join(g, h, v1, s1, v2, s2)
    PROVE  Safe'
  <1>1. CASE ~kept'
    BY <1>1 DEF Safe, RulesSuffice, Promising, Trusted
  <1>2. CASE kept' /\ fault' = "abort"
    BY <1>2 DEF Safe, RulesSuffice, Promising, Trusted
  <1>3. CASE kept' /\ fault' # "abort"
    <2>1. /\ g # h /\ fault' = fault
          /\ client.inUse < client.slots
          /\ \E o, p \in Objects :
               LET clean == Cleaned({g, h})
                   pool == Enter(client, g, "POSITION", o)
               IN  /\ o # p /\ clean[o] = "free" /\ clean[p] = "free"
                   /\ pool.inUse < client.slots
                   /\ client' = Enter(pool, h, "POSITION", p)
                   /\ heap' = [[clean EXCEPT ![o] = "full"] EXCEPT ![p] = "full"]
      BY <1>3, JoinOutcome
    <2>2. phase = "serving" /\ ~batching /\ UNCHANGED <<session, column, dbOpen, batch>>
      BY DEF Join
    <2>3. Sound'
      BY <2>1, <2>2, JoinedSound
    <2>4. RulesSuffice'
      BY <2>1 DEF RulesSuffice, Promising, Trusted
    <2> QED
      BY <2>3, <2>4 DEF Safe
  <1> QED
    BY <1>1, <1>2, <1>3

LEMMA CreateColumnSafe ==
    ASSUME TypeOK, Sound, Promising, NEW c \in Columns, CreateColumn(c)
    PROVE  Safe'
  <1>1. CASE ~kept' \/ ~ordered'
    BY <1>1 DEF Safe, RulesSuffice, Promising, Trusted
  <1>2. CASE kept' /\ ordered'
    <2>0. /\ kept' = (kept /\ dbOpen /\ column[c] = Null /\ client.inUse < MaxBaseCol)
          /\ ordered' = (ordered /\ HandlesOf(client) = {})
      BY DEF CreateColumn
    <2>1. dbOpen /\ column[c] = Null /\ client.inUse < MaxBaseCol /\ HandlesOf(client) = {}
      BY <1>2, <2>0
    <2>2. PICK o \in Objects :
              /\ heap[o] = "free"
              /\ heap' = [heap EXCEPT ![o] = "full"]
              /\ column' = [column EXCEPT ![c] = o]
              /\ client' = Append(client, c, o)
              /\ UNCHANGED fault
      BY <2>1 DEF CreateColumn
    <2> DEFINE k == client.inUse
               r == Append(client, c, o)
    <2>3. /\ phase = "serving" /\ phase' = "serving" /\ server' = server /\ dbOpen' = dbOpen
          /\ tasks' = tasks /\ batching' = batching /\ ~batching
      BY DEF CreateColumn, session, batch
    <2>4. /\ IsTable(client) /\ IsTable(server) /\ Shape(client) /\ Distinct(client) /\ ServerHolds
          /\ ColumnsFull(heap) /\ Reach(client, heap, {}) /\ tasks = {}
          /\ heap \in [Objects -> Contents] /\ column \in [Columns -> Objects \cup {Null}]
      BY <2>3, Serving DEF TypeOK
    <2>5. /\ k \in Nat /\ client.slots \in Nat /\ k < client.slots /\ server.inUse \in Nat
          /\ k < MaxBaseCol /\ server.inUse <= k
          /\ InUse(client) = 0..(k - 1) /\ InUse(server) = 0..(server.inUse - 1)
      <3>1. k \in Nat /\ client.slots \in Nat /\ server.inUse \in Nat /\ client.slots >= MaxVPool
            /\ server.inUse <= k /\ server.slots \in Nat /\ server.inUse <= server.slots
        BY <2>4, Fields DEF TypeOK, Shape, ServerHolds
      <3>2. k < MaxBaseCol
        BY <2>1
      <3>3. k < client.slots
        BY <3>1, <3>2, PoolAssumption
      <3> QED
        BY <2>4, <3>1, <3>2, <3>3, InUseIs
    <2>6. \A j \in InUse(client) : IsColumn(client.entry[j]) /\ client.entry[j].name # c
                                   /\ ~IsHandle(client.entry[j])
      <3> TAKE j \in InUse(client)
      <3>1. ~IsHandle(client.entry[j])
        BY <2>1 DEF HandlesOf
      <3>2. IsColumn(client.entry[j])
        BY <2>4, <3>1, ShapeEntry
      <3> QED
        BY <2>1, <3>1, <3>2, PoolAssumption DEF IsColumn
    <2>7. /\ r.slots = client.slots /\ r.inUse = k + 1
          /\ r.entry[k] = [name |-> c, kind |-> "COLUMN", obj |-> o]
          /\ \A j \in 0..(k - 1) : r.entry[j] = client.entry[j]
      <3>1. client.slots # client.inUse
        BY <2>5
      <3>2. /\ r.slots = client.slots /\ r.inUse = k + 1
            /\ r.entry = [client.entry EXCEPT ![k] = [name |-> c, kind |-> "COLUMN", obj |-> o]]
        BY <3>1 DEF Append, PutAt
      <3>3. client.entry \in [0..(client.slots - 1) -> Entries]
        BY <2>4, Fields
      <3> HIDE DEF r
      <3> QED
        BY <2>5, <3>2, <3>3
    <2>8. client' = r
      BY <2>2
    <2>9. InUse(r) = 0..k /\ InUse(client') = 0..k /\ InUse(client) \subseteq InUse(r)
      <3> HIDE DEF r
      <3> QED
        BY <2>5, <2>7, <2>8 DEF InUse
    <2>10. column'[c] = o /\ \A d \in Columns : d # c => column'[d] = column[d]
      BY <2>2, <2>4
    <2>11. heap'[o] = "full" /\ \A p \in Objects : p # o => heap'[p] = heap[p]
      BY <2>2, <2>4
    <2>12. \A d \in Columns : column[d] # o
      BY <2>2, <2>4, PoolAssumption DEF ColumnsFull
    <2> HIDE DEF r
    <2>13. \A j \in InUse(r) : /\ ~IsHandle(r.entry[j])
                               /\ r.entry[j].kind = "COLUMN" /\ r.entry[j].name \in Columns
                               /\ r.entry[j].obj \in Objects
                               /\ r.entry[j].obj = column'[r.entry[j].name]
      <3> TAKE j \in InUse(r)
      <3>1. CASE j = k
        BY <2>7, <2>10, <3>1 DEF IsHandle
      <3>2. CASE j # k
        <4>1. j \in 0..(k - 1) /\ r.entry[j] = client.entry[j]
          BY <2>5, <2>7, <2>9, <3>2
        <4> QED
          BY <2>5, <2>6, <2>10, <4>1 DEF IsColumn
      <3> QED
        BY <3>1, <3>2
    <2>14. ColumnsOwned'
      <3> SUFFICES ASSUME NEW d \in Columns, column'[d] # Null
                   PROVE  dbOpen' /\ heap'[column'[d]] = "full"
                          /\ \A e \in Columns : column'[e] = column'[d] => d = e
        BY DEF ColumnsOwned
      <3>1. CASE d = c
        BY <2>1, <2>3, <2>10, <2>11, <2>12, <3>1
      <3>2. CASE d # c
        <4>1. column'[d] = column[d] /\ column[d] \in Objects /\ column[d] # o
          BY <2>4, <2>10, <2>12, <3>2
        <4>2. heap[column[d]] = "full" /\ \A e \in Columns : column[e] = column[d] => d = e
          BY <4>1 DEF Sound, ColumnsOwned
        <4> QED
          BY <2>1, <2>3, <2>10, <2>11, <4>1, <4>2
      <3> QED
        BY <3>1, <3>2
    <2>15. ServerHolds'
      <3>1. \A j \in InUse(server) : /\ IsColumn(server.entry[j])
                                     /\ server.entry[j] = client.entry[j] /\ j \in InUse(client)
        BY <2>4, <2>5 DEF ServerHolds, Shape
      <3>2. \A j \in InUse(server) : server.entry[j].obj = column'[server.entry[j].name]
        BY <2>6, <2>10, <3>1 DEF IsColumn
      <3>3. (\A j \in InUse(server) : IsColumn(server.entry[j]))'
        BY <2>3, <3>1, <3>2 DEF IsColumn, InUse
      <3>4. Distinct(server)'
        BY <2>3, <2>4 DEF ServerHolds, Distinct, InUse
      <3> QED
        BY <2>3, <2>4, <3>3, <3>4 DEF ServerHolds
    <2>16. Distinct(r)
      <3> SUFFICES ASSUME NEW j \in InUse(r), NEW m \in InUse(r), r.entry[j].name = r.entry[m].name
                   PROVE  j = m
        BY DEF Distinct
      <3>1. \A x \in InUse(r) : x # k => x \in InUse(client) /\ r.entry[x] = client.entry[x]
        BY <2>5, <2>7, <2>9
      <3>2. r.entry[k].name = c
        BY <2>7
      <3> QED
        BY <2>4, <2>6, <3>1, <3>2 DEF Distinct
    <2>17. \A d \in Columns : column'[d] # Null => Exists(d, r)
      <3> TAKE d \in Columns
      <3> HAVE column'[d] # Null
      <3>1. CASE d = c
        <4>1. k \in InUse(r) /\ r.entry[k].name = c
          BY <2>5, <2>7, <2>9
        <4> QED
          BY <3>1, <4>1 DEF Exists, Places
      <3>2. CASE d # c
        <4>1. PICK j \in InUse(client) : client.entry[j].name = d
          BY <2>4, <2>10, <3>2 DEF Shape, Lists, Exists, Places
        <4>2. j \in InUse(r) /\ r.entry[j] = client.entry[j]
          BY <2>5, <2>7, <2>9
        <4> QED
          BY <4>1, <4>2 DEF Exists, Places
      <3> QED
        BY <3>1, <3>2
    <2>18. ClientHolds'
      <3>1. r.inUse <= r.slots /\ server.inUse <= r.inUse
        BY <2>5, <2>7
      <3>2. \A j \in InUse(r) : j < MaxBaseCol
        BY <2>5, <2>9, PoolAssumption
      <3>3. \A j \in 0..(server.inUse - 1) : r.entry[j] = server.entry[j]
        BY <2>4, <2>5, <2>7 DEF Shape
      <3>4. Distinct(client)' /\ Lists(client)'
        BY <2>8, <2>16, <2>17 DEF Distinct, Lists, Exists, Places, InUse
      <3>5. (\A j \in InUse(client) : IsColumn(client.entry[j]) /\ j < MaxBaseCol
                                      /\ ~IsHandle(client.entry[j]))'
        BY <2>8, <2>13, <3>2 DEF IsColumn, InUse, IsHandle
      <3>6. /\ client'.inUse <= client'.slots /\ server'.inUse <= client'.inUse
            /\ \A j \in 0..(server'.inUse - 1) : client'.entry[j] = server'.entry[j]
        BY <2>3, <2>8, <3>1, <3>3
      <3> QED
        BY <3>4, <3>5, <3>6 DEF ClientHolds, Shape
    <2>19. HandlesOwn'
      BY <2>8, <2>13 DEF HandlesOwn, InUse, IsHandle
    <2>20. Reachable'
      <3> SUFFICES ASSUME NEW p \in Objects, heap'[p] # "free"
                   PROVE  \E d \in Columns : column'[d] = p
        BY DEF Reachable
      <3>1. CASE p = o
        BY <2>10, <3>1
      <3>2. CASE p # o
        <4>1. heap[p] # "free"
          BY <2>11, <3>2
        <4>2. PICK d \in Columns : column[d] = p
          BY <2>4, <2>6, <4>1 DEF Reach
        <4>3. d # c
          BY <2>1, <4>2, PoolAssumption
        <4> QED
          BY <2>10, <4>2, <4>3
      <3> QED
        BY <3>1, <3>2
    <2>21. Queued' /\ Idle' /\ CopiedIn' /\ CopiedOut'
      BY <2>3, <2>4 DEF Queued, Idle, CopiedIn, CopiedOut
    <2>22. RulesSuffice'
      BY <2>2 DEF RulesSuffice, Promising, Trusted
    <2> QED
      BY <2>14, <2>15, <2>18, <2>19, <2>20, <2>21, <2>22 DEF Sound, Safe
  <1> QED
    BY <1>1, <1>2

LEMMA DefineSafe ==
    ASSUME TypeOK, Sound, Promising, Define
    PROVE  Safe'
  <1>0. {"POSITION", "RESULT", "SCALAR"} \subseteq Intermediate
    BY DEF Intermediate
  <1>1. ASSUME NEW h \in Handles, NEW c \in Names, Select(h, c) \/ ScalarOp(h, c)
        PROVE  Safe'
    <2>1. \A n \in {c} : Exists(n, client)
      BY <1>1 DEF Select, ScalarOp, Has
    <2> QED
      BY <1>0, <1>1, <2>1, AssignSafe DEF Select, ScalarOp
  <1>2. ASSUME NEW h \in Handles, NEW p \in Names, NEW c \in Names, SelectFrom(h, p, c) \/ Fetch(h, c, p)
        PROVE  Safe'
    <2>1. (\A n \in {p, c} : Exists(n, client)) /\ (\A n \in {c, p} : Exists(n, client))
      BY <1>2 DEF SelectFrom, Fetch, Has
    <2> QED
      BY <1>0, <1>2, <2>1, AssignSafe DEF SelectFrom, Fetch
  <1>3. ASSUME NEW h \in Handles, NEW c \in Names, NEW d \in Names, ArithmeticOp(h, c, d)
        PROVE  Safe'
    <2>1. \A n \in {c, d} : Exists(n, client)
      BY <1>3 DEF ArithmeticOp, Has
    <2>2. PICK content \in {"full", "part"} : Assign(h, "RESULT", {c, d}, content)
      BY <1>3 DEF ArithmeticOp
    <2> QED
      BY <1>0, <2>1, <2>2, AssignSafe
  <1> QED
    BY <1>1, <1>2, <1>3, JoinSafe, BatchedSelectSafe DEF Define

\* A rule that was broken stays broken, and after a shutdown little happens.
NextKeeps ==
    /\ Running
    /\ kept' => kept
    /\ ordered' => ordered
    /\ phase = "closed" => CommandAfterShutdown \/ DisconnectAfterShutdown
    /\ phase # "ended"

LEMMA NextIs ==
    ASSUME Next
    PROVE  NextKeeps
  <1> USE DEF NextKeeps, session, batch
  <1>1. CASE Accept \/ CopyIn \/ BeginSession \/ CopyOut \/ EndSession
    BY <1>1 DEF Accept, CopyIn, BeginSession, CopyOut, EndSession
  <1>2. CASE Disconnect \/ Shutdown \/ CreateDb \/ BatchQueries \/ BatchExecute
    <2>1. Running /\ phase # "closed" /\ phase # "ended" /\ ordered' = ordered
      BY <1>2 DEF Disconnect, Shutdown, CreateDb, BatchQueries, BatchExecute
    <2>2. kept' => kept
      BY <1>2, Zenon DEF Disconnect, Shutdown, CreateDb, BatchQueries, BatchExecute
    <2> QED
      BY <2>1, <2>2
  <1>3. CASE CommandAfterShutdown \/ DisconnectAfterShutdown
    BY <1>3 DEF CommandAfterShutdown, DisconnectAfterShutdown
  <1>4. ASSUME NEW c \in Columns, CreateColumn(c)
        PROVE  NextKeeps
    BY <1>4 DEF CreateColumn
  <1>5. ASSUME NEW n \in Names, Read(n)
        PROVE  NextKeeps
    BY <1>5 DEF Read
  <1>6. CASE Define
    <2>1. ASSUME NEW h, NEW kind, NEW ops, NEW content, Assign(h, kind, ops, content)
          PROVE  NextKeeps
      BY <2>1 DEF Assign
    <2>2. ASSUME NEW g, NEW h, NEW v1, NEW s1, NEW v2, NEW s2, Join(g, h, v1, s1, v2, s2)
          PROVE  NextKeeps
      BY <2>2 DEF Join
    <2>3. ASSUME NEW h, NEW c, BatchedSelect(h, c)
          PROVE  NextKeeps
      BY <2>3 DEF BatchedSelect
    <2> HIDE DEF NextKeeps
    <2> QED
      BY <1>6, <2>1, <2>2, <2>3 DEF Define, Select, ScalarOp, SelectFrom, Fetch, ArithmeticOp
  <1> HIDE DEF NextKeeps
  <1> QED
    BY <1>1, <1>2, <1>3, <1>4, <1>5, <1>6 DEF Next

LEMMA StepSafe ==
    ASSUME IInv, [Next]_vars
    PROVE  IInv'
  <1>0. TypeOK /\ RulesSuffice /\ TypeOK'
    BY StepType DEF IInv
  <1>1. CASE UNCHANGED vars
    <2>1. RulesSuffice'
      BY <1>0, <1>1 DEF vars, RulesSuffice
    <2>2. Promising' => Sound'
      BY <1>1 DEF IInv, vars, Promising, Trusted, Sound, ColumnsOwned, ServerHolds, Idle, CopiedIn,
          ClientHolds, CopiedOut, HandlesOwn, Queued, Reachable, Connected, Shape, IsColumn, IsHandle,
          Distinct, Lists, Exists, Places, InUse
    <2> QED
      BY <1>0, <2>1, <2>2 DEF IInv
  <1>2. CASE Next /\ ~Promising
    <2>1. NextKeeps
      BY <1>2, NextIs
    <2>2. CASE phase = "closed"
      <3>1. kept' = FALSE \/ phase' = "ended"
        BY <2>1, <2>2 DEF NextKeeps, CommandAfterShutdown, DisconnectAfterShutdown
      <3> QED
        BY <1>0, <3>1 DEF IInv, RulesSuffice, Promising, Trusted
    <2>3. CASE ~kept \/ ~ordered
      BY <1>0, <2>1, <2>3 DEF NextKeeps, IInv, RulesSuffice, Promising, Trusted
    <2> QED
      BY <1>2, <2>1, <2>2, <2>3 DEF NextKeeps, Promising, Trusted
  <1>3. CASE Next /\ Promising
    <2>1. Sound
      BY <1>3 DEF IInv
    <2>2. ~CommandAfterShutdown /\ ~DisconnectAfterShutdown
      BY <1>3 DEF Promising, CommandAfterShutdown, DisconnectAfterShutdown
    <2>3. Safe'
      BY <1>0, <1>3, <2>1, <2>2, SessionSafe, CopyInSafe, CopyOutSafe, EndSessionSafe, ShutdownSafe,
         CreateDbSafe, CreateColumnSafe, DefineSafe, ReadSafe, BatchQueriesSafe, BatchExecuteSafe
         DEF Next
    <2> QED
      BY <1>0, <2>3 DEF IInv, Safe
  <1> QED
    BY <1>1, <1>2, <1>3

LEMMA InitSound == Init => IInv
  <1> SUFFICES ASSUME Init
               PROVE  IInv
    OBVIOUS
  <1>0. TypeOK
    BY InitType
  <1>1. PICK n \in 0..MaxBaseCol : \E listed \in [0..(n - 1) -> Columns], obj \in [0..(n - 1) -> Objects] :
             /\ Injective(listed)
             /\ Injective(obj)
             /\ column = [c \in Columns |->
                    IF \E j \in 0..(n - 1) : listed[j] = c
                    THEN obj[CHOOSE j \in 0..(n - 1) : listed[j] = c] ELSE Null]
             /\ server = [slots |-> MaxBaseCol, inUse |-> n,
                    entry |-> [j \in 0..(MaxBaseCol - 1) |->
                        IF j < n THEN [name |-> listed[j], kind |-> "COLUMN", obj |-> obj[j]]
                        ELSE Vacant]]
    BY DEF Init
  <1>2. PICK listed \in [0..(n - 1) -> Columns], obj \in [0..(n - 1) -> Objects] :
             /\ Injective(listed)
             /\ Injective(obj)
             /\ column = [c \in Columns |->
                    IF \E j \in 0..(n - 1) : listed[j] = c
                    THEN obj[CHOOSE j \in 0..(n - 1) : listed[j] = c] ELSE Null]
             /\ server = [slots |-> MaxBaseCol, inUse |-> n,
                    entry |-> [j \in 0..(MaxBaseCol - 1) |->
                        IF j < n THEN [name |-> listed[j], kind |-> "COLUMN", obj |-> obj[j]]
                        ELSE Vacant]]
    BY <1>1
  <1>3. n \in Nat /\ n <= MaxBaseCol /\ MaxBaseCol \in Nat
    BY PoolAssumption
  <1>4. \A j \in 0..(n - 1) : column[listed[j]] = obj[j]
    <2> TAKE j \in 0..(n - 1)
    <2> DEFINE m == CHOOSE k \in 0..(n - 1) : listed[k] = listed[j]
    <2>1. m \in 0..(n - 1) /\ listed[m] = listed[j]
      OBVIOUS
    <2>2. m = j
      BY <1>2, <2>1 DEF Injective
    <2>3. column[listed[j]] = obj[m]
      BY <1>2
    <2> QED
      BY <2>2, <2>3
  <1>5. \A c \in Columns : column[c] # Null => \E j \in 0..(n - 1) : listed[j] = c
    BY <1>2
  <1>6. InUse(server) = 0..(n - 1) /\ server.inUse = n /\ server.slots = MaxBaseCol
        /\ \A j \in 0..(n - 1) : server.entry[j] = [name |-> listed[j], kind |-> "COLUMN", obj |-> obj[j]]
    BY <1>2, <1>3 DEF InUse
  <1>7. ColumnsOwned
    <2> SUFFICES ASSUME NEW c \in Columns, column[c] # Null
                 PROVE  dbOpen /\ heap[column[c]] = "full"
                        /\ \A d \in Columns : column[d] = column[c] => c = d
      BY DEF ColumnsOwned
    <2>1. column[c] \in Objects
      BY <1>0 DEF TypeOK
    <2>2. dbOpen /\ heap[column[c]] = "full"
      BY <2>1 DEF Init
    <2>3. ASSUME NEW d \in Columns, column[d] = column[c]
          PROVE  c = d
      <3>1. PICK j \in 0..(n - 1) : listed[j] = c
        BY <1>5
      <3>2. PICK k \in 0..(n - 1) : listed[k] = d
        BY <1>5, <2>3
      <3>3. obj[j] = obj[k]
        BY <1>4, <2>3, <3>1, <3>2
      <3>4. j = k
        BY <1>2, <3>3 DEF Injective
      <3> QED
        BY <3>1, <3>2, <3>4
    <2> QED
      BY <2>2, <2>3
  <1>8. ServerHolds
    <2>0. InUse(server) = 0..(n - 1) /\ \A j \in 0..(n - 1) :
             /\ server.entry[j].name = listed[j] /\ server.entry[j].kind = "COLUMN"
             /\ server.entry[j].obj = obj[j]
             /\ listed[j] \in Columns /\ obj[j] \in Objects
      <3>1. \A j \in 0..(n - 1) : listed[j] \in Columns /\ obj[j] \in Objects
        OBVIOUS
      <3>2. ASSUME NEW j \in 0..(n - 1)
            PROVE  /\ server.entry[j].name = listed[j] /\ server.entry[j].kind = "COLUMN"
                   /\ server.entry[j].obj = obj[j]
        <4>1. server.entry[j] = [name |-> listed[j], kind |-> "COLUMN", obj |-> obj[j]]
          BY <1>6
        <4> QED
          BY <4>1
      <3> QED
        BY <1>6, <3>1, <3>2
    <2>1. \A j \in InUse(server) : IsColumn(server.entry[j])
      BY <1>4, <2>0 DEF IsColumn
    <2>2. Distinct(server)
      <3> SUFFICES ASSUME NEW j \in 0..(n - 1), NEW k \in 0..(n - 1), listed[j] = listed[k]
                   PROVE  j = k
        BY <2>0 DEF Distinct
      <3> QED
        BY <1>2 DEF Injective
    <2>3. Lists(server)
      BY <1>5, <2>0 DEF Lists, Exists, Places
    <2> QED
      BY <1>3, <1>6, <2>1, <2>2, <2>3 DEF ServerHolds
  <1>9. Reachable
    <2> SUFFICES ASSUME NEW o \in Objects, heap[o] # "free"
                 PROVE  \E c \in Columns : column[c] = o
      BY DEF Reachable
    <2> QED
      BY DEF Init
  <1>10. Queued /\ Idle /\ CopiedIn /\ ClientHolds /\ CopiedOut /\ HandlesOwn
    BY DEF Init, NewTable, Queued, Idle, CopiedIn, ClientHolds, CopiedOut, HandlesOwn, Connected
  <1>11. RulesSuffice
    BY DEF Init, RulesSuffice
  <1> QED
    BY <1>0, <1>7, <1>8, <1>9, <1>10, <1>11 DEF IInv, Sound

\* The inductive invariant holds in every reachable state.
THEOREM Invariance == Spec => []IInv
  <1>1. IInv /\ [Next]_vars => IInv'
    BY StepSafe
  <1> QED
    BY InitSound, <1>1, PTL DEF Spec

\* A client that keeps the rules never makes the server use memory it must not.
THEOREM RulesAreEnough == Spec => []RulesSuffice
  <1>1. IInv => RulesSuffice
    BY DEF IInv
  <1> QED
    BY Invariance, <1>1, PTL

\* No name is in a table twice.
THEOREM LookupFindsLast == Spec => []OneEntryPerName
  <1>1. IInv => OneEntryPerName
    <2> SUFFICES ASSUME IInv, Promising
                 PROVE  Distinct(client) /\ Distinct(server)
      BY DEF OneEntryPerName, Distinct
    <2>0. Sound /\ IsTable(client) /\ IsTable(server) /\ phase \in Phases
      BY DEF IInv, TypeOK
    <2>1. Distinct(server)
      BY <2>0 DEF Sound, ServerHolds
    <2>2. CASE phase = "idle"
      <3>1. InUse(client) = {}
        BY <2>0, <2>2, Fields DEF Sound, Idle, InUse
      <3> QED
        BY <2>1, <3>1 DEF Distinct
    <2>3. CASE phase = "copyIn"
      <3>1. /\ i <= server.inUse /\ client.inUse = i /\ i \in Nat
            /\ \A j \in 0..(i - 1) : client.entry[j] = server.entry[j]
            /\ server.inUse \in Nat /\ server.inUse <= server.slots
        BY <2>0, <2>3, Fields DEF Sound, CopiedIn, ServerHolds, IInv, TypeOK
      <3>2. InUse(server) = 0..(server.inUse - 1)
        BY <2>0, <3>1, InUseIs
      <3>3. \A j \in InUse(client) : j \in 0..(i - 1)
        BY <2>0, <3>1, Fields DEF InUse
      <3>4. \A j \in InUse(client) : j \in InUse(server) /\ client.entry[j] = server.entry[j]
        BY <3>1, <3>2, <3>3
      <3> QED
        BY <2>1, <3>4 DEF Distinct
    <2>4. CASE Connected
      BY <2>0, <2>1, <2>4 DEF Sound, ClientHolds, Shape
    <2> QED
      BY <2>0, <2>2, <2>3, <2>4 DEF Promising, Connected
  <1> QED
    BY Invariance, <1>1, PTL

\* Every object in use is a column of the database or stands behind a handle.
THEOREM PoolLeaksNothing == Spec => []NothingLeaks
  <1>1. IInv => NothingLeaks
    <2> SUFFICES ASSUME IInv, Trusted, phase \in {"idle", "serving", "copyOut"},
                        NEW o \in Objects, heap[o] # "free"
                 PROVE  \/ \E c \in Columns : column[c] = o
                        \/ phase # "idle" /\ \E e \in HandlesOf(client) : e.obj = o
      BY DEF NothingLeaks
    <2>1. Reachable
      BY DEF IInv, Promising, Sound
    <2>2. CASE \E c \in Columns : column[c] = o
      BY <2>2
    <2>3. CASE Connected /\ \E j \in InUse(client) :
                            IsHandle(client.entry[j]) /\ client.entry[j].obj = o
      BY <2>3 DEF HandlesOf, Connected
    <2> QED
      BY <2>1, <2>2, <2>3 DEF Reachable
  <1> QED
    BY Invariance, <1>1, PTL

-------------------------------------------------------------------------------
(* The pool implements the environment a client is promised.               *)

LEMMA InitPromised == Init => Promised!Init
  <1> SUFFICES ASSUME Init
               PROVE  Promised!Init
    OBVIOUS
  <1>1. TypeOK
    BY InitType
  <1>2. phase # "serving" /\ Promising
    BY DEF Init, Promising, Trusted
  <1>3. Seen = [n \in Names |-> Null]
    BY <1>2 DEF Seen
  <1> QED
    BY <1>1, <1>2, <1>3 DEF Promised!Init, Promised!Unbound, Promised!Names, TypeOK

\* A step after which nothing is promised.
LEMMA LoseStep ==
    ASSUME TypeOK', ~Promising'
    PROVE  Promised!Lose
  <1>1. Seen' = [n \in Names |-> Null]
    BY DEF Seen
  <1>2. Seen' \in [Names -> Objects \cup {Null}]
    BY <1>1
  <1>3. column' \in [Columns -> Objects \cup {Null}]
    BY DEF TypeOK
  <1> QED
    BY <1>2, <1>3 DEF Promised!Lose, Promised!Names

\* A step the client does not see.
LEMMA HiddenStep ==
    ASSUME Promising, Promising', UNCHANGED <<column, Seen>>, phase' = "serving" <=> phase = "serving"
    PROVE  UNCHANGED Promised!vars
  BY DEF Promised!vars

\* What an entry is called stands for its object, and nothing else does.
LEMMA SeenIs ==
    ASSUME TypeOK, Promising, phase = "serving", Distinct(client)
    PROVE  /\ \A j \in InUse(client) : client.entry[j].name \in Names =>
                  Seen[client.entry[j].name] = client.entry[j].obj
           /\ \A n \in Names : Seen[n] # Null =>
                  \E j \in InUse(client) : client.entry[j].name = n /\ client.entry[j].obj = Seen[n]
           /\ \A n \in Names : ~Exists(n, client) => Seen[n] = Null
  <1>1. IsTable(client)
    BY DEF TypeOK
  <1>2. ASSUME NEW j \in InUse(client), client.entry[j].name \in Names
        PROVE  Seen[client.entry[j].name] = client.entry[j].obj
    <2>1. Exists(client.entry[j].name, client) /\ Bound(client.entry[j].name, client) = client.entry[j]
      BY <1>1, Unique
    <2> QED
      BY <1>2, <2>1 DEF Seen
  <1>3. ASSUME NEW n \in Names, Seen[n] # Null
        PROVE  \E j \in InUse(client) : client.entry[j].name = n /\ client.entry[j].obj = Seen[n]
    <2>1. Exists(n, client) /\ Seen[n] = Bound(n, client).obj
      BY <1>3 DEF Seen
    <2> QED
      BY <1>1, <2>1, Found
  <1>4. \A n \in Names : ~Exists(n, client) => Seen[n] = Null
    BY DEF Seen
  <1> QED
    BY <1>2, <1>3, <1>4

\* Seen depends on the table and on whether a client is served.
LEMMA SeenKept ==
    ASSUME Promising, Promising', client' = client, phase' = phase
    PROVE  Seen' = Seen
  BY DEF Seen, Exists, Places, Bound, First, InUse

LEMMA SeenOutside ==
    ASSUME phase # "serving"
    PROVE  Seen = [n \in Names |-> Null]
  BY DEF Seen

LEMMA BeginPromised ==
    ASSUME TypeOK, Sound, Promising, TypeOK', Sound', Promising', BeginSession
    PROVE  Promised!Begin
  <1>1. phase = "copyIn" /\ phase' = "serving" /\ column' = column /\ client' = client /\ server' = server
    BY DEF BeginSession
  <1>2. /\ IsTable(client') /\ Shape(client)' /\ Distinct(client)'
    BY <1>1 DEF Sound, ClientHolds, Connected, Shape, TypeOK
  <1>3. IsTable(client) /\ Shape(client) /\ Distinct(client)
    BY <1>1, <1>2 DEF Shape, IsColumn, IsHandle, Distinct, Lists, Exists, Places, InUse
  <1>4. \A j \in InUse(client) : IsColumn(client.entry[j])
    <2>1. \A j \in 0..(i - 1) : client.entry[j] = server.entry[j]
      BY <1>1 DEF Sound, CopiedIn
    <2>2. i \in Nat /\ client.inUse = i /\ i <= server.inUse /\ server.inUse \in Nat /\ server.inUse <= server.slots
      BY <1>1, Fields DEF TypeOK, Sound, CopiedIn, ServerHolds
    <2>3. \A j \in InUse(client) : j \in 0..(i - 1) /\ j \in InUse(server)
      BY <1>3, <2>2, Fields DEF InUse, TypeOK
    <2> QED
      BY <2>1, <2>3 DEF Sound, ServerHolds
  <1>5. \A n \in Names : Seen'[n] = IF n \in Columns THEN column[n] ELSE Null
    <2> TAKE n \in Names
    <2>0. Seen'[n] = IF Exists(n, client) THEN Bound(n, client).obj ELSE Null
      BY <1>1 DEF Seen, Exists, Places, Bound, First, InUse
    <2>1. CASE Exists(n, client)
      <3>1. /\ First(n, client) \in InUse(client)
            /\ client.entry[First(n, client)].name = n
            /\ Bound(n, client) = client.entry[First(n, client)]
        BY <1>3, <2>1, Found
      <3>2. IsColumn(Bound(n, client)) /\ Bound(n, client).name = n
        BY <1>4, <3>1
      <3> QED
        BY <2>0, <2>1, <3>2 DEF IsColumn
    <2>2. CASE ~Exists(n, client)
      BY <1>3, <2>0, <2>2 DEF Shape, Lists
    <2> QED
      BY <2>1, <2>2
  <1>6. Seen' = [n \in Names |-> IF n \in Columns THEN column[n] ELSE Null]
    <2>1. Seen' = [n \in Names |-> Seen'[n]]
      BY DEF Seen
    <2> QED
      BY <1>5, <2>1
  <1> QED
    BY <1>1, <1>6 DEF Promised!Begin, Promised!Visible, Promised!Names

LEMMA EndPromised ==
    ASSUME Promising, Promising', Disconnect
    PROVE  Promised!End
  <1>1. phase = "serving" /\ phase' = "copyOut" /\ column' = column
    BY DEF Disconnect
  <1>2. Seen' = [n \in Names |-> Null]
    BY <1>1 DEF Seen
  <1> QED
    BY <1>1, <1>2 DEF Promised!End, Promised!Unbound, Promised!Names

\* What the names of a table stand for.
Stands(t) == [n \in Names |-> IF Exists(n, t) THEN Bound(n, t).obj ELSE Null]

LEMMA SeenStands ==
    /\ Promising /\ phase = "serving" => Seen = Stands(client)
    /\ Promising' /\ phase' = "serving" => Seen' = Stands(client')
  BY DEF Seen, Stands, Exists, Places, Bound, First, InUse

LEMMA EnterStands ==
    ASSUME NEW t, IsTable(t), Distinct(t), t.inUse < t.slots,
           NEW h \in Names, NEW kind \in Kinds, NEW o \in Objects
    PROVE  \A n \in Names : Stands(Enter(t, h, kind, o))[n] = IF n = h THEN o ELSE Stands(t)[n]
  <1> DEFINE r == Enter(t, h, kind, o)
             P == Position(h, t)
  <1>0. t.inUse \in Nat /\ t.slots \in Nat /\ t.inUse <= t.slots
    BY Fields
  <1>6. IsTable(r)
    BY EnterType
  <1>1. /\ InUse(t) \subseteq InUse(r)
        /\ P \in InUse(r)
        /\ r.entry[P] = [name |-> h, kind |-> kind, obj |-> o]
        /\ \A k \in InUse(r) : k # P =>
              k \in InUse(t) /\ r.entry[k] = t.entry[k] /\ t.entry[k].name # h
        /\ P \in InUse(t) => t.entry[P].name = h
        /\ Distinct(r)
    BY <1>0, Entered
  <1> HIDE DEF r, P
  <1>2. Exists(h, r) /\ Bound(h, r).obj = o
    <2>1. r.entry[P].name = h /\ r.entry[P].obj = o
      BY <1>1
    <2>2. Exists(h, r) /\ Bound(h, r) = r.entry[P]
      BY <1>6, <1>1, <2>1, Unique
    <2> QED
      BY <2>1, <2>2
  <1>3. ASSUME NEW n \in Names, n # h, Exists(n, t)
        PROVE  Exists(n, r) /\ Bound(n, r) = Bound(n, t)
    BY <1>3, BoundKept DEF r
  <1>4. ASSUME NEW n \in Names, n # h, Exists(n, r)
        PROVE  Exists(n, t)
    <2>1. PICK k \in InUse(r) : r.entry[k].name = n
      BY <1>4 DEF Exists, Places
    <2>2. k # P
      BY <1>1, <1>4, <2>1
    <2> QED
      BY <1>1, <2>1, <2>2 DEF Exists, Places
  <1>5. \A n \in Names : Stands(r)[n] = IF n = h THEN o ELSE Stands(t)[n]
    BY <1>2, <1>3, <1>4 DEF Stands
  <1> QED
    BY <1>5 DEF r

\* No other name stands for a handle's object.
LEMMA Apart ==
    ASSUME NEW t, IsTable(t), Distinct(t), NEW hp, NEW q, Own(t, hp, q, {}),
           \A j \in InUse(t) : t.entry[j].name \in Handles => IsHandle(t.entry[j]),
           NEW h \in Handles, Exists(h, t), NEW n \in Names, n # h, Stands(t)[n] # Null
    PROVE  Stands(t)[n] # Stands(t)[h]
  <1>1. Exists(n, t) /\ Stands(t)[n] = Bound(n, t).obj /\ Stands(t)[h] = Bound(h, t).obj
    BY DEF Stands
  <1> DEFINE j == First(h, t)
             k == First(n, t)
  <1>2. j \in InUse(t) /\ t.entry[j].name = h /\ Bound(h, t) = t.entry[j]
    BY Found
  <1>3. k \in InUse(t) /\ t.entry[k].name = n /\ Bound(n, t) = t.entry[k]
    BY <1>1, Found
  <1> HIDE DEF j, k
  <1>4. OwnsAt(t, hp, q, {}, j)
    BY <1>2 DEF Own
  <1>5. t.entry[k].obj # t.entry[j].obj
    BY <1>2, <1>3, <1>4 DEF OwnsAt
  <1> QED
    BY <1>1, <1>2, <1>3, <1>5

LEMMA ServingAfter ==
    ASSUME TypeOK', Sound', phase' = "serving", column' = column
    PROVE  /\ IsTable(client') /\ Distinct(client')
           /\ Own(client', heap', tasks', {})
           /\ \A j \in InUse(client') : client'.entry[j].name \in Handles => IsHandle(client'.entry[j])
  <1>1. IsTable(client')
    BY DEF TypeOK
  <1>2. Shape(client)'
    BY DEF Sound, ClientHolds, Connected
  <1>3. Distinct(client')
    BY <1>2 DEF Shape, Distinct, InUse
  <1>4. Own(client', heap', tasks', {})
    BY DEF Sound, HandlesOwn, Connected, Own, OwnsAt, InUse, IsHandle
  <1>5. \A j \in InUse(client') : client'.entry[j].name \in Handles => IsHandle(client'.entry[j])
    BY <1>2, PoolAssumption DEF Shape, IsColumn, IsHandle, InUse
  <1> QED
    BY <1>1, <1>3, <1>4, <1>5

LEMMA DefinePromised ==
    ASSUME TypeOK, Sound, Promising, TypeOK', Sound', Promising',
           phase = "serving", UNCHANGED <<session, column>>,
           client.inUse < client.slots,
           NEW h \in Handles, NEW kind \in Intermediate, NEW o \in Objects,
           client' = Enter(client, h, kind, o)
    PROVE  Promised!Define(h)
  <1>0. phase' = "serving" /\ IsTable(client) /\ Distinct(client)
    BY Serving DEF session, TypeOK
  <1>1. Seen' = [n \in Names |-> IF n = h THEN o ELSE Seen[n]]
    <2>1. \A n \in Names : Stands(client')[n] = IF n = h THEN o ELSE Stands(client)[n]
      BY <1>0, EnterStands DEF Intermediate
    <2>2. Seen = Stands(client) /\ Seen' = Stands(client')
      BY <1>0, SeenStands
    <2>3. Stands(client') = [n \in Names |-> Stands(client')[n]]
      BY DEF Stands
    <2> QED
      BY <2>1, <2>2, <2>3
  <1>2. Exists(h, client')
    BY <1>0, EnterExists DEF Intermediate
  <1>3. Seen' = Stands(client')
    BY <1>0, SeenStands
  <1>4. \A n \in Names : n # h /\ Seen'[n] # Null => Seen'[n] # o
    <2> TAKE n \in Names
    <2> HAVE n # h /\ Seen'[n] # Null
    <2>1. Stands(client')[n] # Stands(client')[h]
      BY <1>0, <1>2, <1>3, ServingAfter, Apart
    <2>2. Seen'[h] = o
      BY <1>1
    <2> QED
      BY <1>3, <2>1, <2>2
  <1> DEFINE defs == [n \in {h} |-> o]
  <1>5. DOMAIN defs = {h} /\ defs[h] = o
    OBVIOUS
  <1> HIDE DEF defs
  <1>6. Seen' = [n \in Names |-> IF n \in DOMAIN defs THEN defs[n] ELSE Seen[n]]
    BY <1>1, <1>5
  <1>7. \A g \in DOMAIN defs, n \in Names : n # g /\ Seen'[n] # Null => Seen'[n] # defs[g]
    BY <1>4, <1>5
  <1>8. Promised!Bind(defs)
    BY <1>0, <1>6, <1>7 DEF Promised!Bind, Promised!Names
  <1> QED
    BY <1>8 DEF Promised!Define, defs

LEMMA JoinPromised ==
    ASSUME TypeOK, Sound, Promising, TypeOK', Sound', Promising',
           phase = "serving", UNCHANGED <<session, column>>,
           client.inUse < client.slots,
           NEW g \in Handles, NEW h \in Handles, g # h,
           NEW o \in Objects, NEW p \in Objects,
           Enter(client, g, "POSITION", o).inUse < client.slots,
           client' = Enter(Enter(client, g, "POSITION", o), h, "POSITION", p)
    PROVE  Promised!DefineTwo(g, h)
  <1>13. PICK kind \in Kinds \ {"COLUMN"} : kind = "POSITION"
    OBVIOUS
  <1> DEFINE pool == Enter(client, g, kind, o)
             both == Enter(pool, h, kind, p)
  <1>0. /\ phase' = "serving" /\ IsTable(client) /\ Distinct(client) /\ Shape(client) /\ ServerHolds
        /\ kind \in Kinds /\ g \in Names /\ h \in Names
    BY <1>13, Serving DEF session, TypeOK
  <1>1. IsTable(pool) /\ Shape(pool) /\ pool.slots = client.slots
    BY <1>0, <1>13, EnterType, EnterShape
  <1>2. Distinct(pool) /\ pool.inUse < pool.slots
    BY <1>1, <1>13 DEF Shape
  <1>3. \A n \in Names : Stands(pool)[n] = IF n = g THEN o ELSE Seen[n]
    <2>1. Seen = Stands(client)
      BY SeenStands
    <2>3. \A n \in Names : Stands(pool)[n] = IF n = g THEN o ELSE Stands(client)[n]
      BY <1>0, EnterStands
    <2> QED
      BY <2>1, <2>3
  <1>4. Exists(g, pool)
    BY <1>0, EnterExists
  <1> HIDE DEF pool
  <1>5. \A n \in Names : Stands(both)[n] = IF n = h THEN p ELSE Stands(pool)[n]
    BY <1>0, <1>1, <1>2, EnterStands
  <1>6. Exists(h, both) /\ Exists(g, both)
    BY <1>0, <1>1, <1>2, <1>4, EnterExists, BoundKept
  <1> HIDE DEF both
  <1>7. client' = both
    BY <1>13 DEF pool, both
  <1>8. Seen' = Stands(client')
    BY <1>0, SeenStands
  <1> DEFINE defs == [n \in {g, h} |-> IF n = g THEN o ELSE p]
  <1>9. DOMAIN defs = {g, h} /\ defs[g] = o /\ defs[h] = p
    OBVIOUS
  <1> HIDE DEF defs
  <1>10. Seen' = [n \in Names |-> IF n \in DOMAIN defs THEN defs[n] ELSE Seen[n]]
    <2>1. \A n \in Names : Seen'[n] = IF n \in DOMAIN defs THEN defs[n] ELSE Seen[n]
      BY <1>3, <1>5, <1>7, <1>8, <1>9
    <2>2. Seen' = [n \in Names |-> Seen'[n]]
      BY <1>8 DEF Stands
    <2> QED
      BY <2>1, <2>2
  <1>11. \A d \in DOMAIN defs, n \in Names : n # d /\ Seen'[n] # Null => Seen'[n] # defs[d]
    <2> TAKE d \in DOMAIN defs, n \in Names
    <2> HAVE n # d /\ Seen'[n] # Null
    <2>1. d \in Handles /\ Exists(d, client')
      BY <1>6, <1>7, <1>9
    <2>2. Stands(client')[n] # Stands(client')[d]
      BY <1>0, <1>8, <2>1, ServingAfter, Apart
    <2>3. Seen'[d] = defs[d]
      BY <1>10, <2>1
    <2> QED
      BY <1>8, <2>2, <2>3
  <1>12. Promised!Bind(defs)
    BY <1>0, <1>10, <1>11 DEF Promised!Bind, Promised!Names
  <1> QED
    BY <1>12 DEF Promised!DefineTwo, defs

LEMMA DeclarePromised ==
    ASSUME TypeOK, Sound, Promising, Promising', NEW c \in Columns, CreateColumn(c)
    PROVE  Promised!Declare(c)
  <1>0. /\ kept' = (kept /\ dbOpen /\ column[c] = Null /\ client.inUse < MaxBaseCol)
        /\ ordered' = (ordered /\ HandlesOf(client) = {})
    BY DEF CreateColumn
  <1>1. dbOpen /\ column[c] = Null /\ client.inUse < MaxBaseCol /\ HandlesOf(client) = {}
    BY <1>0 DEF Promising, Trusted
  <1>2. PICK o \in Objects :
              /\ heap[o] = "free"
              /\ column' = [column EXCEPT ![c] = o]
              /\ client' = Append(client, c, o)
    BY <1>1 DEF CreateColumn
  <1>3. /\ phase = "serving" /\ phase' = "serving"
    BY DEF CreateColumn, session
  <1>4. /\ IsTable(client) /\ Shape(client) /\ Distinct(client) /\ ColumnsFull(heap)
        /\ column \in [Columns -> Objects \cup {Null}]
        /\ client.inUse \in Nat /\ client.slots \in Nat /\ client.slots >= MaxVPool
    BY <1>3, Serving, Fields DEF TypeOK
  <1>5. client.inUse < client.slots
    BY <1>1, <1>4, PoolAssumption
  <1>6. \A j \in InUse(client) : IsColumn(client.entry[j]) /\ client.entry[j].name # c
    <2> TAKE j \in InUse(client)
    <2>1. ~IsHandle(client.entry[j])
      BY <1>1 DEF HandlesOf
    <2>2. IsColumn(client.entry[j])
      BY <1>4, <2>1, ShapeEntry
    <2> QED
      BY <1>1, <2>2, PoolAssumption DEF IsColumn
  <1>7. ~Exists(c, client)
    BY <1>6 DEF Exists, Places
  <1>8. client' = Enter(client, c, "COLUMN", o)
    <2>1. client.slots # client.inUse
      BY <1>4, <1>5
    <2> QED
      BY <1>2, <1>7, <2>1 DEF Append, Enter, Position
  <1>9. \A n \in Names : Seen'[n] = IF n = c THEN o ELSE Seen[n]
    <2>1. PICK kind \in Kinds : kind = "COLUMN"
      OBVIOUS
    <2>2. \A n \in Names : Stands(client')[n] = IF n = c THEN o ELSE Stands(client)[n]
      BY <1>4, <1>5, <1>8, <2>1, EnterStands
    <2> QED
      BY <1>3, <2>2, SeenStands
  <1>10. Seen' = [Seen EXCEPT ![c] = o]
    <2>1. Seen' = [n \in Names |-> Seen'[n]] /\ Seen = [n \in Names |-> Seen[n]]
      BY DEF Seen
    <2> QED
      BY <1>9, <2>1
  <1>11. \A n \in Names : Seen[n] # o
    <2> SUFFICES ASSUME NEW n \in Names, Seen[n] = o
                 PROVE  FALSE
      OBVIOUS
    <2>1. o # Null
      BY PoolAssumption
    <2>2. PICK j \in InUse(client) : client.entry[j].name = n /\ client.entry[j].obj = Seen[n]
      BY <1>3, <1>4, <2>1, SeenIs
    <2>3. column[n] = o /\ n \in Columns
      BY <1>6, <2>2 DEF IsColumn
    <2> QED
      BY <1>2, <2>1, <2>3, <1>4 DEF ColumnsFull
  <1> QED
    BY <1>1, <1>2, <1>3, <1>10, <1>11 DEF Promised!Declare, Promised!Names

LEMMA AssignEnters ==
    ASSUME TypeOK, Sound, Promising,
           NEW h \in Handles, NEW kind \in Intermediate, NEW ops,
           NEW content \in {"part", "full"},
           \A n \in ops : Exists(n, client),
           Assign(h, kind, ops, content), kept', fault' # "abort"
    PROVE  client.inUse < client.slots /\ \E o \in Objects : client' = Enter(client, h, kind, o)
  <1>1. PICK o \in Objects :
              /\ fault' = fault
              /\ client.inUse < client.slots
              /\ Cleaned({h})[o] = "free"
              /\ client' = Enter(client, h, kind, o)
              /\ heap' = [Cleaned({h}) EXCEPT ![o] = content]
    BY AssignOutcome
  <1> QED
    BY <1>1

LEMMA AssignPromised ==
    ASSUME TypeOK, Sound, Promising, TypeOK', Sound', Promising',
           NEW h \in Handles, NEW kind \in Intermediate, NEW ops,
           NEW content \in {"part", "full"},
           \A n \in ops : Exists(n, client),
           Assign(h, kind, ops, content)
    PROVE  Promised!Define(h)
  <1>1. CASE ~kept' \/ fault' = "abort"
    BY <1>1 DEF Promising, Trusted
  <1>2. CASE kept' /\ fault' # "abort"
    <2>1. PICK o \in Objects : client.inUse < client.slots /\ client' = Enter(client, h, kind, o)
      BY <1>2, AssignEnters
    <2>2. phase = "serving" /\ UNCHANGED <<session, column>>
      BY DEF Assign
    <2> QED
      BY <2>1, <2>2, DefinePromised
  <1> QED
    BY <1>1, <1>2

LEMMA DefineRefines ==
    ASSUME TypeOK, Sound, Promising, TypeOK', Sound', Promising', Define
    PROVE  \/ \E h \in Handles : Promised!Define(h)
           \/ \E g, h \in Handles : g # h /\ Promised!DefineTwo(g, h)
  <1>0. {"POSITION", "RESULT", "SCALAR"} \subseteq Intermediate
    BY DEF Intermediate
  <1>7. kept' /\ fault' # "abort"
    BY DEF Promising, Trusted
  <1>2. ASSUME NEW h \in Handles, NEW c \in Names, Select(h, c) \/ ScalarOp(h, c)
        PROVE  Promised!Define(h)
    <2>1. \A n \in {c} : Exists(n, client)
      BY <1>2 DEF Select, ScalarOp, Has
    <2> QED
      BY <1>0, <1>2, <2>1, AssignPromised DEF Select, ScalarOp
  <1>3. ASSUME NEW h \in Handles, NEW p \in Names, NEW c \in Names, SelectFrom(h, p, c) \/ Fetch(h, c, p)
        PROVE  Promised!Define(h)
    <2>1. (\A n \in {p, c} : Exists(n, client)) /\ (\A n \in {c, p} : Exists(n, client))
      BY <1>3 DEF SelectFrom, Fetch, Has
    <2> QED
      BY <1>0, <1>3, <2>1, AssignPromised DEF SelectFrom, Fetch
  <1>4. ASSUME NEW h \in Handles, NEW c \in Names, NEW d \in Names, ArithmeticOp(h, c, d)
        PROVE  Promised!Define(h)
    <2>1. \A n \in {c, d} : Exists(n, client)
      BY <1>4 DEF ArithmeticOp, Has
    <2>2. PICK content \in {"full", "part"} : Assign(h, "RESULT", {c, d}, content)
      BY <1>4 DEF ArithmeticOp
    <2> QED
      BY <1>0, <2>1, <2>2, AssignPromised
  <1>5. ASSUME NEW g \in Handles, NEW h \in Handles, NEW v1, NEW s1, NEW v2, NEW s2,
               Join(g, h, v1, s1, v2, s2)
        PROVE  g # h /\ Promised!DefineTwo(g, h)
    <2>3. /\ g # h
          /\ \/ fault' = "abort"
             \/ /\ fault' = fault
                /\ client.inUse < client.slots
                /\ \E o, p \in Objects :
                     LET clean == Cleaned({g, h})
                         pool == Enter(client, g, "POSITION", o)
                     IN  /\ o # p /\ clean[o] = "free" /\ clean[p] = "free"
                         /\ pool.inUse < client.slots
                         /\ client' = Enter(pool, h, "POSITION", p)
                         /\ heap' = [[clean EXCEPT ![o] = "full"] EXCEPT ![p] = "full"]
      BY <1>5, <1>7, JoinOutcome
    <2>1. g # h /\ client.inUse < client.slots
          /\ \E o, p \in Objects :
               /\ Enter(client, g, "POSITION", o).inUse < client.slots
               /\ client' = Enter(Enter(client, g, "POSITION", o), h, "POSITION", p)
      BY <1>7, <2>3
    <2>2. phase = "serving" /\ UNCHANGED <<session, column>>
      BY <1>5 DEF Join
    <2> QED
      BY <2>1, <2>2, JoinPromised
  <1>6. ASSUME NEW h \in Handles, NEW c \in Columns, BatchedSelect(h, c)
        PROVE  Promised!Define(h)
    <2>1. phase = "serving" /\ UNCHANGED <<session, column>>
      BY <1>6 DEF BatchedSelect
    <2>2. fault' \notin {"memory", "abort"}
      BY DEF Promising, Trusted
    <2>3. \E o \in Objects : client' = Enter(client, h, "POSITION", o) /\ ~(client.inUse >= MaxVPool)
      BY <1>6, <2>2 DEF BatchedSelect, Faults
    <2>4. client.inUse < client.slots
      BY <2>3, Fields, PoolAssumption DEF TypeOK
    <2> QED
      BY <1>0, <2>1, <2>3, <2>4, DefinePromised
  <1> QED
    BY <1>2, <1>3, <1>4, <1>5, <1>6 DEF Define

LEMMA StepPromised ==
    ASSUME IInv, IInv', [Next]_vars
    PROVE  [Promised!Next]_(Promised!vars)
  <1>0. TypeOK /\ TypeOK'
    BY DEF IInv
  <1>1. CASE UNCHANGED vars
    <2>1. phase' = phase /\ column' = column /\ client' = client
      BY <1>1 DEF vars
    <2>2. Promising' = Promising
      BY <1>1 DEF vars, Promising, Trusted
    <2>3. Seen' = Seen
      BY <2>1, <2>2 DEF Seen, Exists, Places, Bound, First, InUse
    <2> QED
      BY <2>1, <2>2, <2>3 DEF Promised!vars
  <1>2. CASE ~Promising'
    BY <1>0, <1>2, LoseStep DEF Promised!Next
  <1>3. CASE Next /\ Promising'
    <2>1. Promising /\ phase # "closed" /\ kept' /\ ordered'
      <3>1. NextKeeps
        BY <1>3, NextIs
      <3>2. phase # "closed"
        <4>1. phase' # "ended" /\ kept'
          BY <1>3 DEF Promising, Trusted
        <4> QED
          BY <3>1, <4>1 DEF NextKeeps, CommandAfterShutdown, DisconnectAfterShutdown
      <3> QED
        BY <1>3, <3>1, <3>2 DEF NextKeeps, Promising, Trusted
    <2>2. Sound /\ Sound'
      BY <1>3, <2>1 DEF IInv
    <2>3. CASE Accept \/ CopyIn \/ CopyOut \/ EndSession
      <3>1. phase # "serving" /\ phase' # "serving" /\ column' = column
        BY <2>3 DEF Accept, CopyIn, CopyOut, EndSession
      <3>2. Seen' = Seen
        BY <3>1 DEF Seen
      <3> QED
        BY <1>3, <2>1, <3>1, <3>2, HiddenStep
    <2>4. CASE BeginSession
      <3>1. Promised!Begin
        BY <1>0, <1>3, <2>1, <2>2, <2>4, BeginPromised
      <3> QED
        BY <2>1, <3>1 DEF Promised!Next
    <2>5. CASE Disconnect
      <3>1. Promised!End
        BY <1>3, <2>1, <2>5, EndPromised
      <3> QED
        BY <2>1, <3>1 DEF Promised!Next
    <2>6. ~Shutdown /\ ~CommandAfterShutdown /\ ~DisconnectAfterShutdown
      BY <1>3, <2>1 DEF Shutdown, CommandAfterShutdown, DisconnectAfterShutdown, Promising
    <2>7. CASE CreateDb
      <3>1. phase' = phase /\ client' = client
        BY <2>7 DEF CreateDb, session
      <3>2. kept' = (kept /\ ~dbOpen)
        BY <2>7 DEF CreateDb
      <3>3. \A c \in Columns : column[c] = Null
        BY <2>1, <2>2, <3>2 DEF Sound, ColumnsOwned
      <3>4. column \in [Columns -> Objects \cup {Null}]
        BY <1>0 DEF TypeOK
      <3>5. column' = column
        BY <2>7, <3>3, <3>4 DEF CreateDb
      <3>6. Seen' = Seen
        BY <1>3, <2>1, <3>1, SeenKept
      <3> QED
        BY <1>3, <2>1, <3>1, <3>5, <3>6, HiddenStep
    <2>8. ASSUME NEW c \in Columns, CreateColumn(c)
          PROVE  Promised!Next
      <3>1. Promised!Declare(c)
        BY <1>0, <1>3, <2>1, <2>2, <2>8, DeclarePromised
      <3> QED
        BY <2>1, <3>1 DEF Promised!Next
    <2>9. CASE Define
      <3>1. \/ \E h \in Handles : Promised!Define(h)
            \/ \E g, h \in Handles : g # h /\ Promised!DefineTwo(g, h)
        BY <1>0, <1>3, <2>1, <2>2, <2>9, DefineRefines
      <3> QED
        BY <2>1, <3>1 DEF Promised!Next
    <2>10. CASE (\E n \in Names : Read(n)) \/ BatchQueries \/ BatchExecute
      <3>1. phase' = phase /\ column' = column
        BY <2>10 DEF Read, BatchQueries, BatchExecute, session
      <3>2. client' = client
        BY <2>10 DEF Read, BatchQueries, BatchExecute, Faults
      <3>3. Seen' = Seen
        BY <1>3, <2>1, <3>1, <3>2, SeenKept
      <3> QED
        BY <1>3, <2>1, <3>1, <3>3, HiddenStep
    <2> QED
      BY <1>3, <2>3, <2>4, <2>5, <2>6, <2>7, <2>8, <2>9, <2>10 DEF Next
  <1> QED
    BY <1>1, <1>2, <1>3

\* To a client that keeps the rules, the two tables, their copies and the
\* objects behind them are the environment of names that it was promised.
THEOREM Refinement == Spec => ImplementsEnvironment
  <1>1. IInv /\ IInv' /\ [Next]_vars => [Promised!Next]_(Promised!vars)
    BY StepPromised
  <1> QED
    BY InitPromised, <1>1, Invariance, PTL DEF Spec, ImplementsEnvironment, Promised!Spec
-------------------------------------------------------------------------------
(* What is handed from one client to the next.  The tables may have gaps    *)
(* from earlier sessions, so nothing here asks for ordered.                *)

InSession == phase \in {"copyIn", "serving", "copyOut"}

Slots(t) == 0..(t.slots - 1)

\* An entry of kind COLUMN names a column of the database.
Named(e) == ~IsHandle(e) => e.name \in Columns /\ column[e.name] # Null

\* No column is listed twice, and no handle among the entries in use.
ListsOnce(t) ==
    \A j, k \in Slots(t) :
        ~IsHandle(t.entry[j]) /\ ~IsHandle(t.entry[k]) /\ t.entry[j].name = t.entry[k].name => j = k

HandlesOnce(t) ==
    \A j, k \in InUse(t) : t.entry[j].name \in Handles /\ t.entry[j].name = t.entry[k].name => j = k

\* Entry j of the client's table is in the same place of the server's.
Held(j) == j \in InUse(server) /\ server.entry[j] = client.entry[j]

\* It is nowhere in the server's table.
Unknown(j) == \A k \in Slots(server) : server.entry[k].name # client.entry[j].name

\* The server's table has columns and gaps, whose name is empty.
ServerNames ==
    /\ ListsOnce(server)
    /\ \A k \in Slots(server) :
          /\ Named(server.entry[k])
          /\ IsHandle(server.entry[k]) => server.entry[k].name = NoName

\* What the client has it was given, or created; what is copied back was either
\* in its place already or comes for the first time.
ClientNames ==
    InSession =>
        /\ ListsOnce(client)
        /\ HandlesOnce(client)
        /\ \A j \in Slots(client) :
              /\ Named(client.entry[j])
              /\ ~IsHandle(client.entry[j]) /\ (phase = "copyOut" => j >= i) => Held(j) \/ Unknown(j)

\* The copy in fills the client's table without a gap up to the server's first.
LeadingIn ==
    phase = "copyIn" =>
        /\ client.inUse <= i
        /\ \A j \in Slots(client) : client.entry[j].name \notin Handles
        /\ \A j \in Leading(server) : j < i => j < client.inUse /\ client.entry[j] = server.entry[j]

\* The copy back brings the client's columns up to its first handle.
LeadingOut == phase = "copyOut" => \A j \in Leading(client) : j < i => Held(j)

HandOver ==
    /\ \A c \in Columns : column[c] # Null => dbOpen
    /\ ServerNames
    /\ ClientNames
    /\ LeadingIn
    /\ LeadingOut

\* The inductive invariant, for clients that keep the rules.
HInv == TypeOK /\ (Running /\ kept => HandOver)

\* The entries before a leading one lead.
LEMMA LeadingFirst ==
    ASSUME NEW t, IsTable(t), NEW j \in Leading(t), NEW k \in 0..j
    PROVE  /\ j \in Nat /\ j < t.inUse /\ j < t.slots
           /\ k \in Leading(t) /\ ~IsHandle(t.entry[k])
  <1>1. j \in Nat /\ j < t.inUse /\ j < t.slots /\ t.inUse \in Nat /\ t.slots \in Nat
    BY Fields DEF Leading, InUse
  <1>2. k \in InUse(t) /\ k <= j
    BY <1>1 DEF InUse
  <1>3. \A l \in InUse(t) : l <= k => ~IsHandle(t.entry[l])
    <2> TAKE l \in InUse(t)
    <2>1. l <= k => l <= j
      BY <1>1 DEF InUse
    <2> QED
      BY <2>1 DEF Leading
  <1> QED
    BY <1>1, <1>2, <1>3 DEF Leading

\* A table that has the leading entries of another begins with them.
LEMMA LeadingSame ==
    ASSUME NEW s, IsTable(s), NEW t, IsTable(t),
           \A j \in Leading(s) : j < t.inUse /\ j < t.slots /\ t.entry[j] = s.entry[j]
    PROVE  BeginsWith(t, s)
  <1> SUFFICES ASSUME NEW j \in Leading(s)
               PROVE  j \in Leading(t) /\ t.entry[j] = s.entry[j]
    BY DEF BeginsWith
  <1>1. j \in Nat /\ t.slots \in Nat /\ t.inUse \in Nat
    BY Fields DEF Leading, InUse
  <1>2. j \in InUse(t) /\ t.entry[j] = s.entry[j]
    BY <1>1 DEF InUse
  <1>3. ASSUME NEW k \in InUse(t), k <= j
        PROVE  ~IsHandle(t.entry[k])
    <2>1. k \in 0..j
      BY <1>1, <1>3 DEF InUse
    <2> QED
      BY <2>1, LeadingFirst
  <1> QED
    BY <1>2, <1>3 DEF Leading

\* What entering a handle does to a table.
Marked(t, r) ==
    /\ r.slots = t.slots
    /\ \A k \in Slots(t) : IsHandle(r.entry[k]) \/ r.entry[k] = t.entry[k]
    /\ HandlesOnce(r)
    /\ BeginsWith(r, t)

ColumnsNamed(t) == \A k \in Slots(t) : ~IsHandle(t.entry[k]) => t.entry[k].name \in Columns

LEMMA EnterMarks ==
    ASSUME NEW t, IsTable(t), t.inUse < t.slots, ColumnsNamed(t), HandlesOnce(t),
           NEW h \in Handles, NEW kind \in Intermediate, NEW o \in Objects
    PROVE  Marked(t, Enter(t, h, kind, o)) /\ ColumnsNamed(Enter(t, h, kind, o))
  <1> DEFINE r == Enter(t, h, kind, o)
             P == Position(h, t)
             e == [name |-> h, kind |-> kind, obj |-> o]
  <1>1. t.slots \in Nat /\ t.inUse \in Nat /\ t.entry \in [0..(t.slots - 1) -> Entries]
    BY Fields
  <1>2. IsTable(r)
    <2>1. h \in Names /\ kind \in Kinds
      BY DEF Intermediate
    <2> QED
      BY <2>1, EnterType
  <1>3. /\ r.slots = t.slots
        /\ r.inUse = IF Exists(h, t) THEN t.inUse ELSE t.inUse + 1
        /\ r.entry = [t.entry EXCEPT ![P] = e]
    BY DEF Enter, PutAt
  <1>4. IsHandle(e) /\ e.name = h
    BY DEF IsHandle, Intermediate
  <1> HIDE DEF e, r
  <1>5. \/ P \in InUse(t) /\ t.entry[P].name = h /\ r.inUse = t.inUse
        \/ P = t.inUse /\ r.inUse = t.inUse + 1 /\ \A k \in InUse(t) : t.entry[k].name # h
    <2>1. CASE Exists(h, t)
      <3>1. PICK p \in InUse(t) : t.entry[p].name = h
        BY <2>1 DEF Exists, Places
      <3>2. Places(h, t) = {p}
        BY <3>1 DEF Places, HandlesOnce
      <3>3. p <= p
        BY <1>1, <3>1 DEF InUse
      <3>4. First(h, t) = p
        BY <3>2, <3>3 DEF First
      <3> QED
        BY <1>3, <2>1, <3>1, <3>4 DEF Position
    <2>2. CASE ~Exists(h, t)
      BY <1>3, <2>2 DEF Position, Exists, Places
    <2> QED
      BY <2>1, <2>2
  <1>6. P \in 0..(t.slots - 1) /\ P \in InUse(r) /\ InUse(r) = InUse(t) \cup {P}
    BY <1>1, <1>3, <1>5 DEF InUse
  <1>7. r.entry[P] = e /\ \A k \in 0..(t.slots - 1) : k # P => r.entry[k] = t.entry[k]
    BY <1>1, <1>3, <1>6
  <1>8. P \notin Leading(t) /\ \A j \in Leading(t) : j < P
    <2>1. CASE P \in InUse(t) /\ t.entry[P].name = h
      <3>1. IsHandle(t.entry[P])
        BY <2>1, PoolAssumption DEF ColumnsNamed, Slots, InUse
      <3>2. \A j \in Leading(t) : ~(P <= j)
        BY <2>1, <3>1 DEF Leading
      <3> QED
        BY <1>1, <1>6, <3>2 DEF Leading, InUse
    <2>2. CASE P = t.inUse
      BY <1>1, <2>2 DEF Leading, InUse
    <2> QED
      BY <1>5, <2>1, <2>2
  <1>9. BeginsWith(r, t)
    <2>1. ASSUME NEW j \in Leading(t)
          PROVE  j < r.inUse /\ j < r.slots /\ r.entry[j] = t.entry[j]
      <3>1. j \in InUse(t) /\ j # P
        BY <1>8 DEF Leading
      <3> QED
        BY <1>1, <1>3, <1>6, <1>7, <3>1 DEF InUse
    <2> QED
      BY <1>2, <2>1, LeadingSame
  <1>10. HandlesOnce(r)
    <2> SUFFICES ASSUME NEW j \in InUse(r), NEW k \in InUse(r),
                        r.entry[j].name \in Handles, r.entry[j].name = r.entry[k].name
                 PROVE  j = k
      BY DEF HandlesOnce
    <2>1. \A l \in InUse(t) : l # P => r.entry[l] = t.entry[l] /\ t.entry[l].name # h
      BY <1>5, <1>7 DEF HandlesOnce, InUse
    <2>2. CASE j = P \/ k = P
      BY <1>4, <1>6, <1>7, <2>1, <2>2
    <2>3. CASE j # P /\ k # P
      BY <1>6, <2>1, <2>3 DEF HandlesOnce
    <2> QED
      BY <2>2, <2>3
  <1> QED
    BY <1>3, <1>4, <1>7, <1>9, <1>10 DEF Marked, ColumnsNamed, Slots, r

LEMMA MarkedTwice ==
    ASSUME NEW t, NEW r, NEW s, Marked(t, r), Marked(r, s)
    PROVE  Marked(t, s)
  BY DEF Marked, BeginsWith, Slots

\* What a command that defines handles does to the client's table.
Defines ==
    /\ phase = "serving"
    /\ UNCHANGED <<dbOpen, column, server, phase, i>>
    /\ client' = client \/ Marked(client, client')

LEMMA AssignDefines ==
    ASSUME TypeOK, ColumnsNamed(client), HandlesOnce(client),
           NEW h \in Handles, NEW kind \in Intermediate, NEW ops, NEW content,
           Assign(h, kind, ops, content)
    PROVE  Defines
  <1>1. phase = "serving" /\ UNCHANGED <<dbOpen, column, server, phase, i>>
    BY DEF Assign, session
  <1>2. PICK o \in Objects :
          LET pool == Enter(client, h, kind, o)
              hp == [Cleaned({h}) EXCEPT ![o] = "raw"]
          IN  /\ Cleaned({h})[o] = "free"
              /\ IF CleanupFails({h}) THEN Faults("memory")
                 ELSE IF client.inUse >= MaxVPool THEN Faults("abort")
                 ELSE IF \E n \in ops : ~Usable(Bound(n, pool), hp) THEN Faults("memory")
                 ELSE /\ client' = pool
                      /\ heap' = [hp EXCEPT ![o] = content]
                      /\ UNCHANGED fault
    BY DEF Assign
  <1>3. \/ client' = client
        \/ ~(client.inUse >= MaxVPool) /\ client' = Enter(client, h, kind, o)
    BY <1>2 DEF Faults
  <1>4. IsTable(client) /\ (~(client.inUse >= MaxVPool) => client.inUse < client.slots)
    BY Fields, PoolAssumption DEF TypeOK
  <1> QED
    BY <1>1, <1>3, <1>4, EnterMarks DEF Defines

LEMMA BatchedDefines ==
    ASSUME TypeOK, ColumnsNamed(client), HandlesOnce(client),
           NEW h \in Handles, NEW c, BatchedSelect(h, c)
    PROVE  Defines
  <1>1. phase = "serving" /\ UNCHANGED <<dbOpen, column, server, phase, i>>
    BY DEF BatchedSelect, session
  <1>2. PICK o \in Objects :
          /\ Cleaned({h})[o] = "free"
          /\ IF CleanupFails({h}) THEN Faults("memory")
             ELSE IF client.inUse >= MaxVPool THEN Faults("abort")
             ELSE IF ~Usable(Bound(c, client), heap) THEN Faults("memory")
             ELSE /\ client' = Enter(client, h, "POSITION", o)
                  /\ heap' = [Cleaned({h}) EXCEPT ![o] = "raw"]
                  /\ UNCHANGED fault
    BY DEF BatchedSelect
  <1>3. \/ client' = client
        \/ ~(client.inUse >= MaxVPool) /\ client' = Enter(client, h, "POSITION", o)
    BY <1>2 DEF Faults
  <1>4. /\ IsTable(client) /\ "POSITION" \in Intermediate
        /\ ~(client.inUse >= MaxVPool) => client.inUse < client.slots
    BY Fields, PoolAssumption DEF TypeOK, Intermediate
  <1> QED
    BY <1>1, <1>3, <1>4, EnterMarks DEF Defines

LEMMA JoinDefines ==
    ASSUME TypeOK, ColumnsNamed(client), HandlesOnce(client),
           NEW g \in Handles, NEW h \in Handles, NEW v1, NEW s1, NEW v2, NEW s2,
           Join(g, h, v1, s1, v2, s2)
    PROVE  Defines
  <1> DEFINE ops == {v1, s1, v2, s2}
             clean == Cleaned({g, h})
  <1>1. phase = "serving" /\ UNCHANGED <<dbOpen, column, server, phase, i>>
    BY DEF Join, session
  <1>2. PICK o \in Objects, p \in Objects :
            IF \/ CleanupFails({g, h})
               \/ g = h /\ Exists(g, client)
               \/ \E n \in ops : ~Usable(Bound(n, client), clean)
            THEN Faults("memory")
            ELSE LET pool == Enter(client, g, "POSITION", o)
                 IN  IF client.inUse >= MaxVPool \/ pool.inUse >= MaxVPool
                     THEN Faults("abort")
                     ELSE /\ client' = Enter(pool, h, "POSITION", p)
                          /\ heap' = [clean EXCEPT ![o] = "full", ![p] = "full"]
                          /\ UNCHANGED fault
    BY DEF Join
  <1> DEFINE pool == Enter(client, g, "POSITION", o)
  <1>3. \/ client' = client
        \/ ~(client.inUse >= MaxVPool) /\ ~(pool.inUse >= MaxVPool)
           /\ client' = Enter(pool, h, "POSITION", p)
    BY <1>2 DEF Faults
  <1> SUFFICES ASSUME client' # client
               PROVE  Marked(client, client')
    BY <1>1 DEF Defines
  <1>4. IsTable(client) /\ client.inUse < client.slots /\ "POSITION" \in Intermediate
    BY <1>3, Fields, PoolAssumption DEF TypeOK, Intermediate
  <1>5. Marked(client, pool) /\ ColumnsNamed(pool)
    BY <1>4, EnterMarks
  <1>6. IsTable(pool) /\ pool.slots = client.slots
    BY <1>4, EnterType DEF Intermediate
  <1> HIDE DEF pool
  <1>7. pool.inUse < pool.slots
    BY <1>3, <1>6, Fields, PoolAssumption DEF TypeOK
  <1>8. Marked(pool, client')
    BY <1>3, <1>4, <1>5, <1>6, <1>7, EnterMarks DEF Marked
  <1> QED
    BY <1>5, <1>8, MarkedTwice

LEMMA DefineDefines ==
    ASSUME TypeOK, ColumnsNamed(client), HandlesOnce(client), Define
    PROVE  Defines
  <1>1. {"POSITION", "RESULT", "SCALAR"} \subseteq Intermediate
    BY DEF Intermediate
  <1>2. ASSUME NEW h \in Handles, NEW c \in Names, Select(h, c) \/ ScalarOp(h, c)
        PROVE  Defines
    BY <1>1, <1>2, AssignDefines DEF Select, ScalarOp
  <1>3. ASSUME NEW h \in Handles, NEW p \in Names, NEW c \in Names,
               SelectFrom(h, p, c) \/ Fetch(h, c, p)
        PROVE  Defines
    BY <1>1, <1>3, AssignDefines DEF SelectFrom, Fetch
  <1>4. ASSUME NEW h \in Handles, NEW c \in Names, NEW d \in Names, ArithmeticOp(h, c, d)
        PROVE  Defines
    BY <1>1, <1>4, AssignDefines DEF ArithmeticOp
  <1> QED
    BY <1>2, <1>3, <1>4, JoinDefines, BatchedDefines DEF Define

\* A command that defines handles brings the client no column.
LEMMA DefinesHands ==
    ASSUME TypeOK, HandOver, Defines
    PROVE  HandOver'
  <1>1. phase = "serving" /\ dbOpen' = dbOpen /\ column' = column /\ server' = server
        /\ phase' = phase /\ i' = i
    BY DEF Defines
  <1>2. (\A c \in Columns : column'[c] # Null => dbOpen') /\ ServerNames'
    BY <1>1 DEF HandOver, ServerNames, ListsOnce, Slots, Named
  <1>3. LeadingIn' /\ LeadingOut'
    BY <1>1 DEF LeadingIn, LeadingOut
  <1>4. ClientNames'
    <2>1. CASE client' = client
      BY <1>1, <2>1 DEF HandOver, ClientNames, InSession, ListsOnce, HandlesOnce, Slots, InUse, Named,
         Held, Unknown
    <2>2. CASE Marked(client, client')
      <3>1. /\ client'.slots = client.slots
            /\ \A k \in Slots(client) : IsHandle(client'.entry[k]) \/ client'.entry[k] = client.entry[k]
            /\ HandlesOnce(client')
        BY <2>2 DEF Marked
      <3>2. ListsOnce(client')
        BY <1>1, <3>1 DEF HandOver, ClientNames, InSession, ListsOnce, Slots
      <3>3. \A j \in Slots(client) :
                /\ ~IsHandle(client'.entry[j]) => client'.entry[j].name \in Columns /\ column[client'.entry[j].name] # Null
                /\ ~IsHandle(client'.entry[j]) =>
                       \/ j \in InUse(server) /\ server.entry[j] = client'.entry[j]
                       \/ \A k \in Slots(server) : server.entry[k].name # client'.entry[j].name
        BY <1>1, <3>1 DEF HandOver, ClientNames, InSession, Named, Held, Unknown
      <3> QED
        BY <1>1, <3>1, <3>2, <3>3
           DEF ClientNames, Slots, Named, Held, Unknown, ListsOnce, HandlesOnce, InUse
    <2> QED
      BY <2>1, <2>2 DEF Defines
  <1> QED
    BY <1>2, <1>3, <1>4 DEF HandOver

\* Nothing that a hand over needs changes.
LEMMA QuietHands ==
    ASSUME HandOver, phase' = phase, UNCHANGED <<dbOpen, column, client, server, i>>
    PROVE  HandOver'
  BY DEF HandOver, ServerNames, ClientNames, LeadingIn, LeadingOut, InSession, ListsOnce, HandlesOnce,
     Slots, Named, InUse, IsHandle, Leading, Held, Unknown

LEMMA InitHands == Init => HandOver
  <1> SUFFICES ASSUME Init PROVE HandOver
    OBVIOUS
  <1>1. PICK n \in 0..MaxBaseCol : \E listed \in [0..(n - 1) -> Columns], obj \in [0..(n - 1) -> Objects] :
          /\ Injective(listed)
          /\ Injective(obj)
          /\ column = [c \in Columns |->
                IF \E j \in 0..(n - 1) : listed[j] = c
                THEN obj[CHOOSE j \in 0..(n - 1) : listed[j] = c] ELSE Null]
          /\ server = [slots |-> MaxBaseCol, inUse |-> n,
                entry |-> [j \in 0..(MaxBaseCol - 1) |->
                    IF j < n THEN [name |-> listed[j], kind |-> "COLUMN", obj |-> obj[j]]
                    ELSE Vacant]]
    BY DEF Init
  <1>2. PICK listed \in [0..(n - 1) -> Columns], obj \in [0..(n - 1) -> Objects] :
          /\ Injective(listed)
          /\ column = [c \in Columns |->
                IF \E j \in 0..(n - 1) : listed[j] = c
                THEN obj[CHOOSE j \in 0..(n - 1) : listed[j] = c] ELSE Null]
          /\ server = [slots |-> MaxBaseCol, inUse |-> n,
                entry |-> [j \in 0..(MaxBaseCol - 1) |->
                    IF j < n THEN [name |-> listed[j], kind |-> "COLUMN", obj |-> obj[j]]
                    ELSE Vacant]]
    BY <1>1
  <1>3. phase = "idle" /\ \A c \in Columns : column[c] # Null => dbOpen
    BY DEF Init
  <1>4. Slots(server) = 0..(MaxBaseCol - 1)
    BY <1>2 DEF Slots
  <1>5. \A k \in 0..(MaxBaseCol - 1) : k < n => k \in 0..(n - 1)
    BY PoolAssumption
  <1>6. \A k \in 0..(MaxBaseCol - 1) :
            IF k < n THEN server.entry[k] = [name |-> listed[k], kind |-> "COLUMN", obj |-> obj[k]]
            ELSE server.entry[k] = Vacant
    BY <1>2
  <1>7. ListsOnce(server)
    <2> SUFFICES ASSUME NEW j \in 0..(MaxBaseCol - 1), NEW k \in 0..(MaxBaseCol - 1),
                        ~IsHandle(server.entry[j]), ~IsHandle(server.entry[k]),
                        server.entry[j].name = server.entry[k].name
                 PROVE  j = k
      BY <1>4 DEF ListsOnce
    <2>1. IsHandle(Vacant)
      BY DEF IsHandle, Vacant
    <2>2. j < n /\ k < n
      BY <1>6, <2>1
    <2>3. j \in 0..(n - 1) /\ k \in 0..(n - 1)
      BY <1>5, <2>2
    <2>4. /\ server.entry[j] = [name |-> listed[j], kind |-> "COLUMN", obj |-> obj[j]]
          /\ server.entry[k] = [name |-> listed[k], kind |-> "COLUMN", obj |-> obj[k]]
      BY <1>6, <2>2
    <2>5. listed[j] = listed[k]
      BY <2>4
    <2> QED
      BY <1>2, <2>3, <2>5 DEF Injective
  <1>8. ASSUME NEW k \in 0..(MaxBaseCol - 1)
        PROVE  /\ Named(server.entry[k])
               /\ IsHandle(server.entry[k]) => server.entry[k].name = NoName
    <2>1. CASE k < n
      <3>1. server.entry[k] = [name |-> listed[k], kind |-> "COLUMN", obj |-> obj[k]]
        BY <1>6, <2>1
      <3>2. k \in 0..(n - 1)
        BY <1>5, <2>1
      <3>3. column[listed[k]] = obj[CHOOSE j \in 0..(n - 1) : listed[j] = listed[k]]
        BY <1>2, <3>2
      <3>4. column[listed[k]] \in Objects
        BY <3>2, <3>3
      <3> QED
        BY <3>1, <3>2, <3>4, PoolAssumption DEF Named, IsHandle
    <2>2. CASE ~(k < n)
      <3>1. server.entry[k] = Vacant
        BY <1>6, <2>2
      <3> QED
        BY <3>1 DEF Vacant, Named, IsHandle
    <2> QED
      BY <2>1, <2>2
  <1>9. ServerNames
    BY <1>4, <1>7, <1>8 DEF ServerNames
  <1> QED
    BY <1>3, <1>9 DEF HandOver, ClientNames, LeadingIn, LeadingOut, InSession

LEMMA AcceptHands ==
    ASSUME TypeOK, HandOver, Accept
    PROVE  HandOver'
  <1>1. /\ phase' = "copyIn" /\ i' = 0 /\ client' = NewTable(MaxVPool)
        /\ UNCHANGED <<dbOpen, column, server>>
    BY DEF Accept
  <1>2. /\ client'.slots = MaxVPool /\ client'.inUse = 0
        /\ \A k \in 0..(MaxVPool - 1) : client'.entry[k] = Vacant
    BY <1>1 DEF NewTable
  <1>3. (\A c \in Columns : column'[c] # Null => dbOpen') /\ ServerNames'
    BY <1>1 DEF HandOver, ServerNames, ListsOnce, Slots, Named
  <1>4. InUse(client') = {}
    BY <1>2, PoolAssumption DEF InUse
  <1>5. /\ IsHandle(Vacant) /\ Vacant.name \notin Handles
        /\ Slots(client') = 0..(MaxVPool - 1)
    BY <1>2, PoolAssumption DEF IsHandle, Vacant, Slots
  <1>6. ClientNames'
    BY <1>2, <1>4, <1>5 DEF ClientNames, ListsOnce, HandlesOnce, Slots, Named
  <1>7. LeadingIn'
    <2>1. \A j \in Leading(server) : ~(j < 0)
      BY Fields DEF Leading, InUse, TypeOK
    <2> QED
      BY <1>1, <1>2, <1>5, <2>1 DEF LeadingIn
  <1>8. LeadingOut'
    BY <1>1 DEF LeadingOut
  <1> QED
    BY <1>3, <1>6, <1>7, <1>8 DEF HandOver

\* The copy in meets every leading entry with the client's table full up to
\* there, and without its name.
LEMMA CopyInHands ==
    ASSUME TypeOK, TypeOK', HandOver, CopyIn, Running'
    PROVE  HandOver'
  <1> DEFINE e == server.entry[i]
  <1>0. IsTable(server) /\ IsTable(client) /\ i \in Nat /\ phase = "copyIn" /\ phase' = "copyIn"
        /\ i' = i + 1 /\ i < server.inUse /\ UNCHANGED <<dbOpen, column, server>>
    BY DEF TypeOK, CopyIn
  <1>1. /\ server.slots \in Nat /\ server.inUse \in Nat /\ client.slots \in Nat /\ client.inUse \in Nat
        /\ client.inUse <= i
    BY <1>0, Fields DEF HandOver, LeadingIn
  <1>2. (\A c \in Columns : column'[c] # Null => dbOpen') /\ ServerNames' /\ LeadingOut'
    BY <1>0 DEF HandOver, ServerNames, ListsOnce, Slots, Named, LeadingOut
  <1>3. ~(i >= server.slots)
        /\ \/ client' = client /\ (IsHandle(e) \/ Exists(e.name, client))
           \/ ~(i >= client.slots) /\ ~IsHandle(e) /\ client' = Copied(client, i, e)
    BY DEF CopyIn, CopyEntry
  <1>4. i \in Slots(server) /\ i \in InUse(server) /\ ListsOnce(server) /\ Named(e)
    BY <1>0, <1>1, <1>3 DEF HandOver, ServerNames, Slots, InUse
  <1>5. \A j \in Leading(server) : j < i => j < client.inUse /\ client.entry[j] = server.entry[j]
    BY <1>0 DEF HandOver, LeadingIn
  <1>6. /\ ListsOnce(client) /\ HandlesOnce(client)
        /\ \A k \in Slots(client) : /\ Named(client.entry[k]) /\ client.entry[k].name \notin Handles
                                    /\ ~IsHandle(client.entry[k]) => Held(k) \/ Unknown(k)
    BY <1>0 DEF HandOver, ClientNames, LeadingIn, InSession
  <1> HIDE DEF e
  <1>7. CASE client' = client /\ (IsHandle(e) \/ Exists(e.name, client))
    <2>1. ClientNames'
      BY <1>0, <1>6, <1>7 DEF ClientNames, ListsOnce, HandlesOnce, Slots, InUse, Named, Held, Unknown
    <2>2. ASSUME i \in Leading(server)
          PROVE  FALSE
      <3>1. i \in 0..i /\ ~IsHandle(e)
        BY <1>0, <2>2, LeadingFirst DEF e
      <3>2. PICK k \in InUse(client) : client.entry[k].name = e.name
        BY <1>7, <3>1 DEF Exists, Places
      <3>3. k \in 0..i /\ k < i
        BY <1>0, <1>1, <3>2 DEF InUse
      <3>4. k \in Leading(server) /\ ~IsHandle(server.entry[k])
        BY <1>0, <2>2, <3>3, LeadingFirst
      <3>5. server.entry[k].name = e.name
        BY <1>5, <3>2, <3>3, <3>4
      <3>6. k \in Slots(server)
        BY <3>4 DEF Leading, InUse, Slots
      <3>7. k = i
        BY <1>4, <3>1, <3>4, <3>5, <3>6 DEF ListsOnce, e
      <3> QED
        BY <1>0, <3>3, <3>7
    <2>3. LeadingIn'
      <3>1. ASSUME NEW j \in Leading(server), j < i + 1
            PROVE  j < client.inUse /\ client.entry[j] = server.entry[j]
        <4>1. j # i /\ j \in Nat
          BY <2>2 DEF Leading, InUse
        <4>2. j < i
          BY <1>0, <3>1, <4>1
        <4> QED
          BY <1>5, <4>2
      <3>2. client.inUse <= i + 1
        BY <1>0, <1>1
      <3> QED
        BY <1>0, <1>6, <1>7, <3>1, <3>2 DEF LeadingIn, Slots
    <2> QED
      BY <1>2, <2>1, <2>3 DEF HandOver
  <1>8. CASE ~(i >= client.slots) /\ ~IsHandle(e) /\ client' = Copied(client, i, e)
    <2>1. i \in 0..(client.slots - 1) /\ i \in Slots(client)
      BY <1>0, <1>1, <1>8 DEF Slots
    <2>2. /\ client'.slots = client.slots /\ client'.inUse = client.inUse + 1 /\ client'.entry[i] = e
          /\ \A k \in 0..(client.slots - 1) : k # i => client'.entry[k] = client.entry[k]
      BY <1>0, <1>8, <2>1, CopiedIs
    <2>3. Slots(client') = Slots(client) /\ \A k \in Slots(client) : k # i => client'.entry[k] = client.entry[k]
      BY <2>2 DEF Slots
    <2>4. \A k \in Slots(client) : k # i /\ ~IsHandle(client.entry[k]) => client.entry[k].name # e.name
      <3> SUFFICES ASSUME NEW k \in Slots(client), k # i, ~IsHandle(client.entry[k]),
                          client.entry[k].name = e.name
                   PROVE  FALSE
        OBVIOUS
      <3>1. Held(k)
        BY <1>4, <1>6 DEF Unknown, e
      <3>2. k \in Slots(server) /\ server.entry[k] = client.entry[k]
        BY <3>1 DEF Held, InUse, Slots
      <3> QED
        BY <1>4, <1>8, <3>2 DEF ListsOnce, e
    <2>5. ListsOnce(client')
      <3> SUFFICES ASSUME NEW j \in Slots(client), NEW k \in Slots(client), j # k,
                          ~IsHandle(client'.entry[j]), ~IsHandle(client'.entry[k])
                   PROVE  client'.entry[j].name # client'.entry[k].name
        BY <2>3 DEF ListsOnce
      <3>1. CASE j = i
        BY <2>2, <2>3, <2>4, <3>1
      <3>2. CASE k = i
        BY <2>2, <2>3, <2>4, <3>2
      <3>3. CASE j # i /\ k # i
        BY <1>6, <2>3, <3>3 DEF ListsOnce
      <3> QED
        BY <3>1, <3>2, <3>3
    <2>6. \A k \in Slots(client) : client'.entry[k].name \notin Handles
      BY <1>4, <1>6, <1>8, <2>2, <2>3, PoolAssumption DEF Named
    <2>7. HandlesOnce(client')
      BY <2>3, <2>6 DEF HandlesOnce, InUse, Slots
    <2>8. ASSUME NEW k \in Slots(client)
          PROVE  /\ ~IsHandle(client'.entry[k]) =>
                        client'.entry[k].name \in Columns /\ column[client'.entry[k].name] # Null
                 /\ ~IsHandle(client'.entry[k]) =>
                        \/ k \in InUse(server) /\ server.entry[k] = client'.entry[k]
                        \/ \A l \in Slots(server) : server.entry[l].name # client'.entry[k].name
      <3>1. CASE k = i
        BY <1>4, <1>8, <2>2, <3>1 DEF Named, e
      <3>2. CASE k # i
        BY <1>6, <2>3, <3>2 DEF Named, Held, Unknown
      <3> QED
        BY <3>1, <3>2
    <2>9. ClientNames'
      BY <1>0, <2>3, <2>5, <2>7, <2>8 DEF ClientNames, Named, Held, Unknown, Slots
    <2>10. LeadingIn'
      <3>1. ASSUME NEW j \in Leading(server), j < i + 1
            PROVE  j < client.inUse + 1 /\ client'.entry[j] = server.entry[j]
        <4>0. j \in Nat
          BY DEF Leading, InUse
        <4>1. CASE j = i
          <5>1. CASE i = 0
            BY <1>1, <2>2, <4>1, <5>1 DEF e
          <5>2. CASE i # 0
            <6>1. i - 1 \in 0..i /\ i - 1 < i
              BY <1>0, <5>2
            <6>2. i - 1 \in Leading(server)
              BY <1>0, <4>1, <6>1, LeadingFirst
            <6>3. i - 1 < client.inUse
              BY <1>5, <6>1, <6>2
            <6> QED
              BY <1>0, <1>1, <2>2, <4>1, <6>3 DEF e
          <5> QED
            BY <5>1, <5>2
        <4>2. CASE j # i
          <5>1. j < i
            BY <1>0, <3>1, <4>0, <4>2
          <5>2. j < client.inUse /\ client.entry[j] = server.entry[j]
            BY <1>5, <5>1
          <5>3. j \in 0..(client.slots - 1)
            BY <1>0, <1>1, <2>1, <4>0, <5>1
          <5> QED
            BY <1>1, <2>2, <4>0, <4>2, <5>2, <5>3
        <4> QED
          BY <4>1, <4>2
      <3>2. client'.inUse <= i'
        BY <1>0, <1>1, <2>2
      <3> QED
        BY <1>0, <2>2, <2>3, <2>6, <3>1, <3>2 DEF LeadingIn
    <2> QED
      BY <1>2, <2>9, <2>10 DEF HandOver
  <1> QED
    BY <1>3, <1>7, <1>8

\* The copy back meets every leading entry with the server's table full up to
\* there: it is in its place, or comes for the first time.
LEMMA CopyOutHands ==
    ASSUME TypeOK, TypeOK', HandOver, CopyOut, Running'
    PROVE  HandOver'
  <1> DEFINE e == client.entry[i]
  <1>0. IsTable(server) /\ IsTable(client) /\ i \in Nat /\ phase = "copyOut" /\ phase' = "copyOut"
        /\ i' = i + 1 /\ i < client.inUse /\ UNCHANGED <<dbOpen, column, client>>
    BY DEF TypeOK, CopyOut
  <1>1. /\ server.slots \in Nat /\ server.inUse \in Nat /\ client.slots \in Nat /\ client.inUse \in Nat
    BY <1>0, Fields
  <1>2. (\A c \in Columns : column'[c] # Null => dbOpen') /\ LeadingIn'
    BY <1>0 DEF HandOver, LeadingIn
  <1>3. ~(i >= client.slots)
        /\ \/ server' = server /\ (IsHandle(e) \/ Exists(e.name, server))
           \/ ~(i >= server.slots) /\ ~IsHandle(e) /\ server' = Copied(server, i, e)
              /\ ~Exists(e.name, server)
    BY DEF CopyOut, CopyEntry
  <1>4. i \in Slots(client) /\ i >= i
    BY <1>0, <1>1, <1>3 DEF Slots
  <1>5. /\ ListsOnce(client) /\ HandlesOnce(client)
        /\ \A j \in Slots(client) : /\ Named(client.entry[j])
                                    /\ ~IsHandle(client.entry[j]) /\ j >= i => (Held(j) \/ Unknown(j))
    BY <1>0 DEF HandOver, ClientNames, InSession
  <1>6. \A j \in Leading(client) : j < i => Held(j)
    BY <1>0 DEF HandOver, LeadingOut
  <1>7. ServerNames
    BY DEF HandOver
  <1>8. \A j \in Leading(client) : j \in Nat /\ j \in Slots(client) /\ ~IsHandle(client.entry[j])
    <2> TAKE j \in Leading(client)
    <2>1. j \in InUse(client) /\ j \in Nat /\ j <= j
      BY DEF Leading, InUse
    <2> QED
      BY <2>1 DEF Leading, InUse, Slots
  <1>9. \A j \in Slots(client) : j \in Nat /\ (j >= i + 1 => j >= i /\ j # i)
    BY <1>0, <1>1 DEF Slots
  <1> HIDE DEF e
  <1>10. CASE server' = server /\ (IsHandle(e) \/ Exists(e.name, server))
    <2>1. ServerNames'
      BY <1>0, <1>7, <1>10 DEF ServerNames, ListsOnce, Slots, Named
    <2>2. ClientNames'
      BY <1>0, <1>5, <1>9, <1>10
         DEF ClientNames, ListsOnce, HandlesOnce, Slots, InUse, Named, Held, Unknown
    <2>3. ASSUME i \in Leading(client)
          PROVE  Held(i)
      <3>1. ~IsHandle(e)
        BY <1>8, <2>3 DEF e
      <3>2. ~Unknown(i)
        BY <1>10, <3>1 DEF Unknown, Exists, Places, InUse, Slots, e
      <3> QED
        BY <1>4, <1>5, <3>1, <3>2 DEF e
    <2>4. \A j \in Leading(client) : j < i + 1 => Held(j)
      <3> SUFFICES ASSUME NEW j \in Leading(client), j < i + 1
                   PROVE  Held(j)
        OBVIOUS
      <3>1. j = i \/ j < i
        BY <1>0, <1>8
      <3> QED
        BY <1>6, <2>3, <3>1
    <2>5. LeadingOut'
      BY <1>0, <1>10, <2>4 DEF LeadingOut, Leading, InUse, Held
    <2> QED
      BY <1>2, <2>1, <2>2, <2>5 DEF HandOver
  <1>11. CASE ~(i >= server.slots) /\ ~IsHandle(e) /\ server' = Copied(server, i, e)
             /\ ~Exists(e.name, server)
    <2>1. i \in 0..(server.slots - 1) /\ i \in Slots(server)
      BY <1>0, <1>1, <1>11 DEF Slots
    <2>2. /\ server'.slots = server.slots /\ server'.inUse = server.inUse + 1 /\ server'.entry[i] = e
          /\ \A k \in 0..(server.slots - 1) : k # i => server'.entry[k] = server.entry[k]
      BY <1>0, <1>11, <2>1, CopiedIs
    <2>3. Slots(server') = Slots(server) /\ \A k \in Slots(server) : k # i => server'.entry[k] = server.entry[k]
      BY <2>2 DEF Slots
    <2>4. Unknown(i)
      <3>1. ~Held(i)
        BY <1>11 DEF Held, Exists, Places, e
      <3> QED
        BY <1>4, <1>5, <1>11, <3>1 DEF e
    <2>5. \A k \in Slots(server) : server.entry[k].name # e.name
      BY <2>4 DEF Unknown, e
    <2>6. Named(e)
      BY <1>4, <1>5 DEF e
    <2>7. ListsOnce(server')
      <3> SUFFICES ASSUME NEW j \in Slots(server), NEW k \in Slots(server), j # k,
                          ~IsHandle(server'.entry[j]), ~IsHandle(server'.entry[k])
                   PROVE  server'.entry[j].name # server'.entry[k].name
        BY <2>3 DEF ListsOnce
      <3>1. CASE j = i
        BY <2>2, <2>3, <2>5, <3>1
      <3>2. CASE k = i
        BY <2>2, <2>3, <2>5, <3>2
      <3>3. CASE j # i /\ k # i
        BY <1>7, <2>3, <3>3 DEF ServerNames, ListsOnce
      <3> QED
        BY <3>1, <3>2, <3>3
    <2>8. ServerNames'
      <3>1. ASSUME NEW k \in Slots(server)
            PROVE  /\ ~IsHandle(server'.entry[k]) =>
                          server'.entry[k].name \in Columns /\ column[server'.entry[k].name] # Null
                   /\ IsHandle(server'.entry[k]) => server'.entry[k].name = NoName
        <4>1. CASE k = i
          BY <1>11, <2>2, <2>6, <4>1 DEF Named
        <4>2. CASE k # i
          BY <1>7, <2>3, <4>2 DEF ServerNames, Named
        <4> QED
          BY <4>1, <4>2
      <3> QED
        BY <1>0, <2>3, <2>7, <3>1 DEF ServerNames, Named
    <2>9. ASSUME NEW j \in Slots(client), j # i, Held(j)
          PROVE  j \in InUse(server') /\ server'.entry[j] = client.entry[j]
      <3>1. j \in InUse(server) /\ j \in Slots(server) /\ server.entry[j] = client.entry[j]
        BY <2>9 DEF Held, InUse, Slots
      <3>2. j \in InUse(server')
        BY <1>1, <2>2, <3>1 DEF InUse
      <3> QED
        BY <2>3, <2>9, <3>1, <3>2
    <2>10. ASSUME NEW j \in Slots(client), j # i, ~IsHandle(client.entry[j]), Unknown(j)
           PROVE  \A k \in Slots(server) : server'.entry[k].name # client.entry[j].name
      <3>1. client.entry[j].name # e.name
        BY <1>4, <1>5, <1>11, <2>10 DEF ListsOnce, e
      <3> QED
        BY <2>2, <2>3, <2>10, <3>1 DEF Unknown
    <2>11. \A j \in Slots(client) : ~IsHandle(client.entry[j]) /\ j >= i + 1 =>
                (\/ j \in InUse(server') /\ server'.entry[j] = client.entry[j]
                 \/ \A k \in Slots(server) : server'.entry[k].name # client.entry[j].name)
      BY <1>5, <1>9, <2>9, <2>10
    <2>12. ClientNames'
      BY <1>0, <1>5, <2>3, <2>11
         DEF ClientNames, ListsOnce, HandlesOnce, Slots, InUse, Named, Held, Unknown
    <2>13. ASSUME i \in Leading(client)
           PROVE  i \in InUse(server') /\ server'.entry[i] = client.entry[i]
      <3>1. i < server.inUse + 1
        <4>1. CASE i = 0
          BY <1>1, <4>1
        <4>2. CASE i # 0
          <5>1. i - 1 \in 0..i /\ i - 1 < i
            BY <1>0, <4>2
          <5>2. i - 1 \in Leading(client)
            BY <1>0, <2>13, <5>1, LeadingFirst
          <5>3. i - 1 < server.inUse
            BY <1>6, <5>1, <5>2 DEF Held, InUse
          <5> QED
            BY <1>0, <1>1, <5>3
        <4> QED
          BY <4>1, <4>2
      <3> QED
        BY <2>1, <2>2, <3>1 DEF InUse, e
    <2>14. \A j \in Leading(client) : j < i + 1 => j \in InUse(server') /\ server'.entry[j] = client.entry[j]
      <3> SUFFICES ASSUME NEW j \in Leading(client), j < i + 1
                   PROVE  j \in InUse(server') /\ server'.entry[j] = client.entry[j]
        OBVIOUS
      <3>1. j = i \/ (j < i /\ j # i)
        BY <1>0, <1>8
      <3> QED
        BY <1>6, <1>8, <2>9, <2>13, <3>1
    <2>15. LeadingOut'
      BY <1>0, <2>14 DEF LeadingOut, Leading, InUse, Held
    <2> QED
      BY <1>2, <2>8, <2>12, <2>15 DEF HandOver
  <1> QED
    BY <1>3, <1>10, <1>11

LEMMA CreateDbHands ==
    ASSUME TypeOK, HandOver, CreateDb, kept'
    PROVE  HandOver'
  <1>1. kept' = (kept /\ ~dbOpen)
    BY DEF CreateDb
  <1>2. ~dbOpen
    BY <1>1
  <1>3. \A c \in Columns : column[c] = Null
    BY <1>2 DEF HandOver
  <1>4. column' = column /\ dbOpen' = TRUE /\ UNCHANGED <<client, server, phase, i>>
    BY <1>3 DEF CreateDb, session, TypeOK
  <1> QED
    BY <1>4 DEF HandOver, ServerNames, ClientNames, LeadingIn, LeadingOut, InSession, ListsOnce,
        HandlesOnce, Slots, Named, InUse, IsHandle, Leading, Held, Unknown

\* Where a column is entered: behind the table, which has a slot.
LEMMA CreateColumnIs ==
    ASSUME TypeOK, NEW c \in Columns, CreateColumn(c), kept'
    PROVE  /\ dbOpen /\ column[c] = Null
           /\ phase = "serving" /\ UNCHANGED <<dbOpen, server, phase, i>>
           /\ client.inUse \in 0..(client.slots - 1)
           /\ \E o \in Objects :
                 /\ column' = [column EXCEPT ![c] = o]
                 /\ client'.slots = client.slots
                 /\ client'.inUse = client.inUse + 1
                 /\ client'.entry =
                        [client.entry EXCEPT ![client.inUse] = [name |-> c, kind |-> "COLUMN", obj |-> o]]
  <1>1. kept' = (kept /\ dbOpen /\ column[c] = Null /\ client.inUse < MaxBaseCol)
    BY DEF CreateColumn
  <1>2. dbOpen /\ column[c] = Null /\ client.inUse < MaxBaseCol
    BY <1>1
  <1>3. PICK o \in Objects :
          /\ column' = [column EXCEPT ![c] = o]
          /\ client' = Append(client, c, o)
    BY <1>2 DEF CreateColumn
  <1>4. phase = "serving" /\ UNCHANGED <<dbOpen, server, phase, i>>
    BY DEF CreateColumn, session
  <1>5. client.inUse \in 0..(client.slots - 1) /\ client.slots # client.inUse
    BY <1>2, Fields, PoolAssumption DEF TypeOK
  <1>6. /\ client'.slots = client.slots
        /\ client'.inUse = client.inUse + 1
        /\ client'.entry =
               [client.entry EXCEPT ![client.inUse] = [name |-> c, kind |-> "COLUMN", obj |-> o]]
    BY <1>3, <1>5 DEF Append, PutAt
  <1> QED
    BY <1>2, <1>3, <1>4, <1>5, <1>6

\* A column is entered when no table has its name.
LEMMA CreateColumnHands ==
    ASSUME TypeOK, TypeOK', HandOver, NEW c \in Columns, CreateColumn(c), kept'
    PROVE  HandOver' /\ BeginsWith(client', client)
  <1> DEFINE k == client.inUse
  <1>1. /\ dbOpen /\ column[c] = Null
        /\ phase = "serving" /\ UNCHANGED <<dbOpen, server, phase, i>>
        /\ k \in 0..(client.slots - 1)
    BY CreateColumnIs
  <1>2. PICK o \in Objects :
                 /\ column' = [column EXCEPT ![c] = o]
                 /\ client'.slots = client.slots
                 /\ client'.inUse = k + 1
                 /\ client'.entry = [client.entry EXCEPT ![k] = [name |-> c, kind |-> "COLUMN", obj |-> o]]
    BY CreateColumnIs
  <1> DEFINE e == [name |-> c, kind |-> "COLUMN", obj |-> o]
  <1>3. IsTable(client) /\ IsTable(client') /\ k \in Nat /\ client.slots \in Nat
    BY Fields DEF TypeOK
  <1>4. e.name = c /\ ~IsHandle(e)
    BY DEF IsHandle
  <1> HIDE DEF e
  <1>5. client'.entry[k] = e /\ \A j \in 0..(client.slots - 1) : j # k => client'.entry[j] = client.entry[j]
    BY <1>1, <1>2, <1>3, Fields DEF e
  <1>6. Slots(client') = 0..(client.slots - 1) /\ Slots(client) = 0..(client.slots - 1)
    BY <1>2 DEF Slots
  <1>7. InUse(client') = InUse(client) \cup {k} /\ \A j \in InUse(client) : j # k /\ j \in 0..(client.slots - 1)
    BY <1>1, <1>2, <1>3 DEF InUse
  <1>8. column'[c] # Null /\ \A d \in Columns : column[d] # Null => column'[d] # Null /\ d # c
    BY <1>1, <1>2, PoolAssumption DEF TypeOK
  <1>9. (\A d \in Columns : column'[d] # Null => dbOpen') /\ LeadingIn' /\ LeadingOut'
    BY <1>1 DEF LeadingIn, LeadingOut
  <1>10. ServerNames'
    BY <1>1, <1>8 DEF HandOver, ServerNames, ListsOnce, Slots, Named
  <1>11. /\ ListsOnce(client) /\ HandlesOnce(client)
         /\ \A j \in 0..(client.slots - 1) :
               /\ ~IsHandle(client.entry[j]) =>
                      client.entry[j].name \in Columns /\ column[client.entry[j].name] # Null
               /\ ~IsHandle(client.entry[j]) => Held(j) \/ Unknown(j)
    BY <1>1, <1>6 DEF HandOver, ClientNames, InSession, Named
  <1>12. \A m \in Slots(server) : server.entry[m].name # c
    <2> TAKE m \in Slots(server)
    <2>1. CASE IsHandle(server.entry[m])
      <3>1. server.entry[m].name = NoName
        BY <2>1 DEF HandOver, ServerNames
      <3> QED
        BY <3>1, PoolAssumption
    <2>2. CASE ~IsHandle(server.entry[m])
      <3>1. column[server.entry[m].name] # Null
        BY <2>2 DEF HandOver, ServerNames, Named
      <3> QED
        BY <1>1, <3>1
    <2> QED
      BY <2>1, <2>2
  <1>13. ListsOnce(client')
    <2> SUFFICES ASSUME NEW j \in 0..(client.slots - 1), NEW m \in 0..(client.slots - 1), j # m,
                        ~IsHandle(client'.entry[j]), ~IsHandle(client'.entry[m])
                 PROVE  client'.entry[j].name # client'.entry[m].name
      BY <1>6 DEF ListsOnce
    <2>1. CASE j = k
      BY <1>4, <1>5, <1>8, <1>11, <2>1
    <2>2. CASE m = k
      BY <1>4, <1>5, <1>8, <1>11, <2>2
    <2>3. CASE j # k /\ m # k
      BY <1>5, <1>6, <1>11, <2>3 DEF ListsOnce
    <2> QED
      BY <2>1, <2>2, <2>3
  <1>14. HandlesOnce(client')
    <2> SUFFICES ASSUME NEW j \in InUse(client'), NEW m \in InUse(client'), client'.entry[j].name \in Handles,
                        client'.entry[j].name = client'.entry[m].name
                 PROVE  j = m
      BY DEF HandlesOnce
    <2>1. j # k /\ m # k
      BY <1>4, <1>5, PoolAssumption
    <2> QED
      BY <1>5, <1>7, <1>11, <2>1 DEF HandlesOnce
  <1>15. ASSUME NEW j \in 0..(client.slots - 1), ~IsHandle(client'.entry[j])
         PROVE  /\ client'.entry[j].name \in Columns /\ column'[client'.entry[j].name] # Null
                /\ \/ j \in InUse(server) /\ server.entry[j] = client'.entry[j]
                   \/ \A m \in Slots(server) : server.entry[m].name # client'.entry[j].name
    <2>1. CASE j = k
      BY <1>4, <1>5, <1>8, <1>12, <2>1
    <2>2. CASE j # k
      BY <1>5, <1>8, <1>11, <1>15, <2>2 DEF Held, Unknown
    <2> QED
      BY <2>1, <2>2
  <1>16. ClientNames'
    BY <1>1, <1>6, <1>13, <1>14, <1>15 DEF ClientNames, Named, Held, Unknown, Slots
  <1>17. ASSUME NEW j \in Leading(client)
         PROVE  j < client'.inUse /\ j < client'.slots /\ client'.entry[j] = client.entry[j]
    <2>1. j \in InUse(client)
      BY DEF Leading
    <2>2. j \in Nat /\ j < k
      BY <2>1 DEF InUse
    <2> QED
      BY <1>2, <1>3, <1>5, <1>7, <2>1, <2>2
  <1> QED
    BY <1>3, <1>9, <1>10, <1>16, <1>17, LeadingSame DEF HandOver

\* The end of a copy changes only where the server is.
LEMMA PhaseHands ==
    ASSUME TypeOK, HandOver, UNCHANGED <<dbOpen, column, client, server>>,
           \/ phase = "copyIn" /\ phase' = "serving"
           \/ phase = "serving" /\ phase' = "copyOut" /\ i' = 0
    PROVE  HandOver'
  <1>1. (\A c \in Columns : column'[c] # Null => dbOpen') /\ ServerNames' /\ LeadingIn'
    BY DEF HandOver, ServerNames, ListsOnce, Slots, Named, LeadingIn
  <1>2. ClientNames'
    <2>1. /\ ListsOnce(client) /\ HandlesOnce(client)
          /\ \A j \in Slots(client) : /\ Named(client.entry[j])
                                      /\ ~IsHandle(client.entry[j]) => Held(j) \/ Unknown(j)
      BY DEF HandOver, ClientNames, InSession
    <2> QED
      BY <2>1 DEF ClientNames, ListsOnce, HandlesOnce, Slots, InUse, Named, Held, Unknown
  <1>3. LeadingOut'
    <2>1. \A j \in Leading(client) : ~(j < 0)
      BY Fields DEF Leading, InUse, TypeOK
    <2> QED
      BY <2>1 DEF LeadingOut, Leading, InUse
  <1> QED
    BY <1>1, <1>2, <1>3 DEF HandOver

\* Outside a session only the names in the server's table matter.
LEMMA EndHands ==
    ASSUME HandOver, UNCHANGED <<dbOpen, column, server>>, ~InSession'
    PROVE  HandOver'
  BY DEF HandOver, ServerNames, ListsOnce, Slots, Named, ClientNames, InSession, LeadingIn, LeadingOut

LEMMA DefineServes == Define => phase = "serving"
  <1>1. \A h, kind, ops, content : Assign(h, kind, ops, content) => phase = "serving"
    BY DEF Assign
  <1>2. \A g, h, v1, s1, v2, s2 : Join(g, h, v1, s1, v2, s2) => phase = "serving"
    BY DEF Join
  <1>3. \A h, c : BatchedSelect(h, c) => phase = "serving"
    BY DEF BatchedSelect
  <1> QED
    BY <1>1, <1>2, <1>3 DEF Define, Select, ScalarOp, SelectFrom, Fetch, ArithmeticOp

\* While a client is served the commands find its handles once.
LEMMA ServedNames ==
    ASSUME HandOver, phase = "serving"
    PROVE  ColumnsNamed(client) /\ HandlesOnce(client)
  BY DEF HandOver, ClientNames, InSession, ColumnsNamed, Named

LEMMA StepHands ==
    ASSUME HInv, [Next]_vars
    PROVE  HInv'
  <1> USE DEF session, batch
  <1>0. TypeOK /\ TypeOK'
    BY StepType DEF HInv
  <1> SUFFICES ASSUME Running', kept'
               PROVE  HandOver'
    BY <1>0 DEF HInv
  <1>1. CASE UNCHANGED vars
    <2>1. HandOver
      BY <1>1 DEF HInv, vars
    <2> QED
      BY <1>1, <2>1, QuietHands DEF vars
  <1>2. CASE Next
    <2>1. Running /\ kept
      BY <1>2, NextIs DEF NextKeeps
    <2>2. HandOver
      BY <2>1 DEF HInv
    <2>3. CASE Accept \/ CopyIn \/ CopyOut \/ CreateDb \/ \E c \in Columns : CreateColumn(c)
      BY <1>0, <2>2, <2>3, AcceptHands, CopyInHands, CopyOutHands, CreateDbHands, CreateColumnHands
    <2>4. CASE BeginSession \/ Disconnect
      <3>1. /\ UNCHANGED <<dbOpen, column, client, server>>
            /\ \/ phase = "copyIn" /\ phase' = "serving"
               \/ phase = "serving" /\ phase' = "copyOut" /\ i' = 0
        BY <2>4 DEF BeginSession, Disconnect
      <3> QED
        BY <1>0, <2>2, <3>1, PhaseHands
    <2>5. CASE EndSession \/ Shutdown \/ CommandAfterShutdown \/ DisconnectAfterShutdown
      <3>1. UNCHANGED <<dbOpen, column, server>> /\ phase' \in {"idle", "closed", "ended"}
        BY <2>5 DEF EndSession, Shutdown, CommandAfterShutdown, DisconnectAfterShutdown
      <3> QED
        BY <2>2, <3>1, EndHands DEF InSession
    <2>6. CASE Define
      BY <1>0, <2>2, <2>6, DefineServes, ServedNames, DefineDefines, DefinesHands
    <2>7. CASE BatchQueries \/ BatchExecute \/ \E n \in Names : Read(n)
      <3>1. phase' = phase /\ UNCHANGED <<dbOpen, column, client, server, i>>
        BY <2>7 DEF BatchQueries, BatchExecute, Read, Faults
      <3> QED
        BY <2>2, <3>1, QuietHands
    <2> QED
      BY <1>2, <2>3, <2>4, <2>5, <2>6, <2>7 DEF Next
  <1> QED
    BY <1>1, <1>2

THEOREM HandOverInvariance == Spec => []HInv
  <1>1. Init => HInv
    BY InitType, InitHands DEF HInv
  <1>2. HInv /\ [Next]_vars => HInv'
    BY StepHands
  <1> QED
    BY <1>1, <1>2, PTL DEF Spec

\* At the end of the copy in the client's table begins with what the server's
\* has before a gap.
LEMMA GivenIn ==
    ASSUME TypeOK, HandOver, BeginSession
    PROVE  BeginsWith(client', server)
  <1>1. client' = client /\ phase = "copyIn" /\ i >= server.inUse
    BY DEF BeginSession
  <1>2. /\ IsTable(client) /\ IsTable(server) /\ i \in Nat
        /\ client.slots \in Nat /\ client.slots >= server.slots /\ server.slots \in Nat /\ server.inUse \in Nat
    BY Fields, PoolAssumption DEF TypeOK
  <1>3. ASSUME NEW j \in Leading(server)
        PROVE  j < client.inUse /\ j < client.slots /\ client.entry[j] = server.entry[j]
    <2>1. j \in Nat /\ j < server.inUse /\ j < server.slots
      BY <1>2 DEF Leading, InUse
    <2>2. j < i /\ j < client.slots
      BY <1>1, <1>2, <2>1
    <2> QED
      BY <1>1, <2>2 DEF HandOver, LeadingIn
  <1> QED
    BY <1>1, <1>2, <1>3, LeadingSame

\* At the end of the copy back the server's table begins with what the
\* client's has before a handle.
LEMMA HandedBack ==
    ASSUME TypeOK, HandOver, EndSession
    PROVE  BeginsWith(server', client)
  <1>1. server' = server /\ phase = "copyOut" /\ i >= client.inUse
    BY DEF EndSession
  <1>2. IsTable(client) /\ IsTable(server) /\ i \in Nat /\ client.inUse \in Nat
    BY Fields DEF TypeOK
  <1>3. ASSUME NEW j \in Leading(client)
        PROVE  j < server.inUse /\ j < server.slots /\ server.entry[j] = client.entry[j]
    <2>1. j \in Nat /\ j < client.inUse
      BY DEF Leading, InUse
    <2>2. j < i
      BY <1>1, <1>2, <2>1
    <2>3. Held(j)
      BY <1>1, <2>2 DEF HandOver, LeadingOut
    <2> QED
      BY <1>2, <2>3, Fields DEF Held, InUse
  <1> QED
    BY <1>1, <1>2, <1>3, LeadingSame

\* No command takes a column from the beginning of the client's table.
LEMMA NoneTaken ==
    ASSUME TypeOK, TypeOK', HandOver, Next, kept', phase = "serving", phase' = "serving"
    PROVE  BeginsWith(client', client)
  <1> USE DEF session, batch
  <1>0. BeginsWith(client, client)
    BY DEF BeginsWith
  <1>1. CASE Define
    <2>1. client' = client \/ Marked(client, client')
      BY <1>1, ServedNames, DefineDefines DEF Defines
    <2> QED
      BY <1>0, <2>1 DEF Marked
  <1>2. CASE \E c \in Columns : CreateColumn(c)
    BY <1>2, CreateColumnHands
  <1>3. CASE CreateDb \/ BatchQueries \/ BatchExecute \/ \E n \in Names : Read(n)
    <2>1. client' = client
      BY <1>3 DEF CreateDb, BatchQueries, BatchExecute, Read, Faults
    <2> QED
      BY <1>0, <2>1
  <1>4. CASE \/ Accept \/ CopyIn \/ BeginSession \/ Disconnect \/ CopyOut \/ EndSession
             \/ Shutdown \/ CommandAfterShutdown \/ DisconnectAfterShutdown
    BY <1>4 DEF Accept, CopyIn, BeginSession, Disconnect, CopyOut, EndSession, Shutdown,
                CommandAfterShutdown, DisconnectAfterShutdown
  <1> QED
    BY <1>1, <1>2, <1>3, <1>4 DEF Next

\* The columns a client creates before its handles are not lost: it keeps them
\* through the session, the server has them when the session ends, and the next
\* client is given what the server has before a gap; whatever earlier clients
\* left behind.
THEOREM NoColumnLost == Spec => ColumnsHandedOver
  <1> DEFINE Handed == kept' =>
                /\ BeginSession => BeginsWith(client', server)
                /\ phase = "serving" /\ phase' = "serving" => BeginsWith(client', client)
                /\ EndSession => BeginsWith(server', client)
  <1>1. ASSUME HInv, Next, kept'
        PROVE  /\ BeginSession => BeginsWith(client', server)
               /\ phase = "serving" /\ phase' = "serving" => BeginsWith(client', client)
               /\ EndSession => BeginsWith(server', client)
    <2>1. TypeOK /\ TypeOK'
      BY <1>1, StepType DEF HInv
    <2>2. HandOver
      BY <1>1, NextIs DEF HInv, NextKeeps
    <2> QED
      BY <1>1, <2>1, <2>2, GivenIn, HandedBack, NoneTaken
  <1>2. HInv /\ [Next]_vars => [Handed]_vars
    BY <1>1
  <1> QED
    BY <1>2, HandOverInvariance, PTL DEF Spec, ColumnsHandedOver
===============================================================================
