---------------------------- MODULE ProtocolProofs ----------------------------
(***************************************************************************)
(* Proofs about Protocol, for any clients, results, files, chunk sizes and *)
(* capacities: client and server take turns, the index covers the column,  *)
(* and Protocol implements Service: chunks of a print, parts of a load and *)
(* messages on their way do not show, and a command is carried out once and *)
(* completely.                                                             *)
(***************************************************************************)
EXTENDS Protocol, SequenceTheorems, FiniteSetTheorems, WellFoundedInduction, TLAPS

USE DEF AnswerSent

-------------------------------------------------------------------------------
(* The inductive invariant: types                                          *)

\* What is printed: one operand, or several results.
Operands == {{x} : x \in Results \cup {Column}} \cup {{}}
            \cup {xs \in SUBSET Results : Cardinality(xs) > 1}
Line == Files \X Nat
Stored == Line \cup {Junk}
Shows == Stored \cup (Operands \X Nat)
Messages == [op : {"print", "load", "shutdown", "run", "none"}, objs : Operands,
             hdr : Headed \cup {NoFile}, lines : Seq(Line), end : BOOLEAN]
Replies == [length : {0, 1}, rows : Seq(Shows), more : BOOLEAN]
Asked == [kind : {"header"}, length : {1}] \cup [kind : {"payload"}, what : Messages]
Told == [kind : {"header"}, length : {0, 1}] \cup [kind : {"payload"}, what : Replies]
Cursors == {k \in [rows : Nat, start : Nat] : k.start <= k.rows}

Types ==
    /\ cstate \in [Clients -> ClientStates]
    /\ cmd \in [Clients -> Commands \cup {NoCmd}]
    /\ hdr \in [Clients -> Headed \cup {NoFile}]
    /\ sent \in [Clients -> Nat]
    /\ msg \in [Clients -> Messages]
    /\ screen \in [Clients -> Seq(Shows)]
    /\ typed \in [Clients -> 0..MaxCommands]
    /\ up \in [Clients -> Seq(Asked)]
    /\ down \in [Clients -> Seq(Told)]
    /\ \A c \in Clients : Len(up[c]) <= Capacity /\ Len(down[c]) <= Capacity
    /\ queue \in Seq(Clients)
    /\ sstate \in ServerStates
    /\ query \in Messages
    /\ reply \in Replies
    /\ cursor \in [{"one", "many"} -> Cursors]
    /\ running \in BOOLEAN
    /\ table \in Seq(Stored)
    /\ indexed \in 0..Len(table)
    /\ stored \in [Clients -> Nat]

-------------------------------------------------------------------------------
(* The inductive invariant: client and server                              *)

InQueue(c) == \E i \in 1..Len(queue) : queue[i] = c
Alive(c) == cstate[c] \notin {"off", "gone"}
Awaits(c) == cstate[c] \in {"awaitHeader", "awaitPayload"}

\* A client waits once, and not before it connected.
QueueSound ==
    /\ \A i, j \in 1..Len(queue) : queue[i] = queue[j] => i = j
    /\ \A c \in Clients : cstate[c] = "off" => ~InQueue(c)
    /\ sstate \notin {"accept", "down"} => queue # <<>>

\* A client has a command from its prompt until it is answered; its message is
\* about it.
CommandSound(c) ==
    /\ cstate[c] \in {"off", "prompt"} => cmd[c] = NoCmd
    /\ cstate[c] \in {"sendHeader", "sendPayload", "awaitHeader", "awaitPayload"} => cmd[c] # NoCmd
    /\ cmd[c] # NoCmd => msg[c].op = cmd[c].op /\ msg[c].objs = cmd[c].objs

\* What the client has sent so far, none of it received.
Unread(c) ==
    /\ down[c] = <<>>
    /\ cstate[c] # "awaitPayload"
    /\ cstate[c] \in {"off", "prompt", "sendHeader"} => up[c] = <<>>
    /\ cstate[c] = "sendPayload" => up[c] = <<Header(1)>>
    /\ cstate[c] = "awaitHeader" => up[c] = <<Header(1), Payload(msg[c])>>
    /\ cstate[c] = "gone" =>
           \/ up[c] \in {<<>>, <<Header(1)>>}
           \/ cmd[c] # NoCmd /\ up[c] = <<Header(1), Payload(msg[c])>>

\* The header was received, the payload may be on its way.
HalfRead(c) ==
    /\ down[c] = <<>>
    /\ \/ up[c] = <<>> /\ cstate[c] \in {"sendPayload", "gone"}
       \/ /\ up[c] = <<Payload(msg[c])>> /\ cmd[c] # NoCmd
          /\ cstate[c] \in {"awaitHeader", "gone"}

\* An answer that another message follows, and the last one.
Goes(x) == IF x.kind = "header" THEN x.length = 1 ELSE x.what.more

\* What is on its way down: headers and payloads in turn, beginning with the
\* one the client waits for, and only the last may end the answer.
Answers(c) ==
    /\ \A i \in 1..Len(down[c]) :
           /\ i = 1 => down[c][i].kind = IF cstate[c] = "awaitHeader" THEN "header" ELSE "payload"
           /\ i > 1 => Goes(down[c][i - 1]) /\ down[c][i].kind # down[c][i - 1].kind
    /\ Awaits(c)

\* The answer is sent up to a message of that kind.
Underway(c, kind) ==
    /\ Answers(c)
    /\ IF down[c] = <<>> THEN cstate[c] = IF kind = "header" THEN "awaitPayload" ELSE "awaitHeader"
       ELSE Goes(down[c][Len(down[c])]) /\ down[c][Len(down[c])].kind = kind

\* It is sent completely and not read completely.
Ended(c) ==
    /\ Answers(c)
    /\ down[c] # <<>>
    /\ ~Goes(down[c][Len(down[c])])

\* Where the server is with the client it serves.
Conversation(c) ==
    /\ AnswerSent =>
           Unread(c) \/ (up[c] = <<>> /\ (cstate[c] = "gone" \/ Ended(c)))
    /\ sstate = "recvPayload" => HalfRead(c)
    /\ sstate \in {"execute", "sendHeader", "sendPayload"} =>
           /\ up[c] = <<>>
           /\ \/ cstate[c] = "gone" /\ (query = NoMsg \/ (query = msg[c] /\ cmd[c] # NoCmd))
              \/ /\ query = msg[c]
                 /\ Underway(c, IF sstate = "sendPayload" THEN "header" ELSE "payload")

\* The others are untouched.
Turns(c) ==
    IF Served(c) THEN Conversation(c)
    ELSE (cstate[c] # "gone" \/ (sstate # "down" /\ InQueue(c))) => Unread(c)

\* Nothing is under way in both directions.
OneWay(c) == up[c] = <<>> \/ down[c] = <<>>

\* Only a print that goes on has a cursor.
CursorSound ==
    /\ \A f \in {"one", "many"} :
           cursor[f].start # 0 /\ sstate # "down" =>
               /\ sstate \in {"execute", "sendHeader", "sendPayload"}
               /\ query.op = "print"
               /\ f = IF Cardinality(query.objs) = 1 THEN "one" ELSE "many"
               /\ sstate # "execute" => reply.more
    /\ reply.more => reply.length = 1
    /\ sstate \in {"sendHeader", "sendPayload"} /\ reply.more => query.op = "print"
    /\ sstate = "sendPayload" => reply.length = 1
    /\ sstate = "sendNothing" => ~reply.more

-------------------------------------------------------------------------------
(* The inductive invariant: loads                                          *)

\* The message of a load holds the last lines of those sent so far.
PartSound(c) ==
    LET f == cmd[c].file
    IN  /\ f \in Files
        /\ msg[c].hdr = hdr[c]
        /\ sent[c] <= Lines[f] /\ Len(msg[c].lines) <= sent[c]
        /\ \A k \in 1..Len(msg[c].lines) :
               msg[c].lines[k] = <<f, sent[c] - Len(msg[c].lines) + k>>
        /\ msg[c].end = (sent[c] = Lines[f])
        /\ Lines[f] # 0 => msg[c].lines # <<>>

\* The message was not executed.
Pending(c) ==
    \/ cstate[c] \in {"sendHeader", "sendPayload"}
    \/ up[c] # <<>>
    \/ Served(c) /\ (sstate = "recvPayload" \/ (sstate = "execute" /\ query # NoMsg))

LoadSound(c) ==
    cmd[c].op = "load" =>
        /\ PartSound(c)
        /\ hdr[c] \in Known =>
              /\ Pending(c) => stored[c] = sent[c] - Len(msg[c].lines)
              /\ ~Pending(c) /\ Awaits(c) =>
                     stored[c] = IF Lines[cmd[c].file] = 0 THEN 1 ELSE sent[c]
        /\ hdr[c] \notin Known => stored[c] = 0

ClientSound(c) == CommandSound(c) /\ Turns(c) /\ OneWay(c) /\ LoadSound(c)

IInv ==
    /\ Types
    /\ QueueSound
    /\ \A c \in Clients : ClientSound(c)
    /\ CursorSound
    /\ IndexCurrent

\* The load of a client was begun and not ended.
Partial(c) == 0 < stored[c] /\ stored[c] < Len(ToStore(c))
-------------------------------------------------------------------------------
(* Rows and messages                                                       *)

\* Sequences of one message and of two.
LEMMA TwoMessages ==
  ASSUME NEW S, NEW a \in S, NEW b \in S
  PROVE  /\ Append(<<a>>, b) = <<a, b>> /\ Append(<<>>, b) = <<b>>
         /\ Tail(<<a, b>>) = <<b>> /\ Tail(<<a>>) = <<>>
<1>1. <<a>> \in Seq(S) /\ Len(<<a>>) = 1 /\ <<a>>[1] = a
  OBVIOUS
<1>2. <<a, b>> \in Seq(S) /\ Len(<<a, b>>) = 2 /\ <<a, b>>[1] = a /\ <<a, b>>[2] = b
  OBVIOUS
<1>3. /\ Append(<<a>>, b) \in Seq(S) /\ Len(Append(<<a>>, b)) = 2
      /\ Append(<<a>>, b)[1] = a /\ Append(<<a>>, b)[2] = b
  BY <1>1, AppendProperties
<1>4. \A i \in 1..2 : i = 1 \/ i = 2
  OBVIOUS
<1>5. Append(<<a>>, b) = <<a, b>>
  BY <1>2, <1>3, <1>4, SeqEqual
<1>6. Append(<<>>, b) = <<b>>
  OBVIOUS
<1>7. Tail(<<a, b>>) = <<b>>
  <2>1. Tail(<<a, b>>) \in Seq(S) /\ Len(Tail(<<a, b>>)) = 1 /\ Tail(<<a, b>>)[1] = b
    BY <1>2, HeadTailProperties
  <2>2. <<b>> \in Seq(S) /\ Len(<<b>>) = 1 /\ <<b>>[1] = b
    OBVIOUS
  <2>3. \A i \in 1..1 : i = 1
    OBVIOUS
  <2> QED
    BY <2>1, <2>2, <2>3, SeqEqual
<1>8. Tail(<<a>>) = <<>>
  OBVIOUS
<1> QED
  BY <1>5, <1>6, <1>7, <1>8

\* The length of a sequence is known from its domain.
LEMMA SequenceLength ==
  ASSUME NEW S, NEW s \in Seq(S), NEW n \in Nat, DOMAIN s = 1..n
  PROVE  Len(s) = n
<1>1. Len(s) \in Nat /\ 1..Len(s) = 1..n
  BY LenProperties
<1>2. (Len(s) < n => n \in 1..Len(s)) /\ (n < Len(s) => Len(s) \in 1..n)
  BY <1>1
<1> QED
  BY <1>1, <1>2

\* Among finitely many results one is the longest: a smallest set without one
\* would have one.
LEMMA LongestResult ==
  ASSUME NEW xs \in SUBSET Results, xs # {}
  PROVE  \E x \in xs : \A y \in xs : NumTuples[y] <= NumTuples[x]
<1> DEFINE Has(s) == \E x \in s : \A y \in s : NumTuples[y] <= NumTuples[x]
           Bad == {s \in SUBSET Results : s # {} /\ ~Has(s)}
<1>1. IsWellFoundedOn(StrictSubsetOrdering(Results), SUBSET Results)
  BY FS_StrictSubsetOrderingWellFounded, FS_FiniteSubsetsOfFinite, ListingAssumption
<1>2. ASSUME NEW s \in Bad PROVE \E r \in Bad : <<r, s>> \in StrictSubsetOrdering(Results)
  <2>1. PICK x \in s : TRUE
    OBVIOUS
  <2> DEFINE r == s \ {x}
  <2>2. r # {}
    <3> SUFFICES ASSUME r = {} PROVE FALSE
      OBVIOUS
    <3>1. s = {x}
      BY <2>1
    <3>2. NumTuples[x] <= NumTuples[x]
      BY <2>1, ListingAssumption
    <3> QED
      BY <3>1, <3>2
  <2>3. ~Has(r)
    <3> SUFFICES ASSUME NEW z \in r, \A y \in r : NumTuples[y] <= NumTuples[z] PROVE FALSE
      OBVIOUS
    <3>1. NumTuples[x] \in Nat /\ NumTuples[z] \in Nat /\ \A y \in s : NumTuples[y] \in Nat
      BY <2>1, ListingAssumption
    <3>2. CASE NumTuples[x] <= NumTuples[z]
      BY <2>1, <3>1, <3>2
    <3>3. CASE NumTuples[z] < NumTuples[x]
      <4>1. \A y \in s : NumTuples[y] <= NumTuples[x]
        BY <2>1, <3>1, <3>3
      <4> QED
        BY <2>1, <4>1
    <3> QED
      BY <3>1, <3>2, <3>3
  <2>4. r \in Bad /\ <<r, s>> \in StrictSubsetOrdering(Results)
    BY <2>1, <2>2, <2>3 DEF StrictSubsetOrdering
  <2> QED
    BY <2>4
<1>3. Bad = {}
  <2> SUFFICES ASSUME Bad # {} PROVE FALSE
    OBVIOUS
  <2>1. \E s \in Bad : \A r \in Bad : ~(<<r, s>> \in StrictSubsetOrdering(Results))
    <3> HIDE DEF Bad
    <3>1. Bad \subseteq SUBSET Results
      BY DEF Bad
    <3> QED
      BY <1>1, <3>1, WFMin
  <2> QED
    BY <1>2, <2>1
<1> QED
  BY <1>3

\* What a print shows has a number of rows.
LEMMA NumRowsFacts ==
  ASSUME NEW objs \in Operands, NEW t \in Seq(Stored)
  PROVE  /\ NumRows(objs, t) \in Nat
         /\ \A x \in objs : Count(x, t) \in Nat /\ Count(x, t) <= NumRows(objs, t)
<1>1. \A x \in Results \cup {Column} : Count(x, t) \in Nat
  BY ListingAssumption, LenProperties DEF Count
<1>2. objs \subseteq Results \cup {Column}
  BY DEF Operands
<1>3. CASE objs = {}
  BY <1>3 DEF NumRows
<1>4. CASE objs # {}
  <2>1. \E x \in objs : \A y \in objs : Count(y, t) <= Count(x, t)
    <3>1. CASE \E x \in Results \cup {Column} : objs = {x}
      BY <1>1, <3>1
    <3>2. CASE objs \in SUBSET Results
      <4>1. \A x \in objs : Count(x, t) = NumTuples[x]
        BY <3>2, ListingAssumption DEF Count
      <4> QED
        BY <1>4, <3>2, <4>1, LongestResult
    <3> QED
      BY <1>4, <3>1, <3>2 DEF Operands
  <2> DEFINE longest == CHOOSE x \in objs : \A y \in objs : Count(y, t) <= Count(x, t)
  <2>2. longest \in objs /\ \A y \in objs : Count(y, t) <= Count(longest, t)
    BY <2>1
  <2>3. NumRows(objs, t) = Count(longest, t)
    BY <1>4 DEF NumRows
  <2> HIDE DEF longest
  <2> QED
    BY <1>1, <1>2, <2>2, <2>3
<1> QED
  BY <1>3, <1>4

\* A chunk of a print has as many rows as were asked for.
LEMMA RowsFacts ==
  ASSUME NEW objs \in Operands, NEW first \in Nat, NEW next \in Nat, first <= next,
         NEW t \in Seq(Stored)
  PROVE  /\ Rows(objs, first, next, t) \in Seq(Shows)
         /\ Len(Rows(objs, first, next, t)) = next - first
<1>1. ASSUME NEW j \in Nat PROVE Row(objs, j, t) \in Shows
  <2>1. CASE \E x \in objs : Count(x, t) <= j
    BY <2>1 DEF Row, Shows, Stored
  <2>2. CASE ~(\E x \in objs : Count(x, t) <= j) /\ Column \in objs
    <3>1. Count(Column, t) = Len(t) /\ Len(t) \in Nat
      BY LenProperties DEF Count
    <3>2. j + 1 \in 1..Len(t)
      BY <2>2, <3>1
    <3>3. t[j + 1] \in Stored
      BY <3>2, ElementOfSeq
    <3> QED
      BY <2>2, <3>3 DEF Row, Shows
  <2>3. CASE ~(\E x \in objs : Count(x, t) <= j) /\ Column \notin objs
    BY <2>3 DEF Row, Shows
  <2> QED
    BY <2>1, <2>2, <2>3
<1>2. Rows(objs, first, next, t) \in [1..(next - first) -> Shows]
  BY <1>1 DEF Rows
<1>3. next - first \in Nat
  OBVIOUS
<1>4. Rows(objs, first, next, t) \in Seq(Shows)
  BY <1>2, <1>3, SeqDef
<1> QED
  BY <1>2, <1>3, <1>4, LenProperties

\* What a user types.
LEMMA CommandTyped ==
  ASSUME NEW k \in Commands
  PROVE  /\ k.op \in {"print", "load", "shutdown", "run", "none"}
         /\ k.objs \in Operands
         /\ k.op = "load" => k.file \in Files /\ k.objs = {}
         /\ k # NoCmd
  BY DEF Commands, Command, NoCmd, Operands

\* No message is one that asks for nothing.
LEMMA NoMsgTyped == NoMsg \in Messages /\ NoMsg.op = "none"
  BY EmptySeq DEF NoMsg, Message, Messages, Operands

\* The two short answers end a command.
LEMMA NoReplyTyped ==
  /\ NoPayload \in Replies /\ NoPayload.more = FALSE
  /\ Text \in Replies /\ Text.more = FALSE
<1>1. NoPayload.more = FALSE /\ Text.more = FALSE
  BY DEF NoPayload, Text, Reply
<1>2. NoPayload \in Replies /\ Text \in Replies
  BY EmptySeq DEF NoPayload, Text, Reply, Replies
<1> QED
  BY <1>1, <1>2

\* The next part of a load: the lines behind the first ones, none only if there
\* are no more.
IsChunk(f, h, from, chunk) ==
    /\ Lines[f] \in Nat
    /\ chunk.lines \in Nat
    /\ from + chunk.lines <= Lines[f]
    /\ from # Lines[f] => chunk.lines # 0
    /\ chunk.msg \in Messages
    /\ chunk.msg.op = "load" /\ chunk.msg.objs = {} /\ chunk.msg.hdr = h
    /\ Len(chunk.msg.lines) = chunk.lines
    /\ \A k \in 1..chunk.lines : chunk.msg.lines[k] = <<f, from + k>>
    /\ chunk.msg.end = (from + chunk.lines = Lines[f])

LEMMA ChunkFacts ==
  ASSUME NEW f \in Files, NEW h \in Headed \cup {NoFile}, NEW from \in Nat, from <= Lines[f],
         NEW chunk \in Chunks(f, h, from)
  PROVE  IsChunk(f, h, from, chunk)
<1>1. Lines[f] \in Nat /\ LoadVec \in Nat \ {0}
  BY ProtocolAssumption
<1>2. PICK n \in IF from = Lines[f] THEN {0} ELSE 1..Least(LoadVec, Lines[f] - from) :
        chunk = [lines |-> n,
                 msg |-> Message("load", {}, h, [k \in 1..n |-> <<f, from + k>>], from + n = Lines[f])]
  BY DEF Chunks
<1>3. n \in Nat /\ from + n <= Lines[f] /\ (from # Lines[f] => n # 0)
  BY <1>1, <1>2 DEF Least
<1> DEFINE lines == [k \in 1..n |-> <<f, from + k>>]
<1>4. lines \in [1..n -> Line] /\ DOMAIN lines = 1..n
  BY <1>3 DEF Line
<1>5. lines \in Seq(Line)
  BY <1>3, <1>4, SeqDef, ZenonT(40)
<1>6. chunk.lines = n /\ chunk.msg = Message("load", {}, h, lines, from + n = Lines[f])
  BY <1>2
<1>7. \A k \in 1..n : lines[k] = <<f, from + k>>
  OBVIOUS
<1> HIDE DEF lines
<1>8. Len(lines) = n
  BY <1>3, <1>4, <1>5, SequenceLength
<1>9. Message("load", {}, h, lines, from + n = Lines[f]) \in Messages
  BY <1>5 DEF Message, Messages, Operands
<1>10. /\ chunk.msg.op = "load" /\ chunk.msg.objs = {} /\ chunk.msg.hdr = h
       /\ chunk.msg.lines = lines /\ chunk.msg.end = (from + n = Lines[f])
  BY <1>6 DEF Message
<1> QED
  BY <1>1, <1>3, <1>6, <1>7, <1>8, <1>9, <1>10 DEF IsChunk
-------------------------------------------------------------------------------
(* Steps of one side leave the others alone                                *)

\* What is said of a client depends on its own state and on where the server is.
LEMMA Frame ==
  ASSUME NEW c \in Clients,
         cstate'[c] = cstate[c], cmd'[c] = cmd[c], hdr'[c] = hdr[c], sent'[c] = sent[c],
         msg'[c] = msg[c], up'[c] = up[c], down'[c] = down[c], stored'[c] = stored[c],
         queue' = queue, sstate' = sstate, query' = query
  PROVE  /\ ClientSound(c) => ClientSound(c)'
         /\ Partial(c)' = Partial(c)
<1>1. Served(c)' = Served(c) /\ InQueue(c)' = InQueue(c)
  BY DEF Served, InQueue, c0
<1>2. Unread(c)' = Unread(c) /\ HalfRead(c)' = HalfRead(c)
  BY DEF Unread, HalfRead
<1>3. Answers(c)' = Answers(c) /\ Ended(c)' = Ended(c) /\ Awaits(c)' = Awaits(c)
  BY DEF Answers, Ended, Awaits
<1>4. ASSUME NEW kind PROVE Underway(c, kind)' = Underway(c, kind)
  BY <1>3 DEF Underway
<1>5. Turns(c) => Turns(c)'
  BY <1>1, <1>2, <1>3, <1>4 DEF Turns, Conversation
<1>6. CommandSound(c) /\ OneWay(c) => CommandSound(c)' /\ OneWay(c)'
  BY DEF CommandSound, OneWay
<1>7. Pending(c)' = Pending(c) /\ (PartSound(c) => PartSound(c)')
  BY <1>1 DEF Pending, PartSound
<1>8. LoadSound(c) => LoadSound(c)'
  BY <1>3, <1>7 DEF LoadSound
<1>9. Partial(c)' = Partial(c)
  BY DEF Partial, ToStore
<1> QED
  BY <1>5, <1>6, <1>8, <1>9 DEF ClientSound

\* A step of one client.
LEMMA ClientStep ==
  ASSUME IInv, NEW c \in Clients,
         \A d \in Clients \ {c} :
             /\ cstate'[d] = cstate[d] /\ cmd'[d] = cmd[d] /\ hdr'[d] = hdr[d]
             /\ sent'[d] = sent[d] /\ msg'[d] = msg[d] /\ up'[d] = up[d]
             /\ down'[d] = down[d] /\ stored'[d] = stored[d],
         queue' = queue, sstate' = sstate, query' = query,
         UNCHANGED <<reply, cursor, running, table, indexed>>,
         cstate[c] # "off", cstate'[c] # "off",
         Types', ClientSound(c)', Partial(c) => Partial(c)'
  PROVE  IInv'
<1>1. \A d \in Clients : ClientSound(d)'
  BY Frame DEF IInv
<1>2. QueueSound'
  <2>1. \A d \in Clients : InQueue(d)' = InQueue(d)
    BY DEF InQueue
  <2>2. \A d \in Clients : cstate'[d] = "off" => cstate[d] = "off"
    OBVIOUS
  <2> QED
    BY <2>1, <2>2 DEF IInv, QueueSound
<1>3. CursorSound'
  BY DEF IInv, CursorSound
<1>4. IndexCurrent'
  <2>1. ASSUME NEW d \in Clients, Partial(d) PROVE Partial(d)'
    BY <2>1, Frame
  <2> QED
    BY <2>1 DEF IInv, IndexCurrent, Partial
<1> QED
  BY <1>1, <1>2, <1>3, <1>4 DEF IInv

\* A step of the server with the client it serves.
LEMMA ServerStep ==
  ASSUME IInv, NEW c \in Clients, c = c0, queue # <<>>, queue' = queue, sstate # "down",
         UNCHANGED <<cstate, cmd, hdr, sent, msg>>,
         \A d \in Clients \ {c} :
             up'[d] = up[d] /\ down'[d] = down[d] /\ stored'[d] = stored[d],
         Types', ClientSound(c)', CursorSound', IndexCurrent'
  PROVE  IInv'
<1>1. ASSUME NEW d \in Clients \ {c} PROVE ClientSound(d)'
  <2>1. ClientSound(d) /\ ~Served(d) /\ ~Served(d)'
    BY DEF IInv, Served, c0
  <2>2. Turns(d)'
    <3>1. InQueue(d)' = InQueue(d) /\ Unread(d)' = Unread(d)
      BY DEF InQueue, Unread
    <3> QED
      BY <2>1, <3>1 DEF ClientSound, Turns
  <2>3. CommandSound(d)' /\ OneWay(d)'
    BY <2>1 DEF ClientSound, CommandSound, OneWay
  <2>4. LoadSound(d)'
    <3>1. Pending(d)' = Pending(d) /\ Awaits(d)' = Awaits(d)
      BY <2>1 DEF Pending, Awaits
    <3>2. PartSound(d) => PartSound(d)'
      BY DEF PartSound
    <3> QED
      BY <2>1, <3>1, <3>2 DEF ClientSound, LoadSound
  <2> QED
    BY <2>2, <2>3, <2>4 DEF ClientSound
<1>2. QueueSound'
  <2>1. \A d \in Clients : InQueue(d)' = InQueue(d)
    BY DEF InQueue
  <2> QED
    BY <2>1 DEF IInv, QueueSound
<1> QED
  BY <1>1, <1>2 DEF IInv

\* The client that is served.
LEMMA ServedFacts ==
  ASSUME IInv, sstate \notin {"accept", "down"}
  PROVE  \E c \in Clients :
             /\ c = c0 /\ queue # <<>> /\ InQueue(c)
             /\ Served(c) /\ ClientSound(c) /\ Conversation(c)
<1>1. queue # <<>> /\ queue \in Seq(Clients)
  BY DEF IInv, QueueSound, Types
<1>2. c0 \in Clients /\ 1 \in 1..Len(queue) /\ queue[1] = c0
  BY <1>1, HeadTailProperties, EmptySeq DEF c0
<1> QED
  BY <1>1, <1>2 DEF IInv, ClientSound, Turns, Served, InQueue

\* A client without a command under way was not heard; if it is served, the
\* server waits for it.
LEMMA Quiet ==
  ASSUME IInv, NEW c \in Clients, cstate[c] \in {"off", "prompt", "sendHeader"}
  PROVE  Unread(c) /\ (Served(c) => AnswerSent)
<1>1. CASE Served(c)
  <2>1. Conversation(c) /\ sstate \notin {"accept", "down"} /\ sstate \in ServerStates
    BY <1>1 DEF IInv, ClientSound, Turns, Served, Types
  <2>2. ~Answers(c)
    BY DEF Answers, Awaits
  <2> QED
    BY <2>1, <2>2 DEF Conversation, HalfRead, Ended, Underway, ServerStates
<1>2. CASE ~Served(c)
  BY <1>2 DEF IInv, ClientSound, Turns
<1> QED
  BY <1>1, <1>2

\* A client that was not heard may take its turn.
LEMMA UnreadTurns ==
  ASSUME NEW c, Unread(c), Served(c) => AnswerSent
  PROVE  Turns(c) /\ OneWay(c)
  BY DEF Turns, Conversation, OneWay, Unread
-------------------------------------------------------------------------------
(* The client                                                              *)

\* A client that is gone leaves what is under way.
LEMMA GoneKeeps ==
  ASSUME IInv, NEW c \in Clients, Alive(c), Go(c, "gone"),
         UNCHANGED <<cmd, hdr, sent, msg, screen, typed, up, down, queue, sstate, server>>
  PROVE  IInv'
<1>1. /\ cstate \in [Clients -> ClientStates] /\ cstate[c] \notin {"off", "gone"}
      /\ cstate' = [cstate EXCEPT ![c] = "gone"]
      /\ cstate'[c] = "gone" /\ \A d \in Clients \ {c} : cstate'[d] = cstate[d]
  BY DEF IInv, Types, Alive, Go
<1>2. ClientSound(c)
  BY DEF IInv
<1>3. /\ UNCHANGED <<cmd, hdr, sent, msg, screen, typed, up, down, queue, sstate>>
      /\ UNCHANGED <<query, reply, cursor, running, table, indexed, stored>>
  BY DEF server
<1>4. Types'
  BY <1>1, <1>3 DEF IInv, Types, ClientStates
<1>5. CommandSound(c)' /\ OneWay(c)'
  BY <1>1, <1>2, <1>3 DEF ClientSound, CommandSound, OneWay
<1>6. Turns(c)'
  <2>1. Unread(c) => Unread(c)'
    BY <1>1, <1>2, <1>3 DEF Unread, ClientSound, CommandSound, ClientStates
  <2>2. HalfRead(c) => HalfRead(c)'
    BY <1>1, <1>3 DEF HalfRead
  <2>3. Served(c)' = Served(c) /\ InQueue(c)' = InQueue(c)
    BY <1>3 DEF Served, InQueue, c0
  <2>4. CASE Served(c)
    <3>1. Conversation(c)
      BY <1>2, <2>4 DEF ClientSound, Turns
    <3>2. ASSUME NEW kind, Underway(c, kind) PROVE cmd[c] # NoCmd
      BY <1>2, <3>2 DEF Underway, Answers, Awaits, ClientSound, CommandSound
    <3>3. Conversation(c)'
      BY <1>1, <1>3, <2>1, <2>2, <3>1, <3>2 DEF Conversation
    <3> QED
      BY <2>3, <2>4, <3>3 DEF Turns
  <2>5. CASE ~Served(c)
    BY <1>1, <1>2, <2>1, <2>3, <2>5 DEF ClientSound, Turns
  <2> QED
    BY <2>4, <2>5
<1>7. LoadSound(c)'
  <2>1. Served(c)' = Served(c)
    BY <1>3 DEF Served, c0
  <2>2. (Pending(c)' => Pending(c)) /\ ~Awaits(c)'
    BY <1>1, <1>3, <2>1 DEF Pending, Awaits
  <2>3. PartSound(c) => PartSound(c)'
    BY <1>3 DEF PartSound
  <2> QED
    BY <1>2, <1>3, <2>2, <2>3 DEF ClientSound, LoadSound
<1>8. Partial(c)' = Partial(c)
  BY <1>3 DEF Partial, ToStore
<1> QED
  BY <1>1, <1>3, <1>4, <1>5, <1>6, <1>7, <1>8, ClientStep DEF ClientSound

\* A new client waits behind the others.
LEMMA ConnectKeeps ==
  ASSUME IInv, NEW c \in Clients, Connect(c)
  PROVE  IInv'
<1>1. /\ cstate[c] = "off" /\ sstate # "down" /\ cstate \in [Clients -> ClientStates]
      /\ cstate' = [cstate EXCEPT ![c] = "prompt"]
      /\ cstate'[c] = "prompt" /\ \A d \in Clients \ {c} : cstate'[d] = cstate[d]
      /\ queue' = Append(queue, c) /\ queue \in Seq(Clients)
      /\ UNCHANGED <<cmd, hdr, sent, msg, screen, typed, up, down, sstate>>
      /\ UNCHANGED <<query, reply, cursor, running, table, indexed, stored>>
  BY DEF IInv, Types, Connect, At, Go, server
<1>2. /\ queue' \in Seq(Clients) /\ Len(queue) \in Nat /\ Len(queue') = Len(queue) + 1
      /\ \A i \in 1..Len(queue) : queue'[i] = queue[i]
      /\ queue'[Len(queue) + 1] = c
  BY <1>1, AppendProperties, LenProperties
<1>3. Types'
  BY <1>1, <1>2 DEF IInv, Types, ClientStates
<1>4. ~InQueue(c)
  BY <1>1 DEF IInv, QueueSound
<1>5. QueueSound'
  <2>1. queue' # <<>>
    BY <1>2, EmptySeq
  <2>2. \A i, j \in 1..Len(queue') : queue'[i] = queue'[j] => i = j
    <3>1. \A i \in 1..Len(queue) : queue[i] # c
      BY <1>4 DEF InQueue
    <3>2. \A i \in 1..(Len(queue) + 1) : i \in 1..Len(queue) \/ i = Len(queue) + 1
      BY <1>2
    <3> QED
      BY <1>2, <3>1, <3>2 DEF IInv, QueueSound
  <2>3. ASSUME NEW d \in Clients, cstate'[d] = "off" PROVE ~InQueue(d)'
    <3>1. d # c /\ ~InQueue(d)
      BY <1>1, <2>3 DEF IInv, QueueSound
    <3> QED
      BY <1>2, <3>1 DEF InQueue
  <2> QED
    BY <2>1, <2>2, <2>3 DEF QueueSound
<1>6. \A d \in Clients : Served(d)' = Served(d)
  <2>1. CASE queue = <<>>
    <3>1. sstate \in {"accept", "down"}
      BY <2>1 DEF IInv, QueueSound
    <3> QED
      BY <1>1, <3>1 DEF Served
  <2>2. CASE queue # <<>>
    <3>1. Len(queue) # 0
      BY <1>1, <2>2, EmptySeq
    <3>2. queue' # <<>> /\ Head(queue') = Head(queue)
      BY <1>1, <1>2, <3>1, EmptySeq
    <3> QED
      BY <1>1, <2>2, <3>2 DEF Served, c0
  <2> QED
    BY <2>1, <2>2
<1>7. ASSUME NEW d \in Clients PROVE ClientSound(d)'
  <2>1. ClientSound(d)
    BY DEF IInv
  <2>2. CommandSound(d)' /\ OneWay(d)'
    BY <1>1, <2>1 DEF ClientSound, CommandSound, OneWay
  <2>3. LoadSound(d)'
    <3>1. d # c => Pending(d)' = Pending(d) /\ Awaits(d)' = Awaits(d)
      BY <1>1, <1>6 DEF Pending, Awaits
    <3>2. cmd[c].op # "load"
      BY <1>1 DEF IInv, ClientSound, CommandSound, NoCmd, Command
    <3>3. PartSound(d) => PartSound(d)'
      BY <1>1 DEF PartSound
    <3> QED
      BY <1>1, <2>1, <3>1, <3>2, <3>3 DEF ClientSound, LoadSound
  <2>4. Turns(d)'
    <3>1. CASE d = c
      <4>1. Unread(c) /\ ~Served(c)
        BY <1>1, <1>4, Quiet, ServedFacts DEF Served
      <4>2. Unread(c)'
        BY <1>1, <4>1 DEF Unread
      <4> QED
        BY <1>6, <3>1, <4>1, <4>2 DEF Turns
    <3>2. CASE d # c
      <4>1. InQueue(d)' = InQueue(d)
        <5>1. \A i \in 1..(Len(queue) + 1) : i \in 1..Len(queue) \/ i = Len(queue) + 1
          BY <1>2
        <5>2. \A i \in 1..Len(queue) : i \in 1..(Len(queue) + 1)
          BY <1>2
        <5> QED
          BY <1>2, <3>2, <5>1, <5>2 DEF InQueue
      <4>2. Unread(d)' = Unread(d) /\ HalfRead(d)' = HalfRead(d) /\ Ended(d)' = Ended(d)
        BY <1>1, <3>2 DEF Unread, HalfRead, Ended, Answers, Awaits
      <4>3. ASSUME NEW kind PROVE Underway(d, kind)' = Underway(d, kind)
        BY <1>1, <3>2 DEF Underway, Answers, Awaits
      <4>4. Conversation(d) => Conversation(d)'
        BY <1>1, <3>2, <4>2, <4>3 DEF Conversation
      <4> QED
        BY <1>1, <1>6, <2>1, <3>2, <4>1, <4>2, <4>4 DEF ClientSound, Turns
    <3> QED
      BY <3>1, <3>2
  <2> QED
    BY <2>2, <2>3, <2>4 DEF ClientSound
<1>8. CursorSound' /\ IndexCurrent'
  BY <1>1 DEF IInv, CursorSound, IndexCurrent, ToStore
<1> QED
  BY <1>3, <1>5, <1>7, <1>8 DEF IInv

\* The next part of a load, typed or not, is about to be sent.
LEMMA ComposeFacts ==
  ASSUME IInv, NEW c \in Clients, NEW f \in Files, NEW h \in Headed \cup {NoFile}, NEW from \in Nat,
         from <= Lines[f], from = Lines[f] => from = 0, Compose(c, f, h, from)
  PROVE  /\ sent' \in [Clients -> Nat] /\ msg' \in [Clients -> Messages]
         /\ \A d \in Clients \ {c} : sent'[d] = sent[d] /\ msg'[d] = msg[d]
         /\ msg'[c].op = "load" /\ msg'[c].objs = {}
         /\ (cmd'[c].file = f /\ hdr'[c] = h) => PartSound(c)'
         /\ sent'[c] - Len(msg'[c].lines) = from
<1>1. PICK chunk \in Chunks(f, h, from) :
        /\ sent' = [sent EXCEPT ![c] = from + chunk.lines]
        /\ msg' = [msg EXCEPT ![c] = chunk.msg]
  BY DEF Compose
<1>2. /\ Lines[f] \in Nat
      /\ chunk.lines \in Nat
      /\ from + chunk.lines <= Lines[f]
      /\ from # Lines[f] => chunk.lines # 0
      /\ chunk.msg \in Messages
      /\ chunk.msg.op = "load" /\ chunk.msg.objs = {} /\ chunk.msg.hdr = h
      /\ Len(chunk.msg.lines) = chunk.lines
      /\ \A k \in 1..chunk.lines : chunk.msg.lines[k] = <<f, from + k>>
      /\ chunk.msg.end = (from + chunk.lines = Lines[f])
  <2>1. IsChunk(f, h, from, chunk)
    BY ChunkFacts
  <2> QED
    BY <2>1 DEF IsChunk
<1>3. sent \in [Clients -> Nat] /\ msg \in [Clients -> Messages]
  BY DEF IInv, Types
<1>4. sent'[c] = from + chunk.lines /\ msg'[c] = chunk.msg
  BY <1>1, <1>3
<1>5. from + chunk.lines - chunk.lines = from
  BY <1>2
<1>6. Lines[f] # 0 => chunk.msg.lines # <<>>
  BY <1>2, EmptySeq
<1>7. ASSUME cmd'[c].file = f, hdr'[c] = h PROVE PartSound(c)'
  <2>1. /\ msg'[c].hdr = hdr'[c]
        /\ sent'[c] <= Lines[f] /\ Len(msg'[c].lines) <= sent'[c]
        /\ msg'[c].end = (sent'[c] = Lines[f])
        /\ Lines[f] # 0 => msg'[c].lines # <<>>
    BY <1>2, <1>4, <1>6, <1>7
  <2>2. sent'[c] - Len(msg'[c].lines) = from /\ Len(msg'[c].lines) = chunk.lines
    BY <1>2, <1>4, <1>5
  <2>3. \A k \in 1..Len(msg'[c].lines) : msg'[c].lines[k] = <<f, from + k>>
    BY <1>2, <1>4, <2>2
  <2>4. \A k \in 1..Len(msg'[c].lines) :
            msg'[c].lines[k] = <<f, sent'[c] - Len(msg'[c].lines) + k>>
    BY <2>2, <2>3
  <2> QED
    BY <1>7, <2>1, <2>4 DEF PartSound
<1>8. sent' \in [Clients -> Nat] /\ msg' \in [Clients -> Messages]
  BY <1>1, <1>2, <1>3
<1>9. \A d \in Clients \ {c} : sent'[d] = sent[d] /\ msg'[d] = msg[d]
  BY <1>1, <1>3
<1>10. sent'[c] - Len(msg'[c].lines) = from
  BY <1>2, <1>4, <1>5
<1> QED
  BY <1>2, <1>4, <1>7, <1>8, <1>9, <1>10

\* A message the client sends is behind what it sent before.
LEMMA SendKeeps ==
  ASSUME IInv, NEW c \in Clients, SendHeader(c) \/ SendPayload(c)
  PROVE  IInv'
<1>1. UNCHANGED <<cmd, hdr, sent, msg, screen, typed, down, queue, sstate, server>>
  BY DEF SendHeader, SendPayload, Send
<1>2. cstate[c] \in {"sendHeader", "sendPayload"} /\ Alive(c)
  BY DEF SendHeader, SendPayload, Send, At, Alive
<1>3. CASE sstate = "down"
  <2>1. Go(c, "gone") /\ UNCHANGED up
    BY <1>3 DEF SendHeader, SendPayload, Send
  <2> QED
    BY <1>1, <1>2, <2>1, GoneKeeps
<1>4. CASE sstate # "down"
  <2> DEFINE item == IF cstate[c] = "sendHeader" THEN Header(1) ELSE Payload(msg[c])
             to == IF cstate[c] = "sendHeader" THEN "sendPayload" ELSE "awaitHeader"
  <2>1. /\ Len(up[c]) < Capacity /\ up' = [up EXCEPT ![c] = Append(@, item)]
        /\ cstate' = [cstate EXCEPT ![c] = to]
    BY <1>4 DEF SendHeader, SendPayload, Send, At, Go
  <2>2. /\ cstate \in [Clients -> ClientStates] /\ up \in [Clients -> Seq(Asked)]
        /\ msg[c] \in Messages
    BY DEF IInv, Types
  <2>3. item \in Asked
    BY <2>2 DEF Asked, Header, Payload
  <2> HIDE DEF item
  <2>4. /\ Append(up[c], item) \in Seq(Asked)
        /\ Len(Append(up[c], item)) = Len(up[c]) + 1 /\ Len(up[c]) \in Nat
    BY <2>2, <2>3, AppendProperties, LenProperties
  <2>5. /\ cstate'[c] = to /\ up'[c] = Append(up[c], item)
        /\ \A d \in Clients \ {c} : cstate'[d] = cstate[d] /\ up'[d] = up[d]
    BY <2>1, <2>2
  <2>6. /\ UNCHANGED <<cmd, hdr, sent, msg, screen, typed, down, queue, sstate>>
        /\ UNCHANGED <<query, reply, cursor, running, table, indexed, stored>>
    BY <1>1 DEF server
  <2>7. Types'
    <3>1. Capacity \in Nat
      BY ProtocolAssumption
    <3>2. Len(up'[c]) <= Capacity
      BY <2>1, <2>4, <2>5, <3>1
    <3>3. up' \in [Clients -> Seq(Asked)] /\ cstate' \in [Clients -> ClientStates]
      BY <2>1, <2>2, <2>4 DEF ClientStates
    <3>4. \A d \in Clients : Len(up'[d]) <= Capacity
      BY <2>5, <3>2 DEF IInv, Types
    <3> QED
      BY <2>6, <3>3, <3>4 DEF IInv, Types
  <2>8. ClientSound(c)
    BY DEF IInv
  <2>9. CommandSound(c)' /\ cmd[c] # NoCmd
    BY <1>2, <2>5, <2>6, <2>8 DEF ClientSound, CommandSound
  <2>10. /\ Served(c)' = Served(c) /\ InQueue(c)' = InQueue(c)
         /\ Served(c) => sstate \notin {"accept", "down"} /\ sstate \in ServerStates
    BY <2>6 DEF Served, InQueue, c0, IInv, Types
  <2>11. Turns(c)' /\ OneWay(c)'
    <3>1. CASE cstate[c] = "sendHeader"
      <4>1. Unread(c) /\ (Served(c) => AnswerSent)
        BY <3>1, Quiet
      <4>2. up[c] = <<>> /\ down[c] = <<>>
        BY <3>1, <4>1 DEF Unread
      <4>3. up'[c] = <<Header(1)>> /\ cstate'[c] = "sendPayload" /\ down'[c] = <<>>
        BY <2>5, <2>6, <3>1, <4>2 DEF item
      <4>4. Unread(c)'
        BY <4>3 DEF Unread
      <4> QED
        BY <2>6, <2>10, <4>1, <4>4, UnreadTurns DEF Turns, Conversation, OneWay, Unread
    <3>2. CASE cstate[c] = "sendPayload"
      <4>1. cstate'[c] = "awaitHeader" /\ item = Payload(msg[c]) /\ down' = down
        BY <2>5, <2>6, <3>2 DEF item
      <4>2. ~Answers(c)
        BY <3>2 DEF Answers, Awaits
      <4>3. Unread(c) \/ (Served(c) /\ sstate = "recvPayload" /\ HalfRead(c))
        BY <2>8, <2>10, <3>2, <4>2 DEF ClientSound, Turns, Conversation, Ended, Underway, ServerStates
      <4>4. CASE Unread(c)
        <5>1. up[c] = <<Header(1)>> /\ down[c] = <<>>
          BY <3>2, <4>4 DEF Unread
        <5>2. up'[c] = <<Header(1), Payload(msg[c])>>
          <6>1. Header(1) \in Asked
            BY DEF Asked, Header
          <6> QED
            BY <2>3, <2>5, <4>1, <5>1, <6>1, TwoMessages
        <5>3. Unread(c)'
          BY <2>6, <4>1, <5>1, <5>2 DEF Unread
        <5>4. Served(c) => AnswerSent
          BY <2>8, <2>10, <3>2, <4>2, <5>1 DEF ClientSound, Turns, Conversation, Underway, HalfRead, ServerStates
        <5> QED
          BY <2>6, <2>10, <5>3, <5>4 DEF Turns, Conversation, OneWay, Unread
      <4>5. CASE Served(c) /\ sstate = "recvPayload" /\ HalfRead(c)
        <5>1. up[c] = <<>> /\ down[c] = <<>>
          BY <3>2, <4>5 DEF HalfRead
        <5>2. up'[c] = <<Payload(msg[c])>>
          BY <2>5, <4>1, <5>1
        <5>3. HalfRead(c)'
          BY <2>6, <2>9, <4>1, <5>1, <5>2 DEF HalfRead
        <5> QED
          BY <2>6, <2>10, <4>5, <5>1, <5>3, <4>1 DEF Turns, Conversation, OneWay
      <4> QED
        BY <4>3, <4>4, <4>5
    <3> QED
      BY <1>2, <3>1, <3>2
  <2>12. LoadSound(c)'
    <3>1. up'[c] # <<>>
      BY <2>4, <2>5, EmptySeq
    <3>2. Pending(c) /\ Pending(c)'
      BY <1>2, <3>1 DEF Pending
    <3>3. PartSound(c) => PartSound(c)'
      BY <2>6 DEF PartSound
    <3> QED
      BY <2>6, <2>8, <3>2, <3>3 DEF ClientSound, LoadSound
  <2>13. Partial(c)' = Partial(c)
    BY <2>6 DEF Partial, ToStore
  <2>14. cstate[c] # "off" /\ cstate'[c] # "off"
    BY <1>2, <2>5
  <2> QED
    BY <2>5, <2>6, <2>7, <2>9, <2>11, <2>12, <2>13, <2>14, ClientStep DEF ClientSound
<1> QED
  BY <1>3, <1>4

\* A command is typed when nothing is under way.
LEMMA TypeKeeps ==
  ASSUME IInv, NEW c \in Clients, Type(c)
  PROVE  IInv'
<1>1. PICK k \in Commands :
        /\ cmd' = [cmd EXCEPT ![c] = k]
        /\ IF k.op = "load" THEN TypeLoad(c, k.file)
           ELSE /\ msg' = [msg EXCEPT ![c] = Message(k.op, k.objs, NoFile, <<>>, FALSE)]
                /\ UNCHANGED <<hdr, sent>>
  BY DEF Type
<1>2. /\ cstate[c] = "prompt" /\ typed[c] < MaxCommands
      /\ typed' = [typed EXCEPT ![c] = @ + 1]
      /\ screen' = [screen EXCEPT ![c] = <<>>]
      /\ stored' = [stored EXCEPT ![c] = 0]
      /\ cstate' = [cstate EXCEPT ![c] = "sendHeader"]
      /\ UNCHANGED <<up, down, queue, sstate, query, reply, cursor, running, table, indexed>>
  BY DEF Type, At, Go
<1>3. Types /\ ClientSound(c)
  BY DEF IInv
<1>4. /\ k.op \in {"print", "load", "shutdown", "run", "none"} /\ k.objs \in Operands /\ k # NoCmd
      /\ k.op = "load" => k.file \in Files /\ k.objs = {}
  BY CommandTyped
<1>5. /\ cstate'[c] = "sendHeader" /\ cmd'[c] = k /\ stored'[c] = 0
      /\ \A d \in Clients \ {c} : cstate'[d] = cstate[d] /\ cmd'[d] = cmd[d] /\ stored'[d] = stored[d]
  BY <1>1, <1>2, <1>3 DEF Types
<1>6. /\ sent' \in [Clients -> Nat] /\ msg' \in [Clients -> Messages]
      /\ hdr' \in [Clients -> Headed \cup {NoFile}]
      /\ \A d \in Clients \ {c} : hdr'[d] = hdr[d] /\ sent'[d] = sent[d] /\ msg'[d] = msg[d]
      /\ msg'[c].op = k.op /\ msg'[c].objs = k.objs
      /\ k.op = "load" => PartSound(c)' /\ sent'[c] - Len(msg'[c].lines) = 0
  <2>1. CASE k.op = "load"
    <3> DEFINE h == IF k.file \in Headed THEN k.file ELSE hdr[c]
    <3>1. /\ h # NoFile /\ hdr' = [hdr EXCEPT ![c] = h] /\ Compose(c, k.file, h, 0)
      BY <1>1, <2>1 DEF TypeLoad
    <3>2. h \in Headed /\ hdr \in [Clients -> Headed \cup {NoFile}]
      BY <1>3, <3>1 DEF Types
    <3>3. k.file \in Files /\ 0 <= Lines[k.file]
      BY <1>4, <2>1, ProtocolAssumption
    <3>4. /\ hdr' \in [Clients -> Headed \cup {NoFile}] /\ hdr'[c] = h
          /\ \A d \in Clients \ {c} : hdr'[d] = hdr[d]
      BY <3>1, <3>2
    <3> HIDE DEF h
    <3>5. /\ sent' \in [Clients -> Nat] /\ msg' \in [Clients -> Messages]
          /\ \A d \in Clients \ {c} : sent'[d] = sent[d] /\ msg'[d] = msg[d]
          /\ msg'[c].op = "load" /\ msg'[c].objs = {}
          /\ (cmd'[c].file = k.file /\ hdr'[c] = h) => PartSound(c)'
          /\ sent'[c] - Len(msg'[c].lines) = 0
      BY <3>1, <3>2, <3>3, ComposeFacts
    <3> QED
      BY <1>4, <1>5, <2>1, <3>4, <3>5
  <2>2. CASE k.op # "load"
    <3> DEFINE m == Message(k.op, k.objs, NoFile, <<>>, FALSE)
    <3>1. msg' = [msg EXCEPT ![c] = m] /\ hdr' = hdr /\ sent' = sent
      BY <1>1, <2>2
    <3>2. m \in Messages /\ m.op = k.op /\ m.objs = k.objs
      BY <1>4, EmptySeq DEF Message, Messages
    <3> HIDE DEF m
    <3> QED
      BY <1>3, <2>2, <3>1, <3>2 DEF Types
  <2> QED
    BY <2>1, <2>2
<1>7. Types'
  <2>1. typed' \in [Clients -> 0..MaxCommands]
    BY <1>2, <1>3, ProtocolAssumption, SMTT(30) DEF Types
  <2>2. /\ cmd' \in [Clients -> Commands \cup {NoCmd}]
        /\ cstate' \in [Clients -> ClientStates]
        /\ stored' \in [Clients -> Nat]
    BY <1>1, <1>2, <1>3 DEF Types, ClientStates
  <2>3. screen' \in [Clients -> Seq(Shows)]
    BY <1>2, <1>3, EmptySeq DEF Types
  <2> QED
    BY <1>2, <1>3, <1>6, <2>1, <2>2, <2>3 DEF Types
<1>8. Turns(c)' /\ OneWay(c)'
  <2>1. Unread(c) /\ (Served(c) => AnswerSent)
    BY <1>2, Quiet
  <2>2. Unread(c)'
    BY <1>2, <1>5, <2>1 DEF Unread
  <2>3. Served(c)' = Served(c)
    BY <1>2 DEF Served, c0
  <2> QED
    BY <1>2, <2>1, <2>2, <2>3 DEF Turns, Conversation, OneWay, Unread
<1>9. CommandSound(c)'
  BY <1>4, <1>5, <1>6 DEF CommandSound
<1>10. LoadSound(c)'
  <2>1. Pending(c)'
    BY <1>5 DEF Pending
  <2> QED
    BY <1>5, <1>6, <2>1 DEF LoadSound
<1>11. ~Partial(c)
  <2>1. cmd[c].op # "load"
    BY <1>2, <1>3 DEF ClientSound, CommandSound, NoCmd, Command
  <2>2. stored[c] \in Nat /\ ToStore(c) = <<>>
    BY <1>3, <2>1 DEF Types, ToStore
  <2> QED
    BY <2>2, EmptySeq DEF Partial
<1> QED
  BY <1>2, <1>5, <1>6, <1>7, <1>8, <1>9, <1>10, <1>11, ClientStep DEF ClientSound

\* The next message down: its kind, and when it is the last.
LEMMA AnswerFacts ==
  ASSUME IInv, NEW c \in Clients, Awaits(c), down[c] # <<>>
  PROVE  /\ Served(c) /\ up[c] = <<>> /\ Answers(c)
         /\ down[c] \in Seq(Told) /\ Head(down[c]) = down[c][1] /\ 1 \in 1..Len(down[c])
         /\ Head(down[c]).kind = IF cstate[c] = "awaitHeader" THEN "header" ELSE "payload"
         /\ ~Goes(Head(down[c])) => AnswerSent /\ Tail(down[c]) = <<>>
<1>1. down[c] \in Seq(Told) /\ sstate \in ServerStates /\ ClientSound(c)
  BY DEF IInv, Types
<1>2. Head(down[c]) = down[c][1] /\ 1 \in 1..Len(down[c]) /\ Len(down[c]) \in Nat
  BY <1>1, HeadTailProperties, EmptySeq, LenProperties
<1>3. Served(c)
  BY <1>1 DEF ClientSound, Turns, Unread, Awaits
<1>4. Conversation(c) /\ sstate \notin {"accept", "down"}
  BY <1>1, <1>3 DEF ClientSound, Turns, Served
<1>5. /\ up[c] = <<>> /\ Answers(c)
      /\ (AnswerSent /\ Ended(c)) \/ Goes(down[c][Len(down[c])])
  BY <1>1, <1>4 DEF Conversation, ServerStates, Unread, HalfRead, Ended, Underway, Awaits
<1>6. ASSUME ~Goes(Head(down[c])) PROVE AnswerSent /\ Tail(down[c]) = <<>>
  <2>1. Len(down[c]) = 1
    <3>1. \A i \in 1..Len(down[c]) : i > 1 => Goes(down[c][i - 1])
      BY <1>5 DEF Answers
    <3>2. ~(2 \in 1..Len(down[c]))
      <4>1. 2 - 1 = 1 /\ 2 > 1
        OBVIOUS
      <4> QED
        BY <1>2, <1>6, <3>1, <4>1
    <3>3. \A n \in Nat : 1 \in 1..n /\ ~(2 \in 1..n) => n = 1
      OBVIOUS
    <3> QED
      BY <1>2, <3>2, <3>3
  <2>2. Len(Tail(down[c])) = 0 /\ Tail(down[c]) \in Seq(Told)
    BY <1>1, <2>1, HeadTailProperties
  <2> QED
    BY <1>2, <1>5, <1>6, <2>1, <2>2, EmptySeq
<1> QED
  BY <1>1, <1>2, <1>3, <1>5, <1>6 DEF Answers

\* The lines of a load.
LEMMA ToStoreLength ==
  ASSUME NEW c, cmd[c].op = "load", cmd[c].file \in Files
  PROVE  /\ hdr[c] \notin Known => Len(ToStore(c)) = 0
         /\ hdr[c] \in Known =>
                Len(ToStore(c)) = IF Lines[cmd[c].file] = 0 THEN 1 ELSE Lines[cmd[c].file]
<1> DEFINE f == cmd[c].file
           lines == [k \in 1..Lines[f] |-> <<f, k>>]
<1>1. Lines[f] \in Nat
  BY ProtocolAssumption
<1>2. lines \in Seq(Line) /\ DOMAIN lines = 1..Lines[f]
  <2>1. lines \in [1..Lines[f] -> Line]
    BY <1>1 DEF Line
  <2> QED
    BY <1>1, <2>1, SeqDef
<1> HIDE DEF lines
<1>3. Len(lines) = Lines[f]
  BY <1>1, <1>2, SequenceLength
<1>4. ToStore(c) = IF hdr[c] \notin Known THEN <<>> ELSE IF Lines[f] = 0 THEN <<Junk>> ELSE lines
  BY DEF ToStore, lines
<1>5. Len(<<>>) = 0 /\ Len(<<Junk>>) = 1
  OBVIOUS
<1> QED
  BY <1>3, <1>4, <1>5

\* Whether the client waits for another message is what the one it read says.
LEMMA ReadFacts ==
  ASSUME IInv, NEW c \in Clients, AwaitHeader(c) \/ AwaitPayload(c)
  PROVE  /\ Awaits(c) /\ down[c] # <<>>
         /\ down' = [down EXCEPT ![c] = Tail(@)]
         /\ UNCHANGED <<hdr, typed, up, queue, sstate, server>>
         /\ screen' \in [Clients -> Seq(Shows)]
         /\ Goes(Head(down[c])) =>
                /\ cstate' = [cstate EXCEPT ![c] = IF cstate[c] = "awaitHeader" THEN "awaitPayload"
                                                   ELSE "awaitHeader"]
                /\ UNCHANGED <<cmd, sent, msg>>
         /\ ~Goes(Head(down[c])) => Return(c)
<1>1. Awaits(c) /\ down[c] # <<>>
  BY DEF AwaitHeader, AwaitPayload, At, Awaits
<1>2. down[c] \in Seq(Told) /\ screen \in [Clients -> Seq(Shows)]
  BY DEF IInv, Types
<1>3. /\ Head(down[c]) \in Told
      /\ Head(down[c]).kind = IF cstate[c] = "awaitHeader" THEN "header" ELSE "payload"
  <2>1. Head(down[c]) \in Told
    BY <1>1, <1>2, HeadTailProperties
  <2> QED
    BY <1>1, <2>1, AnswerFacts
<1>4. CASE AwaitHeader(c)
  <2>1. cstate[c] = "awaitHeader" /\ screen' = screen
    BY <1>4 DEF AwaitHeader, At
  <2>2. Head(down[c]).length \in {0, 1} /\ Head(down[c]).kind = "header"
    BY <1>3, <2>1 DEF Told
  <2>3. Goes(Head(down[c])) = (Head(down[c]).length > 0)
    BY <2>2 DEF Goes
  <2> QED
    BY <1>1, <1>2, <1>4, <2>1, <2>3 DEF AwaitHeader, Go
<1>5. CASE AwaitPayload(c)
  <2> DEFINE answer == Head(down[c]).what
  <2>1. cstate[c] = "awaitPayload" /\ screen' = [screen EXCEPT ![c] = @ \o answer.rows]
    BY <1>5 DEF AwaitPayload, At
  <2>2. answer \in Replies /\ Head(down[c]).kind = "payload"
    BY <1>3, <2>1 DEF Told
  <2>3. Goes(Head(down[c])) = answer.more
    BY <2>2 DEF Goes
  <2>4. screen' \in [Clients -> Seq(Shows)]
    <3>1. answer.rows \in Seq(Shows) /\ screen[c] \in Seq(Shows)
      BY <1>2, <2>2 DEF Replies
    <3>2. screen[c] \o answer.rows \in Seq(Shows)
      BY <3>1, ConcatProperties
    <3> QED
      BY <1>2, <2>1, <3>2
  <2> QED
    BY <1>1, <1>5, <2>1, <2>3, <2>4 DEF AwaitPayload, Continues, Go
<1> QED
  BY <1>4, <1>5

\* A sequence of more than one message without its first.
LEMMA TailFacts ==
  ASSUME NEW S, NEW s \in Seq(S), s # <<>>
  PROVE  /\ Tail(s) \in Seq(S) /\ Len(s) \in Nat /\ Len(Tail(s)) = Len(s) - 1
         /\ \A i \in 1..Len(Tail(s)) : i + 1 \in 1..Len(s) /\ Tail(s)[i] = s[i + 1]
         /\ Tail(s) # <<>> => Len(Tail(s)) \in 1..Len(Tail(s))
                              /\ Tail(s)[Len(Tail(s))] = s[Len(s)]
         /\ Tail(s) = <<>> => Len(s) = 1
<1>1. /\ Tail(s) \in Seq(S) /\ Len(s) \in Nat /\ Len(Tail(s)) = Len(s) - 1
      /\ \A i \in 1..Len(Tail(s)) : Tail(s)[i] = s[i + 1]
  BY HeadTailProperties, LenProperties
<1>2. \A i \in 1..Len(Tail(s)) : i + 1 \in 1..Len(s)
  BY <1>1
<1>3. Len(Tail(s)) \in Nat /\ (Tail(s) # <<>> <=> Len(Tail(s)) # 0)
  BY <1>1, LenProperties, EmptySeq
<1> QED
  BY <1>1, <1>2, <1>3

\* The answer goes on after the message that was read.
LEMMA ReadOn ==
  ASSUME IInv, NEW c \in Clients, Awaits(c), down[c] # <<>>, Goes(Head(down[c])),
         cstate'[c] = IF cstate[c] = "awaitHeader" THEN "awaitPayload" ELSE "awaitHeader",
         down'[c] = Tail(down[c]), up' = up, queue' = queue, sstate' = sstate,
         query' = query, msg' = msg
  PROVE  Turns(c)' /\ OneWay(c)'
<1>1. /\ Served(c) /\ up[c] = <<>> /\ Answers(c)
      /\ down[c] \in Seq(Told) /\ Head(down[c]) = down[c][1] /\ 1 \in 1..Len(down[c])
      /\ Head(down[c]).kind = IF cstate[c] = "awaitHeader" THEN "header" ELSE "payload"
  BY AnswerFacts
<1>2. /\ Tail(down[c]) \in Seq(Told) /\ Len(down[c]) \in Nat
      /\ Len(Tail(down[c])) = Len(down[c]) - 1
      /\ \A i \in 1..Len(Tail(down[c])) : i + 1 \in 1..Len(down[c]) /\ Tail(down[c])[i] = down[c][i + 1]
      /\ Tail(down[c]) # <<>> => Len(Tail(down[c])) \in 1..Len(Tail(down[c]))
                                 /\ Tail(down[c])[Len(Tail(down[c]))] = down[c][Len(down[c])]
      /\ Tail(down[c]) = <<>> => Len(down[c]) = 1
  BY <1>1, TailFacts
<1>3. Awaits(c)'
  BY DEF Awaits
<1>4. \A m \in Told : m.kind \in {"header", "payload"}
  BY DEF Told
<1>5. Answers(c)'
  <2> SUFFICES ASSUME NEW i \in 1..Len(Tail(down[c]))
               PROVE  /\ i = 1 => Tail(down[c])[i].kind =
                                     IF cstate'[c] = "awaitHeader" THEN "header" ELSE "payload"
                      /\ i > 1 => /\ Goes(Tail(down[c])[i - 1])
                                  /\ Tail(down[c])[i].kind # Tail(down[c])[i - 1].kind
    BY <1>3 DEF Answers
  <2>1. /\ i + 1 \in 1..Len(down[c]) /\ Tail(down[c])[i] = down[c][i + 1] /\ i \in Nat
        /\ (i + 1) - 1 = i /\ i + 1 > 1
    BY <1>2
  <2>2. Goes(down[c][i]) /\ down[c][i + 1].kind # down[c][i].kind
    BY <1>1, <2>1 DEF Answers
  <2>3. CASE i = 1
    <3>1. down[c][2].kind \in {"header", "payload"} /\ down[c][2].kind # down[c][1].kind
      BY <1>1, <1>4, <2>1, <2>2, <2>3, ElementOfSeq
    <3>2. Tail(down[c])[i].kind = down[c][2].kind
      BY <2>1, <2>3
    <3> QED
      BY <1>1, <2>3, <3>1, <3>2 DEF Awaits
  <2>4. CASE i > 1
    <3>1. i - 1 \in 1..Len(Tail(down[c])) /\ (i - 1) + 1 = i
      BY <1>2, <2>1, <2>4
    <3>2. Tail(down[c])[i - 1] = down[c][i]
      BY <1>2, <3>1
    <3> QED
      BY <2>1, <2>2, <2>4, <3>2
  <2> QED
    BY <2>1, <2>3, <2>4
<1>6. Served(c)' = Served(c) /\ sstate \in ServerStates
  BY DEF Served, c0, IInv, Types
<1>7. Conversation(c) /\ sstate \notin {"accept", "down"}
  BY <1>1 DEF IInv, ClientSound, Turns, Served
<1>8. Ended(c) => Ended(c)'
  BY <1>1, <1>2, <1>5 DEF Ended
<1>9. ASSUME NEW kind \in {"header", "payload"}, Underway(c, kind) PROVE Underway(c, kind)'
  BY <1>1, <1>2, <1>5, <1>9 DEF Underway, Awaits
<1>10. Conversation(c)'
  BY <1>1, <1>7, <1>8, <1>9 DEF Conversation, Unread, HalfRead, Awaits
<1> QED
  BY <1>1, <1>6, <1>10 DEF Turns, OneWay

\* A client reads the next message of its answer; after the last it is at its prompt
\* or sends the next part of a load.
LEMMA ReadKeeps ==
  ASSUME IInv, NEW c \in Clients, AwaitHeader(c) \/ AwaitPayload(c)
  PROVE  IInv'
<1>1. /\ Awaits(c) /\ down[c] # <<>>
      /\ down' = [down EXCEPT ![c] = Tail(@)]
      /\ UNCHANGED <<hdr, typed, up, queue, sstate, server>>
      /\ screen' \in [Clients -> Seq(Shows)]
      /\ Goes(Head(down[c])) =>
             /\ cstate' = [cstate EXCEPT ![c] = IF cstate[c] = "awaitHeader" THEN "awaitPayload"
                                                ELSE "awaitHeader"]
             /\ UNCHANGED <<cmd, sent, msg>>
      /\ ~Goes(Head(down[c])) => Return(c)
  BY ReadFacts
<1>2. UNCHANGED <<query, reply, cursor, running, table, indexed, stored>>
  BY <1>1 DEF server
<1>3. Types /\ ClientSound(c)
  BY DEF IInv
<1>4. /\ Served(c) /\ up[c] = <<>> /\ down[c] \in Seq(Told)
      /\ ~Goes(Head(down[c])) => AnswerSent /\ Tail(down[c]) = <<>>
  BY <1>1, AnswerFacts
<1>5. /\ down'[c] = Tail(down[c]) /\ down' \in [Clients -> Seq(Told)]
      /\ \A d \in Clients : Len(down'[d]) <= Capacity
      /\ \A d \in Clients \ {c} : down'[d] = down[d]
  <2>1. Tail(down[c]) \in Seq(Told) /\ Len(down[c]) \in Nat /\ Len(Tail(down[c])) = Len(down[c]) - 1
    BY <1>1, <1>4, TailFacts
  <2>2. Len(Tail(down[c])) <= Capacity
    BY <1>3, <2>1, ProtocolAssumption DEF Types
  <2> QED
    BY <1>1, <1>3, <2>1, <2>2 DEF Types
<1>6. cmd[c] # NoCmd /\ cstate[c] \notin {"off", "gone"}
  BY <1>1, <1>3 DEF ClientSound, CommandSound, Awaits
<1>7. CASE Goes(Head(down[c]))
  <2>1. /\ cstate' = [cstate EXCEPT ![c] = IF cstate[c] = "awaitHeader" THEN "awaitPayload"
                                           ELSE "awaitHeader"]
        /\ UNCHANGED <<cmd, sent, msg>>
    BY <1>1, <1>7
  <2>2. /\ cstate' \in [Clients -> ClientStates]
        /\ cstate'[c] = IF cstate[c] = "awaitHeader" THEN "awaitPayload" ELSE "awaitHeader"
        /\ \A d \in Clients \ {c} : cstate'[d] = cstate[d]
    BY <1>3, <2>1 DEF Types, ClientStates
  <2>3. Types'
    BY <1>1, <1>2, <1>3, <1>5, <2>1, <2>2 DEF Types
  <2>4. Turns(c)' /\ OneWay(c)'
    BY <1>1, <1>2, <1>5, <1>7, <2>1, <2>2, ReadOn
  <2>5. CommandSound(c)'
    BY <1>3, <1>6, <2>1, <2>2 DEF ClientSound, CommandSound
  <2>6. LoadSound(c)'
    <3>1. Served(c)' = Served(c)
      BY <1>1 DEF Served, c0
    <3>2. Pending(c)' = Pending(c) /\ Awaits(c)'
      BY <1>1, <1>2, <2>2, <3>1 DEF Pending, Awaits
    <3>3. PartSound(c) => PartSound(c)'
      BY <1>1, <2>1 DEF PartSound
    <3> QED
      BY <1>1, <1>2, <1>3, <2>1, <3>2, <3>3 DEF ClientSound, LoadSound
  <2>7. Partial(c)' = Partial(c)
    BY <1>1, <1>2, <2>1 DEF Partial, ToStore
  <2> QED
    BY <1>1, <1>2, <1>5, <1>6, <2>1, <2>2, <2>3, <2>4, <2>5, <2>6, <2>7, ClientStep DEF ClientSound
<1>8. CASE ~Goes(Head(down[c]))
  <2>1. Return(c) /\ AnswerSent /\ down'[c] = <<>> /\ sstate' = sstate
    BY <1>1, <1>4, <1>5, <1>8
  <2>2. ~Pending(c)
    BY <1>1, <1>4, <2>1 DEF Pending, Awaits
  <2>3. cmd[c].op = "load" =>
            /\ PartSound(c)
            /\ hdr[c] \in Known => stored[c] = IF Lines[cmd[c].file] = 0 THEN 1 ELSE sent[c]
            /\ hdr[c] \notin Known => stored[c] = 0
    BY <1>1, <1>3, <2>2 DEF ClientSound, LoadSound
  <2>4. ASSUME Unread(c)' PROVE Turns(c)' /\ OneWay(c)'
    BY <2>1, <2>4 DEF Turns, Conversation, OneWay, Unread
  <2>5. CASE cmd[c].op = "load" /\ ~msg[c].end
    <3> DEFINE f == cmd[c].file
    <3>1. Compose(c, f, hdr[c], sent[c]) /\ cmd' = cmd /\ cstate' = [cstate EXCEPT ![c] = "sendHeader"]
      BY <2>1, <2>5 DEF Return, Go
    <3>2. /\ f \in Files /\ Lines[f] \in Nat /\ sent[c] \in Nat /\ sent[c] <= Lines[f]
          /\ sent[c] # Lines[f] /\ hdr[c] \in Headed \cup {NoFile}
      BY <1>3, <2>3, <2>5, ProtocolAssumption DEF PartSound, Types
    <3>3. /\ sent' \in [Clients -> Nat] /\ msg' \in [Clients -> Messages]
          /\ \A d \in Clients \ {c} : sent'[d] = sent[d] /\ msg'[d] = msg[d]
          /\ msg'[c].op = "load" /\ msg'[c].objs = {}
          /\ PartSound(c)'
          /\ sent'[c] - Len(msg'[c].lines) = sent[c]
      <4>1. PICK g \in Files, h \in Headed \cup {NoFile}, n \in Nat :
                g = f /\ h = hdr[c] /\ n = sent[c]
        BY <3>2
      <4>2. Compose(c, g, h, n)
        BY <3>1, <4>1 DEF Compose
      <4>3. n <= Lines[g] /\ (n = Lines[g] => n = 0)
        BY <3>2, <4>1
      <4>4. cmd'[c].file = g /\ hdr'[c] = h
        BY <1>1, <3>1, <4>1
      <4>5. /\ sent' \in [Clients -> Nat] /\ msg' \in [Clients -> Messages]
            /\ \A d \in Clients \ {c} : sent'[d] = sent[d] /\ msg'[d] = msg[d]
            /\ msg'[c].op = "load" /\ msg'[c].objs = {}
            /\ (cmd'[c].file = g /\ hdr'[c] = h) => PartSound(c)'
            /\ sent'[c] - Len(msg'[c].lines) = n
        BY <4>2, <4>3, ComposeFacts
      <4> QED
        BY <4>1, <4>4, <4>5
    <3>4. /\ cstate' \in [Clients -> ClientStates] /\ cstate'[c] = "sendHeader"
          /\ \A d \in Clients \ {c} : cstate'[d] = cstate[d]
      BY <1>3, <3>1 DEF Types, ClientStates
    <3>5. Types'
      BY <1>1, <1>2, <1>3, <1>5, <3>1, <3>3, <3>4 DEF Types
    <3>6. Unread(c)'
      BY <1>1, <1>4, <2>1, <3>4 DEF Unread
    <3>7. CommandSound(c)'
      <4>1. cmd[c].objs = {}
        BY <1>3, <1>6, <2>5, CommandTyped DEF Types
      <4> QED
        BY <1>6, <2>5, <3>1, <3>3, <3>4, <4>1 DEF CommandSound
    <3>8. LoadSound(c)'
      <4>1. Pending(c)'
        BY <3>4 DEF Pending
      <4>2. hdr[c] \in Known => stored[c] = sent[c]
        BY <2>3, <2>5, <3>2
      <4> QED
        BY <1>1, <1>2, <2>3, <2>5, <3>1, <3>3, <4>1, <4>2 DEF LoadSound
    <3>9. Partial(c)' = Partial(c)
      BY <1>1, <1>2, <3>1 DEF Partial, ToStore
    <3> QED
      BY <1>1, <1>2, <1>5, <1>6, <2>4, <3>1, <3>3, <3>4, <3>5, <3>6, <3>7, <3>8, <3>9, ClientStep
         DEF ClientSound
  <2>6. CASE ~(cmd[c].op = "load" /\ ~msg[c].end)
    <3>1. /\ cstate' = [cstate EXCEPT ![c] = "prompt"] /\ cmd' = [cmd EXCEPT ![c] = NoCmd]
          /\ UNCHANGED <<sent, msg>>
      BY <2>1, <2>6 DEF Return, Go
    <3>2. /\ cstate' \in [Clients -> ClientStates] /\ cstate'[c] = "prompt"
          /\ cmd' \in [Clients -> Commands \cup {NoCmd}] /\ cmd'[c] = NoCmd
          /\ \A d \in Clients \ {c} : cstate'[d] = cstate[d] /\ cmd'[d] = cmd[d]
      BY <1>3, <3>1 DEF Types, ClientStates
    <3>3. Types'
      BY <1>1, <1>2, <1>3, <1>5, <3>1, <3>2 DEF Types
    <3>4. Unread(c)'
      BY <1>1, <1>4, <2>1, <3>2 DEF Unread
    <3>5. CommandSound(c)' /\ LoadSound(c)'
      BY <3>2 DEF CommandSound, LoadSound, NoCmd, Command
    <3>6. ~Partial(c)
      <4>1. CASE cmd[c].op # "load"
        BY <1>3, <4>1, EmptySeq DEF Partial, ToStore, Types
      <4>2. CASE cmd[c].op = "load"
        <5>1. cmd[c].file \in Files /\ sent[c] = Lines[cmd[c].file]
          BY <1>3, <2>3, <2>6, <4>2 DEF PartSound, Types
        <5>2. Lines[cmd[c].file] \in Nat
          BY <5>1, ProtocolAssumption
        <5>3. stored[c] = Len(ToStore(c)) /\ stored[c] \in Nat
          <6>1. CASE hdr[c] \in Known
            BY <1>3, <2>3, <4>2, <5>1, <6>1, ToStoreLength DEF Types
          <6>2. CASE hdr[c] \notin Known
            BY <2>3, <4>2, <5>1, <6>2, ToStoreLength
          <6> QED
            BY <6>1, <6>2
        <5> QED
          BY <5>3 DEF Partial
      <4> QED
        BY <4>1, <4>2
    <3> QED
      BY <1>1, <1>2, <1>5, <1>6, <2>4, <3>1, <3>2, <3>3, <3>4, <3>5, <3>6, ClientStep
         DEF ClientSound
  <2> QED
    BY <2>5, <2>6
<1> QED
  BY <1>7, <1>8
-------------------------------------------------------------------------------
(* The server                                                              *)

\* What a load has stored does not change while its message waits elsewhere.
LEMMA LoadKept ==
  ASSUME NEW c, LoadSound(c),
         cmd'[c] = cmd[c], hdr'[c] = hdr[c], sent'[c] = sent[c], msg'[c] = msg[c],
         cstate'[c] = cstate[c], stored'[c] = stored[c],
         Pending(c)' => Pending(c), Awaits(c) => (Pending(c)' <=> Pending(c))
  PROVE  LoadSound(c)'
<1>1. Awaits(c)' = Awaits(c) /\ (PartSound(c) => PartSound(c)')
  BY DEF Awaits, PartSound
<1> QED
  BY <1>1 DEF LoadSound

\* A server that dies, whose client is gone.
LEMMA DieKeeps ==
  ASSUME IInv, sstate \notin {"accept", "down"}, Hung, Dies, UNCHANGED <<user, up>>
  PROVE  IInv'
<1>1. /\ UNCHANGED <<cstate, cmd, hdr, sent, msg, screen, typed, up, down, queue>>
      /\ UNCHANGED <<query, reply, cursor, running, table, indexed, stored>>
      /\ sstate' = "down"
  BY DEF Dies, user, server
<1>2. cstate[c0] = "gone"
  BY DEF Hung
<1>3. Types'
  BY <1>1 DEF IInv, Types, ServerStates
<1>4. QueueSound'
  BY <1>1 DEF IInv, QueueSound, InQueue
<1>5. ASSUME NEW d \in Clients PROVE ClientSound(d)'
  <2>1. ClientSound(d)
    BY DEF IInv
  <2>2. CommandSound(d)' /\ OneWay(d)'
    BY <1>1, <2>1 DEF ClientSound, CommandSound, OneWay
  <2>3. ~Served(d)' /\ (Served(d) => cstate[d] = "gone")
    BY <1>1, <1>2 DEF Served, c0
  <2>4. Turns(d)'
    <3>1. Unread(d)' = Unread(d)
      BY <1>1 DEF Unread
    <3> QED
      BY <1>1, <2>1, <2>3, <3>1 DEF ClientSound, Turns
  <2>5. LoadSound(d)'
    <3>1. Pending(d)' => Pending(d)
      BY <1>1, <2>3 DEF Pending
    <3>2. Awaits(d) => Pending(d)' = Pending(d)
      BY <1>1, <2>3 DEF Pending, Awaits
    <3> QED
      BY <1>1, <2>1, <3>1, <3>2, LoadKept DEF ClientSound
  <2> QED
    BY <2>2, <2>4, <2>5 DEF ClientSound
<1>6. CursorSound' /\ IndexCurrent'
  BY <1>1 DEF IInv, CursorSound, IndexCurrent, ToStore
<1> QED
  BY <1>3, <1>4, <1>5, <1>6 DEF IInv

\* The first in the queue is served, and what it sent is still unread.
LEMMA AcceptKeeps ==
  ASSUME IInv, Accept
  PROVE  IInv'
<1>1. /\ sstate = "accept" /\ queue # <<>> /\ sstate' = "recvHeader"
      /\ UNCHANGED <<cstate, cmd, hdr, sent, msg, screen, typed, up, down, queue>>
      /\ UNCHANGED <<query, reply, cursor, running, table, indexed, stored>>
  BY DEF Accept, user, server
<1>2. PICK c \in Clients : c = c0 /\ InQueue(c)
  <2>1. queue \in Seq(Clients)
    BY DEF IInv, Types
  <2>2. Head(queue) \in Clients /\ 1 \in 1..Len(queue) /\ queue[1] = Head(queue)
    BY <1>1, <2>1, HeadTailProperties, EmptySeq
  <2> QED
    BY <2>2 DEF c0, InQueue
<1>3. Types'
  BY <1>1 DEF IInv, Types, ServerStates
<1>4. ClientSound(c) /\ Unread(c)
  BY <1>1, <1>2 DEF IInv, ClientSound, Turns, Served
<1>5. Served(c)' /\ Unread(c)'
  BY <1>1, <1>2, <1>4 DEF Served, Unread, c0
<1>6. CommandSound(c)' /\ OneWay(c)'
  BY <1>1, <1>4 DEF ClientSound, CommandSound, OneWay
<1>7. Turns(c)'
  BY <1>1, <1>5 DEF Turns, Conversation
<1>8. LoadSound(c)'
  <2>1. Pending(c)' = Pending(c)
    BY <1>1 DEF Pending, Served, c0
  <2> QED
    BY <1>1, <1>4, <2>1, LoadKept DEF ClientSound
<1>9. CursorSound'
  BY <1>1 DEF IInv, CursorSound
<1>10. IndexCurrent'
  BY <1>1 DEF IInv, IndexCurrent, ToStore
<1> QED
  BY <1>1, <1>2, <1>3, <1>6, <1>7, <1>8, <1>9, <1>10, ServerStep DEF ClientSound

\* The client that left makes room for the next.
LEMMA NextKeeps ==
  ASSUME IInv, sstate = "recvHeader", Hung, queue' = Tail(queue),
         sstate' = IF running THEN "accept" ELSE "down",
         UNCHANGED <<user, up, down, server>>
  PROVE  IInv'
<1>1. /\ UNCHANGED <<cstate, cmd, hdr, sent, msg, screen, typed, up, down>>
      /\ UNCHANGED <<query, reply, cursor, running, table, indexed, stored>>
      /\ sstate' \in {"accept", "down"}
  BY DEF user, server
<1>2. PICK c \in Clients :
          /\ c = c0 /\ queue # <<>> /\ InQueue(c)
          /\ Served(c) /\ ClientSound(c) /\ Conversation(c)
  BY ServedFacts
<1>3. cstate[c] = "gone" /\ c = queue[1]
  BY <1>2, HeadTailProperties DEF Hung, c0, IInv, Types
<1>4. /\ queue \in Seq(Clients) /\ queue' \in Seq(Clients) /\ Len(queue) \in Nat
      /\ Len(queue') = Len(queue) - 1
      /\ \A i \in 1..Len(queue') : i + 1 \in 1..Len(queue) /\ queue'[i] = queue[i + 1]
  BY <1>2, TailFacts DEF IInv, Types
<1>5. \A i, j \in 1..Len(queue) : queue[i] = queue[j] => i = j
  BY DEF IInv, QueueSound
<1>6. \A d \in Clients : InQueue(d)' => InQueue(d)
  BY <1>4 DEF InQueue
<1>7. ~InQueue(c)'
  <2> SUFFICES ASSUME NEW i \in 1..Len(queue'), queue'[i] = c PROVE FALSE
    BY DEF InQueue
  <2>1. i \in Nat /\ i # 0 /\ i + 1 \in 1..Len(queue) /\ queue[i + 1] = queue[1] /\ 1 \in 1..Len(queue)
    BY <1>3, <1>4
  <2>2. i + 1 = 1
    BY <1>5, <2>1
  <2> QED
    BY <2>1, <2>2
<1>8. QueueSound'
  <2>1. ASSUME NEW i \in 1..Len(queue'), NEW j \in 1..Len(queue'), queue'[i] = queue'[j]
        PROVE  i = j
    <3>1. /\ i \in Nat /\ j \in Nat /\ i + 1 \in 1..Len(queue) /\ j + 1 \in 1..Len(queue)
          /\ queue[i + 1] = queue[j + 1]
      BY <1>4, <2>1
    <3>2. i + 1 = j + 1
      BY <1>5, <3>1
    <3> QED
      BY <3>1, <3>2
  <2>2. \A d \in Clients : cstate'[d] = "off" => ~InQueue(d)'
    BY <1>1, <1>6 DEF IInv, QueueSound
  <2> QED
    BY <1>1, <2>1, <2>2 DEF QueueSound
<1>9. Types'
  BY <1>1, <1>4 DEF IInv, Types, ServerStates
<1>10. ASSUME NEW d \in Clients PROVE ClientSound(d)'
  <2>1. ClientSound(d)
    BY DEF IInv
  <2>2. CommandSound(d)' /\ OneWay(d)'
    BY <1>1, <2>1 DEF ClientSound, CommandSound, OneWay
  <2>3. ~Served(d)' /\ (Served(d) => d = c)
    BY <1>1, <1>2 DEF Served, c0
  <2>4. Turns(d)'
    <3>1. Unread(d)' = Unread(d)
      BY <1>1 DEF Unread
    <3>2. CASE d = c
      BY <1>1, <1>3, <1>7, <2>3, <3>2 DEF Turns
    <3>3. CASE d # c
      <4>1. ~Served(d) /\ sstate # "down"
        BY <2>3, <3>3
      <4> QED
        BY <1>1, <1>6, <2>1, <2>3, <3>1, <4>1 DEF ClientSound, Turns
    <3> QED
      BY <3>2, <3>3
  <2>5. LoadSound(d)'
    <3>1. (Pending(d)' => Pending(d)) /\ (Awaits(d) => Pending(d)' = Pending(d))
      BY <1>1, <2>3 DEF Pending
    <3> QED
      BY <1>1, <2>1, <3>1, LoadKept DEF ClientSound
  <2> QED
    BY <2>2, <2>4, <2>5 DEF ClientSound
<1>11. CursorSound' /\ IndexCurrent'
  BY <1>1 DEF IInv, CursorSound, IndexCurrent, ToStore
<1> QED
  BY <1>8, <1>9, <1>10, <1>11 DEF IInv

\* A header is received, or the end of what a lost client sent.
LEMMA RecvHeaderKeeps ==
  ASSUME IInv, RecvHeader
  PROVE  IInv'
<1>1. sstate = "recvHeader" /\ UNCHANGED user
  BY DEF RecvHeader
<1>2. PICK c \in Clients :
          /\ c = c0 /\ queue # <<>> /\ InQueue(c)
          /\ Served(c) /\ ClientSound(c) /\ Conversation(c)
  BY <1>1, ServedFacts
<1>3. CASE up[c] = <<>>
  <2>1. Hung /\ up' = up /\ IF down[c] # <<>> THEN Dies
        ELSE /\ queue' = Tail(queue)
             /\ sstate' = IF running THEN "accept" ELSE "down"
             /\ UNCHANGED <<down, server>>
    BY <1>2, <1>3 DEF RecvHeader
  <2> QED
    BY <1>1, <2>1, DieKeeps, NextKeeps
<1>4. CASE up[c] # <<>>
  <2>1. /\ up' = [up EXCEPT ![c] = Tail(@)] /\ sstate' = "recvPayload"
        /\ UNCHANGED <<cstate, cmd, hdr, sent, msg, screen, typed, down, queue>>
        /\ UNCHANGED <<query, reply, cursor, running, table, indexed, stored>>
    BY <1>2, <1>4 DEF RecvHeader, user, server
  <2>2. /\ up[c] \in Seq(Asked) /\ up \in [Clients -> Seq(Asked)] /\ msg[c] \in Messages
        /\ Len(up[c]) <= Capacity /\ Capacity \in Nat /\ cstate[c] \in ClientStates
    BY ProtocolAssumption DEF IInv, Types
  <2>3. Tail(up[c]) \in Seq(Asked) /\ Len(Tail(up[c])) <= Capacity
    <3>1. /\ Tail(up[c]) \in Seq(Asked) /\ Len(up[c]) \in Nat
          /\ Len(Tail(up[c])) = Len(up[c]) - 1
      BY <1>4, <2>2, TailFacts
    <3> QED
      BY <2>2, <3>1
  <2>4. up'[c] = Tail(up[c]) /\ \A d \in Clients \ {c} : up'[d] = up[d]
    BY <2>1, <2>2
  <2>5. Types'
    <3>1. up' \in [Clients -> Seq(Asked)] /\ \A d \in Clients : Len(up'[d]) <= Capacity
      BY <2>1, <2>2, <2>3, <2>4 DEF IInv, Types
    <3> QED
      BY <2>1, <3>1 DEF IInv, Types, ServerStates
  <2>6. Unread(c)
    BY <1>1, <1>2, <1>4 DEF Conversation
  <2>7. HalfRead(c)'
    <3>1. Header(1) \in Asked /\ Payload(msg[c]) \in Asked
      BY <2>2 DEF Asked, Header, Payload
    <3>2. /\ Tail(<<Header(1)>>) = <<>>
          /\ Tail(<<Header(1), Payload(msg[c])>>) = <<Payload(msg[c])>>
      BY <3>1, TwoMessages
    <3>3. cstate[c] = "awaitHeader" => cmd[c] # NoCmd
      BY <1>2 DEF ClientSound, CommandSound
    <3>4. \/ up[c] = <<Header(1)>> /\ cstate[c] \in {"sendPayload", "gone"}
          \/ /\ up[c] = <<Header(1), Payload(msg[c])>> /\ cmd[c] # NoCmd
             /\ cstate[c] \in {"awaitHeader", "gone"}
      BY <1>4, <2>2, <2>6, <3>3 DEF Unread, ClientStates
    <3>5. down[c] = <<>>
      BY <2>6 DEF Unread
    <3> QED
      BY <2>1, <2>4, <3>2, <3>4, <3>5 DEF HalfRead
  <2>8. Turns(c)' /\ OneWay(c)'
    <3>1. Served(c)'
      BY <1>2, <2>1 DEF Served, c0
    <3> QED
      BY <2>1, <2>7, <3>1 DEF Turns, Conversation, OneWay, HalfRead
  <2>9. CommandSound(c)'
    BY <1>2, <2>1 DEF ClientSound, CommandSound
  <2>10. LoadSound(c)'
    <3>1. Pending(c) /\ Pending(c)'
      BY <1>2, <1>4, <2>1 DEF Pending, Served, c0
    <3> QED
      BY <1>2, <2>1, <3>1, LoadKept DEF ClientSound
  <2>11. CursorSound' /\ IndexCurrent'
    BY <1>1, <2>1 DEF IInv, CursorSound, IndexCurrent, ToStore
  <2> QED
    BY <1>1, <1>2, <2>1, <2>4, <2>5, <2>8, <2>9, <2>10, <2>11, ServerStep DEF ClientSound
<1> QED
  BY <1>3, <1>4

\* A command is received, or the client is lost between header and payload.
LEMMA RecvPayloadKeeps ==
  ASSUME IInv, RecvPayload
  PROVE  IInv'
<1>1. /\ sstate = "recvPayload" /\ sstate' = "execute"
      /\ UNCHANGED <<cstate, cmd, hdr, sent, msg, screen, typed, down, queue>>
      /\ UNCHANGED <<reply, cursor, running, table, indexed, stored>>
  BY DEF RecvPayload, user
<1>2. PICK c \in Clients :
          /\ c = c0 /\ queue # <<>> /\ InQueue(c)
          /\ Served(c) /\ ClientSound(c) /\ Conversation(c)
  BY <1>1, ServedFacts
<1>3. HalfRead(c) /\ down[c] = <<>>
  BY <1>1, <1>2 DEF Conversation, HalfRead
<1>4. /\ up \in [Clients -> Seq(Asked)] /\ msg[c] \in Messages
  BY DEF IInv, Types
<1>5. /\ up' \in [Clients -> Seq(Asked)] /\ up'[c] = <<>>
      /\ \A d \in Clients \ {c} : up'[d] = up[d]
      /\ \/ cstate[c] = "gone" /\ query' = NoMsg
         \/ query' = msg[c] /\ cmd[c] # NoCmd /\ cstate[c] \in {"awaitHeader", "gone"}
      /\ query' = NoMsg \/ up[c] # <<>>
  <2>1. CASE up[c] = <<>>
    <3>1. cstate[c] = "gone" /\ query' = NoMsg /\ up' = up
      BY <1>2, <2>1 DEF RecvPayload, Hung
    <3> QED
      BY <1>4, <2>1, <3>1
  <2>2. CASE up[c] # <<>>
    <3>1. up' = [up EXCEPT ![c] = Tail(@)] /\ query' = Head(up[c]).what
      BY <1>2, <2>2 DEF RecvPayload
    <3>2. up[c] = <<Payload(msg[c])>> /\ cmd[c] # NoCmd /\ cstate[c] \in {"awaitHeader", "gone"}
      BY <1>3, <2>2 DEF HalfRead
    <3>3. Head(up[c]).what = msg[c]
      BY <3>2 DEF Payload
    <3>4. Tail(up[c]) = <<>>
      BY <3>2
    <3> QED
      BY <1>4, <2>2, <3>1, <3>2, <3>3, <3>4, EmptySeq
  <2> QED
    BY <2>1, <2>2
<1>6. Types'
  <2>1. query' \in Messages
    BY <1>4, <1>5, NoMsgTyped
  <2>2. \A d \in Clients : Len(up'[d]) <= Capacity
    <3>1. Capacity \in Nat
      BY ProtocolAssumption
    <3>2. Len(up'[c]) <= Capacity
      BY <1>5, <3>1, EmptySeq
    <3> QED
      BY <1>5, <3>2 DEF IInv, Types
  <2> QED
    BY <1>1, <1>5, <2>1, <2>2 DEF IInv, Types, ServerStates
<1>7. Served(c)'
  BY <1>1, <1>2 DEF Served, c0
<1>8. Turns(c)' /\ OneWay(c)'
  <2>1. cstate[c] = "awaitHeader" => Underway(c, "payload")'
    <3>1. Len(down[c]) = 0
      BY <1>3, EmptySeq
    <3> QED
      BY <1>1, <1>3, <3>1 DEF Underway, Answers, Awaits
  <2>2. Conversation(c)'
    BY <1>1, <1>5, <2>1 DEF Conversation
  <2> QED
    BY <1>5, <1>7, <2>2 DEF Turns, OneWay
<1>9. CommandSound(c)'
  BY <1>1, <1>2 DEF ClientSound, CommandSound
<1>10. LoadSound(c)'
  <2>1. Pending(c)
    BY <1>1, <1>2 DEF Pending
  <2>2. cmd[c].op = "load" /\ Awaits(c) => Pending(c)'
    <3>1. cmd[c] # NoCmd => msg[c].op = cmd[c].op
      BY <1>2 DEF ClientSound, CommandSound
    <3>2. cmd[c].op = "load" /\ Awaits(c) => query' # NoMsg
      BY <1>5, <3>1, NoMsgTyped DEF Awaits
    <3> QED
      BY <1>1, <1>7, <3>2 DEF Pending
  <2>3. (PartSound(c) => PartSound(c)') /\ Awaits(c)' = Awaits(c)
    BY <1>1 DEF PartSound, Awaits
  <2> QED
    BY <1>1, <1>2, <2>1, <2>2, <2>3 DEF ClientSound, LoadSound
<1>11. CursorSound' /\ IndexCurrent'
  BY <1>1 DEF IInv, CursorSound, IndexCurrent, ToStore
<1> QED
  BY <1>1, <1>2, <1>5, <1>6, <1>8, <1>9, <1>10, <1>11, ServerStep DEF ClientSound
-------------------------------------------------------------------------------
(* Execution of a command                                                  *)

\* A command changes the answer, the cursors and the table only.
LEMMA ExecuteFacts ==
  ASSUME IInv, Execute
  PROVE  \E c \in Clients :
             /\ c = c0 /\ queue # <<>> /\ Served(c) /\ ClientSound(c)
             /\ sstate = "execute" /\ sstate' = "sendHeader" /\ up[c] = <<>>
             /\ UNCHANGED <<cstate, cmd, hdr, sent, msg, screen, typed, up, down, queue>>
             /\ UNCHANGED <<query, running>>
             /\ query \in Messages /\ cmd[c] \in Commands \cup {NoCmd}
             /\ \/ cstate[c] = "gone" /\ query = NoMsg
                \/ query = msg[c] /\ cmd[c] # NoCmd
             /\ CommandSound(c)' /\ Turns(c)' /\ OneWay(c)'
             /\ ~Pending(c)'
<1>1. /\ sstate = "execute" /\ sstate' = "sendHeader"
      /\ UNCHANGED <<cstate, cmd, hdr, sent, msg, screen, typed, up, down, queue>>
      /\ UNCHANGED <<query, running>>
  BY DEF Execute, user
<1>2. PICK c \in Clients :
          /\ c = c0 /\ queue # <<>> /\ InQueue(c)
          /\ Served(c) /\ ClientSound(c) /\ Conversation(c)
  BY <1>1, ServedFacts
<1>3. query \in Messages /\ cmd[c] \in Commands \cup {NoCmd}
  BY DEF IInv, Types
<1>4. /\ up[c] = <<>>
      /\ \/ cstate[c] = "gone" /\ (query = NoMsg \/ (query = msg[c] /\ cmd[c] # NoCmd))
         \/ query = msg[c] /\ Underway(c, "payload")
  BY <1>1, <1>2 DEF Conversation
<1>5. Underway(c, "payload") => Awaits(c)
  BY DEF Underway, Answers
<1>6. \/ cstate[c] = "gone" /\ query = NoMsg
      \/ query = msg[c] /\ cmd[c] # NoCmd
  BY <1>2, <1>4, <1>5 DEF ClientSound, CommandSound, Awaits
<1>7. CommandSound(c)' /\ OneWay(c)'
  BY <1>1, <1>2 DEF ClientSound, CommandSound, OneWay
<1>8. Served(c)'
  BY <1>1, <1>2 DEF Served, c0
<1>9. Underway(c, "payload") => Underway(c, "payload")'
  BY <1>1 DEF Underway, Answers, Awaits
<1>10. Conversation(c)'
  BY <1>1, <1>4, <1>9 DEF Conversation
<1>11. ~Pending(c)'
  BY <1>1, <1>4, <1>5 DEF Pending, Awaits
<1> QED
  BY <1>1, <1>2, <1>3, <1>4, <1>6, <1>7, <1>8, <1>10, <1>11 DEF Turns

\* Where a chunk of a print ends.
LEMMA LimitFacts ==
  ASSUME NEW f \in {"one", "many"}, NEW start \in Nat, NEW rows \in Nat, start <= rows,
         NEW limit \in Limits(f, start, rows)
  PROVE  limit \in Nat /\ start <= limit /\ limit <= rows
<1>1. PrintVec \in Nat /\ TextVec \in Nat
  BY ProtocolAssumption
<1>2. CASE f = "one"
  BY <1>1, <1>2 DEF Limits, Least
<1>3. CASE f = "many"
  <2>1. limit \in (start + 1)..Least(start + TextVec, rows)
    BY <1>3 DEF Limits
  <2> QED
    BY <1>1, <2>1 DEF Least
<1> QED
  BY <1>2, <1>3

\* A chunk that is not the last leaves a cursor, the last one leaves none.
LEMMA PrintFacts ==
  ASSUME IInv, sstate = "execute", query.op = "print", NEW f \in {"one", "many"},
         f = (IF Cardinality(query.objs) = 1 THEN "one" ELSE "many"),
         PrintRows(f, query.objs)
  PROVE  /\ reply' \in Replies /\ cursor' \in [{"one", "many"} -> Cursors]
         /\ reply'.more => reply'.length = 1
         /\ \A g \in {"one", "many"} : cursor'[g].start # 0 => g = f /\ reply'.more
<1>1. /\ cursor \in [{"one", "many"} -> Cursors] /\ table \in Seq(Stored)
      /\ query.objs \in Operands
  BY DEF IInv, Types, Messages
<1>2. \A g \in {"one", "many"} : cursor[g].start # 0 => g = f
  BY DEF IInv, CursorSound
<1> DEFINE start == cursor[f].start
           rows == IF start = 0 THEN NumRows(query.objs, table) ELSE cursor[f].rows
<1>3. start \in Nat /\ rows \in Nat /\ start <= rows
  <2>1. NumRows(query.objs, table) \in Nat
    BY <1>1, NumRowsFacts
  <2>2. cursor[f].start \in Nat /\ cursor[f].rows \in Nat /\ cursor[f].start <= cursor[f].rows
    BY <1>1 DEF Cursors
  <2> QED
    BY <2>1, <2>2
<1>4. ASSUME NEW n \in Nat, NEW limit \in Nat, limit <= n, cursor' = Moved(f, n, limit)
      PROVE  /\ cursor' \in [{"one", "many"} -> Cursors]
             /\ cursor'[f].start # 0 => limit # n
             /\ \A g \in {"one", "many"} : g # f => cursor'[g].start = 0
  <2> DEFINE k == [rows |-> n, start |-> IF limit = n THEN 0 ELSE limit]
  <2>1. k \in Cursors /\ (k.start # 0 => limit # n)
    BY <1>4 DEF Cursors
  <2>2. cursor' = [cursor EXCEPT ![f] = k]
    BY <1>4 DEF Moved
  <2> HIDE DEF k
  <2> QED
    BY <1>1, <1>2, <2>1, <2>2
<1>5. CASE rows = 0
  <2>1. reply' = Text /\ cursor' = Moved(f, 0, 0)
    BY <1>5 DEF PrintRows
  <2>2. Text \in Replies /\ Text.more = FALSE
    BY NoReplyTyped DEF Text, Reply
  <2> QED
    BY <1>4, <2>1, <2>2
<1>6. CASE rows # 0
  <2>1. PICK limit \in Limits(f, start, rows) :
            /\ reply' = Reply(1, Rows(query.objs, start, limit, table), limit # rows)
            /\ cursor' = Moved(f, rows, limit)
    BY <1>6 DEF PrintRows
  <2> HIDE DEF start, rows
  <2>2. limit \in Nat /\ start <= limit /\ limit <= rows
    BY <1>3, LimitFacts
  <2>3. Rows(query.objs, start, limit, table) \in Seq(Shows)
    BY <1>1, <1>3, <2>2, RowsFacts
  <2>4. reply' \in Replies /\ reply'.more = (limit # rows) /\ reply'.length = 1
    BY <2>1, <2>3 DEF Reply, Replies
  <2>5. /\ cursor' \in [{"one", "many"} -> Cursors]
        /\ cursor'[f].start # 0 => limit # rows
        /\ \A g \in {"one", "many"} : g # f => cursor'[g].start = 0
    BY <1>3, <1>4, <2>1, <2>2
  <2> QED
    BY <2>4, <2>5
<1> QED
  BY <1>5, <1>6

\* A command that is no load stores nothing; an answer to it is no part of one.
LEMMA NoLoadKeeps ==
  ASSUME IInv, Execute, query.op # "load", UNCHANGED <<table, indexed, stored>>,
         reply' \in Replies, cursor' \in [{"one", "many"} -> Cursors],
         reply'.more => reply'.length = 1 /\ query.op = "print",
         \A g \in {"one", "many"} : cursor'[g].start # 0 =>
             /\ query.op = "print" /\ reply'.more
             /\ g = IF Cardinality(query.objs) = 1 THEN "one" ELSE "many"
  PROVE  IInv'
<1>1. PICK c \in Clients :
          /\ c = c0 /\ queue # <<>> /\ Served(c) /\ ClientSound(c)
          /\ sstate = "execute" /\ sstate' = "sendHeader" /\ up[c] = <<>>
          /\ UNCHANGED <<cstate, cmd, hdr, sent, msg, screen, typed, up, down, queue>>
          /\ UNCHANGED <<query, running>>
          /\ query \in Messages /\ cmd[c] \in Commands \cup {NoCmd}
          /\ \/ cstate[c] = "gone" /\ query = NoMsg
             \/ query = msg[c] /\ cmd[c] # NoCmd
          /\ CommandSound(c)' /\ Turns(c)' /\ OneWay(c)'
          /\ ~Pending(c)'
  BY ExecuteFacts
<1>2. Types'
  BY <1>1 DEF IInv, Types, ServerStates
<1>3. CursorSound'
  BY <1>1 DEF CursorSound
<1>4. IndexCurrent'
  BY <1>1 DEF IInv, IndexCurrent, ToStore
<1>5. LoadSound(c)'
  <2>1. cmd[c].op = "load" => cstate[c] = "gone"
    BY <1>1 DEF ClientSound, CommandSound
  <2>2. cmd[c].op = "load" => ~Awaits(c)
    BY <2>1 DEF Awaits
  <2>3. Awaits(c)' = Awaits(c) /\ (PartSound(c) => PartSound(c)')
    BY <1>1 DEF Awaits, PartSound
  <2> QED
    BY <1>1, <2>2, <2>3 DEF ClientSound, LoadSound
<1> QED
  BY <1>1, <1>2, <1>3, <1>4, <1>5, ServerStep DEF ClientSound

\* A call of a print function.
LEMMA PrintKeeps ==
  ASSUME IInv, Execute, DoPrint
  PROVE  IInv'
<1> DEFINE f == IF Cardinality(query.objs) = 1 THEN "one" ELSE "many"
<1>1. sstate = "execute" /\ query.op = "print" /\ UNCHANGED <<table, indexed, stored>>
  BY DEF Execute, DoPrint
<1>2. PICK g \in {"one", "many"} : g = f
  OBVIOUS
<1>3. PrintRows(g, query.objs)
  <2>1. PrintRows(f, query.objs)
    BY DEF DoPrint
  <2> QED
    BY <1>2, <2>1 DEF PrintRows
<1>4. /\ reply' \in Replies /\ cursor' \in [{"one", "many"} -> Cursors]
      /\ reply'.more => reply'.length = 1
      /\ \A h \in {"one", "many"} : cursor'[h].start # 0 => h = g /\ reply'.more
  BY <1>1, <1>2, <1>3, PrintFacts
<1> QED
  BY <1>1, <1>2, <1>4, NoLoadKeeps

\* A command that neither prints nor loads.
LEMMA OtherKeeps ==
  ASSUME IInv, Execute, DoOther
  PROVE  IInv'
<1>1. /\ sstate = "execute" /\ query.op \in {"run", "shutdown", "none"}
      /\ reply' \in {NoPayload, Text}
      /\ UNCHANGED <<cursor, table, indexed, stored>>
  BY DEF Execute, DoOther
<1>2. reply' \in Replies /\ reply'.more = FALSE
  BY <1>1, NoReplyTyped
<1>3. cursor \in [{"one", "many"} -> Cursors]
  BY DEF IInv, Types
<1>4. \A g \in {"one", "many"} : cursor'[g].start = 0
  BY <1>1 DEF IInv, CursorSound
<1> QED
  BY <1>1, <1>2, <1>3, <1>4, NoLoadKeeps

\* Lines behind the table.
LEMMA TableGrows ==
  ASSUME IInv, NEW lines \in Seq(Stored), table' = table \o lines
  PROVE  /\ table' \in Seq(Stored) /\ Len(table) \in Nat /\ Len(lines) \in Nat
         /\ Len(table') = Len(table) + Len(lines)
  BY ConcatProperties, LenProperties DEF IInv, Types

\* A part of a load is stored once, and the index is built with the last.
LEMMA LoadKeeps ==
  ASSUME IInv, Execute, DoLoad
  PROVE  IInv'
<1>1. PICK c \in Clients :
          /\ c = c0 /\ queue # <<>> /\ Served(c) /\ ClientSound(c)
          /\ sstate = "execute" /\ sstate' = "sendHeader" /\ up[c] = <<>>
          /\ UNCHANGED <<cstate, cmd, hdr, sent, msg, screen, typed, up, down, queue>>
          /\ UNCHANGED <<query, running>>
          /\ query \in Messages /\ cmd[c] \in Commands \cup {NoCmd}
          /\ \/ cstate[c] = "gone" /\ query = NoMsg
             \/ query = msg[c] /\ cmd[c] # NoCmd
          /\ CommandSound(c)' /\ Turns(c)' /\ OneWay(c)'
          /\ ~Pending(c)'
  BY ExecuteFacts
<1> DEFINE f == cmd[c].file
           n == Lines[f]
           lines == IF query.lines = <<>> THEN <<Junk>> ELSE query.lines
<1>2. query.op = "load" /\ cursor' = cursor
  BY DEF DoLoad
<1>3. query = msg[c] /\ query # NoMsg /\ cmd[c].op = "load"
  BY <1>1, <1>2, NoMsgTyped DEF ClientSound, CommandSound
<1>4. PartSound(c) /\ LoadSound(c)
  BY <1>1, <1>3 DEF ClientSound, LoadSound
<1>5. Pending(c)
  BY <1>1, <1>3 DEF Pending
<1>6. /\ f \in Files /\ n \in Nat /\ query.hdr = hdr[c]
      /\ sent[c] \in Nat /\ sent[c] <= n
      /\ query.lines \in Seq(Line) /\ Len(query.lines) \in Nat /\ Len(query.lines) <= sent[c]
      /\ query.end = (sent[c] = n) /\ (n # 0 => query.lines # <<>>)
  <2>1. f \in Files /\ sent[c] \in Nat /\ query.lines \in Seq(Line)
    BY <1>1, <1>4 DEF PartSound, IInv, Types, Messages
  <2> QED
    BY <1>3, <1>4, <2>1, LenProperties, ProtocolAssumption DEF PartSound
<1>7. \A g \in {"one", "many"} : cursor'[g].start = 0
  BY <1>1, <1>2 DEF IInv, CursorSound
<1>8. reply' \in {NoPayload, Text}
  BY DEF DoLoad
<1>9. reply' \in Replies /\ reply'.more = FALSE
  BY <1>8, NoReplyTyped
<1>10. CursorSound'
  BY <1>1, <1>7, <1>9 DEF CursorSound
<1>11. (PartSound(c) => PartSound(c)') /\ Awaits(c)' = Awaits(c)
  BY <1>1 DEF PartSound, Awaits
<1>12. CASE hdr[c] \in Known
  <2>1. /\ table' = table \o lines
        /\ stored' = [stored EXCEPT ![c] = @ + Len(lines)]
        /\ indexed' = IF query.end THEN Len(table') ELSE indexed
    BY <1>1, <1>6, <1>12 DEF DoLoad, Reindexes
  <2>2. /\ lines \in Seq(Stored) /\ Len(lines) \in Nat \ {0}
        /\ n # 0 => Len(lines) = Len(query.lines)
        /\ n = 0 => Len(lines) = 1 /\ sent[c] = 0 /\ Len(query.lines) = 0
    <3>1. query.lines \in Seq(Stored)
      <4>1. query.lines \in [1..Len(query.lines) -> Line]
        BY <1>6, LenProperties
      <4>2. query.lines \in [1..Len(query.lines) -> Stored]
        BY <4>1 DEF Stored
      <4> QED
        BY <1>6, <4>2, SeqDef
    <3>2. <<Junk>> \in Seq(Stored) /\ Len(<<Junk>>) = 1
      BY DEF Stored
    <3>3. query.lines # <<>> => Len(query.lines) # 0
      BY <3>1, EmptySeq
    <3>4. query.lines = <<>> => Len(query.lines) = 0
      BY EmptySeq
    <3>5. n = 0 => sent[c] = 0 /\ Len(query.lines) = 0
      BY <1>6
    <3> QED
      BY <1>6, <3>1, <3>2, <3>3, <3>4, <3>5
  <2>3. stored \in [Clients -> Nat] /\ stored[c] = sent[c] - Len(query.lines)
    BY <1>3, <1>4, <1>5, <1>12 DEF LoadSound, IInv, Types
  <2>4. indexed \in Nat /\ indexed <= Len(table)
    <3>1. table \in Seq(Stored) /\ indexed \in 0..Len(table)
      BY DEF IInv, Types
    <3> QED
      BY <3>1, LenProperties
  <2> HIDE DEF lines, n
  <2>5. /\ table' \in Seq(Stored) /\ Len(table) \in Nat /\ Len(table') = Len(table) + Len(lines)
    BY <2>1, <2>2, TableGrows
  <2>6. /\ stored' \in [Clients -> Nat] /\ stored'[c] = (IF n = 0 THEN 1 ELSE sent[c])
        /\ \A d \in Clients \ {c} : stored'[d] = stored[d]
    <3>1. stored[c] + Len(lines) = (IF n = 0 THEN 1 ELSE sent[c])
      <4>1. /\ Len(lines) \in Nat /\ Len(query.lines) \in Nat /\ sent[c] \in Nat
            /\ stored[c] = sent[c] - Len(query.lines)
        BY <1>6, <2>2, <2>3
      <4>2. CASE n = 0
        <5>1. Len(lines) = 1 /\ sent[c] = 0 /\ Len(query.lines) = 0
          BY <2>2, <4>2
        <5>2. stored[c] = 0
          BY <4>1, <5>1
        <5> QED
          BY <4>2, <5>1, <5>2
      <4>3. CASE n # 0
        BY <2>2, <4>1, <4>3
      <4> QED
        BY <4>2, <4>3
    <3>2. stored[c] + Len(lines) \in Nat
      BY <2>2, <2>3
    <3> QED
      BY <2>1, <2>3, <3>1, <3>2
  <2>7. indexed' \in 0..Len(table')
    BY <2>1, <2>2, <2>4, <2>5
  <2>8. Types'
    BY <1>1, <1>2, <1>9, <2>5, <2>6, <2>7 DEF IInv, Types, ServerStates
  <2>9. LoadSound(c)'
    BY <1>1, <1>4, <1>11, <1>12, <2>6 DEF LoadSound, n
  <2>10. IndexCurrent'
    <3>1. CASE query.end
      BY <2>1, <3>1 DEF IndexCurrent
    <3>2. CASE ~query.end
      <4>1. n # 0 /\ sent[c] < n /\ 0 < sent[c]
        <5>1. sent[c] # n /\ sent[c] \in Nat /\ n \in Nat /\ sent[c] <= n
          BY <1>6, <3>2
        <5>2. n # 0
          BY <5>1
        <5>3. /\ Len(query.lines) \in Nat /\ Len(query.lines) <= sent[c]
              /\ Len(query.lines) # 0
          BY <1>6, <2>2, <5>2
        <5> QED
          BY <5>1, <5>2, <5>3
      <4>2. Len(ToStore(c)) = n
        BY <1>3, <1>6, <1>12, <4>1, ToStoreLength DEF n
      <4>3. ToStore(c)' = ToStore(c)
        BY <1>1 DEF ToStore
      <4>4. 0 < stored'[c] /\ stored'[c] < Len(ToStore(c))'
        BY <2>6, <4>1, <4>2, <4>3
      <4> QED
        BY <4>4 DEF IndexCurrent
    <3> QED
      BY <3>1, <3>2
  <2> QED
    BY <1>1, <1>10, <2>6, <2>8, <2>9, <2>10, ServerStep DEF ClientSound
<1>13. CASE hdr[c] \notin Known
  <2>1. UNCHANGED <<table, indexed, stored>>
    BY <1>6, <1>13 DEF DoLoad
  <2>2. Types'
    BY <1>1, <1>2, <1>9, <2>1 DEF IInv, Types, ServerStates
  <2>3. LoadSound(c)'
    BY <1>1, <1>4, <1>11, <1>13, <2>1 DEF LoadSound
  <2>4. IndexCurrent'
    BY <1>1, <2>1 DEF IInv, IndexCurrent, ToStore
  <2> QED
    BY <1>1, <1>10, <2>1, <2>2, <2>3, <2>4, ServerStep DEF ClientSound
<1> QED
  BY <1>12, <1>13

\* Any command.
LEMMA ExecuteKeeps ==
  ASSUME IInv, Execute
  PROVE  IInv'
  BY PrintKeeps, LoadKeeps, OtherKeeps DEF Execute
-------------------------------------------------------------------------------
(* The answer                                                              *)

\* A message of the kind that is due goes behind the others.
LEMMA AnswerGrows ==
  ASSUME NEW c, NEW kind \in {"header", "payload"}, NEW x \in Told,
         down[c] \in Seq(Told), Underway(c, kind), x.kind \in {"header", "payload"},
         x.kind # kind, down'[c] = Append(down[c], x), cstate' = cstate
  PROVE  /\ Answers(c)'
         /\ Goes(x) /\ kind = "payload" => Underway(c, "header")'
         /\ Goes(x) /\ kind = "header" => Underway(c, "payload")'
         /\ ~Goes(x) => Ended(c)'
<1> DEFINE n == Len(down[c])
<1>1. /\ Append(down[c], x) \in Seq(Told) /\ n \in Nat /\ Len(Append(down[c], x)) = n + 1
      /\ \A i \in 1..n : Append(down[c], x)[i] = down[c][i]
      /\ Append(down[c], x)[n + 1] = x
  BY AppendProperties, LenProperties
<1>2. /\ Answers(c)
      /\ n = 0 => cstate[c] = IF kind = "header" THEN "awaitPayload" ELSE "awaitHeader"
      /\ n # 0 => Goes(down[c][n]) /\ down[c][n].kind = kind
  <2>1. (n = 0) <=> (down[c] = <<>>)
    BY EmptySeq
  <2> QED
    BY <2>1 DEF Underway
<1> HIDE DEF n
<1>3. Len(down'[c]) = n + 1 /\ down'[c][n + 1] = x /\ \A i \in 1..n : down'[c][i] = down[c][i]
  BY <1>1 DEF n
<1>4. \A i \in 1..n :
          /\ i = 1 => down[c][i].kind = IF cstate[c] = "awaitHeader" THEN "header" ELSE "payload"
          /\ i > 1 => Goes(down[c][i - 1]) /\ down[c][i].kind # down[c][i - 1].kind
  BY <1>2 DEF Answers, n
<1>5. Awaits(c) /\ Awaits(c)'
  BY <1>2 DEF Answers, Awaits
<1>6. ASSUME NEW i \in 1..(n + 1)
      PROVE  /\ i = 1 => down'[c][i].kind = IF cstate[c] = "awaitHeader" THEN "header" ELSE "payload"
             /\ i > 1 => Goes(down'[c][i - 1]) /\ down'[c][i].kind # down'[c][i - 1].kind
  <2>1. CASE i = n + 1
    <3>1. CASE n = 0
      BY <1>2, <1>3, <2>1, <3>1
    <3>2. CASE n # 0
      <4>1. i - 1 = n /\ n \in 1..n /\ i # 1
        BY <1>1, <2>1, <3>2
      <4> QED
        BY <1>2, <1>3, <2>1, <3>2, <4>1
    <3> QED
      BY <3>1, <3>2
  <2>2. CASE i # n + 1
    <3>1. i \in 1..n /\ (i > 1 => i - 1 \in 1..n)
      BY <1>1, <2>2
    <3>2. down'[c][i] = down[c][i] /\ (i > 1 => down'[c][i - 1] = down[c][i - 1])
      BY <1>3, <3>1
    <3> QED
      BY <1>4, <3>1, <3>2
  <2> QED
    BY <2>1, <2>2
<1>7. Answers(c)'
  BY <1>3, <1>5, <1>6 DEF Answers
<1>8. down'[c] # <<>> /\ down'[c][Len(down'[c])] = x
  BY <1>1, <1>3, EmptySeq
<1> QED
  BY <1>7, <1>8 DEF Underway, Ended

\* Where the server goes after a message.
LEMMA ReplyKeeps ==
  ASSUME IInv, ReplyHeader \/ ReplyPayload
  PROVE  IInv'
<1>1. sstate \in {"sendHeader", "sendPayload"} /\ UNCHANGED <<user, up>>
  BY DEF ReplyHeader, ReplyPayload
<1>2. PICK c \in Clients :
          /\ c = c0 /\ queue # <<>> /\ InQueue(c)
          /\ Served(c) /\ ClientSound(c) /\ Conversation(c)
  BY <1>1, ServedFacts
<1>3. CASE Hung
  <2>1. Dies
    BY <1>3 DEF ReplyHeader, ReplyPayload
  <2> QED
    BY <1>1, <1>3, <2>1, DieKeeps
<1>4. CASE ~Hung
  <2> DEFINE x == IF sstate = "sendHeader" THEN Header(reply.length) ELSE Payload(reply)
  <2>1. /\ down' = [down EXCEPT ![c] = Append(@, x)] /\ Len(down[c]) < Capacity
        /\ UNCHANGED <<cstate, cmd, hdr, sent, msg, screen, typed, up, queue>>
        /\ UNCHANGED <<reply, cursor, table, indexed, stored>>
        /\ IF sstate = "sendPayload" THEN Answered
           ELSE /\ sstate' = IF reply.length > 0 THEN "sendPayload" ELSE "sendNothing"
                /\ UNCHANGED <<query, running>>
    BY <1>2, <1>4 DEF ReplyHeader, ReplyPayload, user, server
  <2>2. /\ reply \in Replies /\ query \in Messages /\ running \in BOOLEAN
        /\ down \in [Clients -> Seq(Told)] /\ cmd[c] \in Commands \cup {NoCmd}
        /\ reply.length \in {0, 1} /\ reply.more \in BOOLEAN
    BY DEF IInv, Types, Replies
  <2>3. /\ reply.more => reply.length = 1 /\ query.op = "print"
        /\ sstate = "sendPayload" => reply.length = 1
    BY <1>1 DEF IInv, CursorSound
  <2>4. x \in Told /\ x.kind = (IF sstate = "sendHeader" THEN "header" ELSE "payload")
    BY <2>2 DEF Told, Header, Payload
  <2>5. Goes(x) = IF sstate = "sendHeader" THEN reply.length = 1 ELSE reply.more
    BY DEF Goes, Header, Payload
  <2>6. \/ Goes(x) /\ sstate = "sendHeader" /\ sstate' = "sendPayload" /\ UNCHANGED <<query, running>>
        \/ Goes(x) /\ sstate = "sendPayload" /\ reply.more /\ sstate' = "execute" /\ UNCHANGED <<query, running>>
        \/ ~Goes(x) /\ sstate = "sendHeader" /\ ~reply.more /\ sstate' = "sendNothing"
           /\ UNCHANGED <<query, running>>
        \/ /\ ~Goes(x) /\ ~reply.more /\ sstate' = "recvHeader" /\ query' = NoMsg
           /\ running' = (running /\ query.op # "shutdown")
    <3>1. /\ reply.length > 0 <=> reply.length = 1
          /\ reply.length # 1 => ~reply.more
      BY <2>2, <2>3
    <3>2. CASE sstate = "sendHeader" /\ reply.length = 1
      BY <2>1, <2>5, <3>1, <3>2
    <3>3. CASE sstate = "sendHeader" /\ reply.length # 1
      BY <2>1, <2>5, <3>1, <3>3
    <3>4. CASE sstate = "sendPayload"
      <4>1. Answered /\ Goes(x) = reply.more
        BY <2>1, <2>5, <3>4
      <4> QED
        BY <3>4, <4>1 DEF Answered
    <3> QED
      BY <1>1, <3>2, <3>3, <3>4
  <2> HIDE DEF x
  <2>7. /\ up[c] = <<>> /\ query = msg[c]
        /\ Underway(c, IF sstate = "sendPayload" THEN "header" ELSE "payload")
    BY <1>1, <1>2, <1>4 DEF Conversation, Hung
  <2>8. Awaits(c) /\ cmd[c] # NoCmd /\ msg[c].op = cmd[c].op
    BY <1>2, <2>7 DEF Underway, Answers, Awaits, ClientSound, CommandSound
  <2>9. /\ down' \in [Clients -> Seq(Told)] /\ down'[c] = Append(down[c], x)
        /\ Len(down'[c]) <= Capacity
        /\ \A d \in Clients \ {c} : down'[d] = down[d]
    <3>1. /\ Append(down[c], x) \in Seq(Told) /\ Len(down[c]) \in Nat
          /\ Len(Append(down[c], x)) = Len(down[c]) + 1
      BY <2>2, <2>4, AppendProperties, LenProperties
    <3>2. Capacity \in Nat
      BY ProtocolAssumption
    <3>3. Len(Append(down[c], x)) <= Capacity
      BY <2>1, <3>1, <3>2
    <3> QED
      BY <2>1, <2>2, <3>1, <3>3
  <2>10. Types'
    <3>1. query' \in Messages /\ running' \in BOOLEAN /\ sstate' \in ServerStates
      BY <2>2, <2>6, NoMsgTyped DEF ServerStates
    <3>2. \A d \in Clients : Len(down'[d]) <= Capacity
      BY <2>9 DEF IInv, Types
    <3> QED
      BY <2>1, <2>9, <3>1, <3>2 DEF IInv, Types
  <2>11. /\ Answers(c)'
         /\ Goes(x) /\ sstate = "sendHeader" => Underway(c, "header")'
         /\ Goes(x) /\ sstate = "sendPayload" => Underway(c, "payload")'
         /\ ~Goes(x) => Ended(c)'
    <3>1. PICK kind \in {"header", "payload"} : kind = IF sstate = "sendPayload" THEN "header" ELSE "payload"
      OBVIOUS
    <3>2. PICK y \in Told : y = x
      BY <2>4
    <3>3. Underway(c, kind) /\ y.kind # kind /\ y.kind \in {"header", "payload"}
      BY <1>1, <2>4, <2>7, <3>1, <3>2
    <3>4. /\ Answers(c)'
          /\ Goes(y) /\ kind = "payload" => Underway(c, "header")'
          /\ Goes(y) /\ kind = "header" => Underway(c, "payload")'
          /\ ~Goes(y) => Ended(c)'
      BY <2>1, <2>2, <2>9, <3>2, <3>3, AnswerGrows
    <3> QED
      BY <3>1, <3>2, <3>4
  <2>12. Served(c)'
    BY <1>2, <2>1, <2>6 DEF Served, c0
  <2>13. Turns(c)' /\ OneWay(c)'
    <3>1. Conversation(c)'
      <4>1. CASE ~Goes(x)
        BY <2>1, <2>6, <2>7, <2>11, <4>1 DEF Conversation
      <4>2. CASE Goes(x) /\ sstate = "sendHeader"
        <5>1. sstate' = "sendPayload" /\ query' = query /\ Underway(c, "header")'
          BY <2>6, <2>11, <4>2
        <5> QED
          BY <2>1, <2>7, <5>1 DEF Conversation
      <4>3. CASE Goes(x) /\ sstate = "sendPayload"
        <5>1. sstate' = "execute" /\ query' = query /\ Underway(c, "payload")'
          BY <2>6, <2>11, <4>3
        <5> QED
          BY <2>1, <2>7, <5>1 DEF Conversation
      <4> QED
        BY <1>1, <4>1, <4>2, <4>3
    <3> QED
      BY <2>1, <2>7, <2>12, <3>1 DEF Turns, OneWay
  <2>14. CommandSound(c)'
    BY <1>2, <2>1 DEF ClientSound, CommandSound
  <2>15. LoadSound(c)'
    <3>1. CASE sstate' = "execute"
      <4>1. cmd'[c].op # "load"
        BY <2>1, <2>3, <2>6, <2>7, <2>8, <3>1
      <4> QED
        BY <4>1 DEF LoadSound
    <3>2. CASE sstate' # "execute"
      <4>1. ~Pending(c) /\ ~Pending(c)'
        BY <1>1, <2>1, <2>6, <2>7, <2>8, <3>2 DEF Pending, Awaits
      <4> QED
        BY <1>2, <2>1, <4>1, LoadKept DEF ClientSound
    <3> QED
      BY <3>1, <3>2
  <2>16. CursorSound'
    <3>1. \A f \in {"one", "many"} : cursor[f].start # 0 =>
              /\ query.op = "print" /\ reply.more
              /\ f = IF Cardinality(query.objs) = 1 THEN "one" ELSE "many"
      BY <1>1 DEF IInv, CursorSound
    <3> QED
      BY <2>1, <2>2, <2>3, <2>5, <2>6, <3>1 DEF CursorSound
  <2>17. IndexCurrent'
    BY <2>1 DEF IInv, IndexCurrent, ToStore
  <2> QED
    BY <1>1, <1>2, <2>1, <2>9, <2>10, <2>13, <2>14, <2>15, <2>16, <2>17, ServerStep DEF ClientSound
<1> QED
  BY <1>3, <1>4

\* The send of nothing changes where the server is, and notices a lost client.
LEMMA NothingKeeps ==
  ASSUME IInv, ReplyNothing
  PROVE  IInv'
<1>1. sstate = "sendNothing" /\ UNCHANGED <<user, up>>
  BY DEF ReplyNothing
<1>2. PICK c \in Clients :
          /\ c = c0 /\ queue # <<>> /\ InQueue(c)
          /\ Served(c) /\ ClientSound(c) /\ Conversation(c)
  BY <1>1, ServedFacts
<1>3. CASE Hung
  <2>1. Dies
    BY <1>3 DEF ReplyNothing
  <2> QED
    BY <1>1, <1>3, <2>1, DieKeeps
<1>4. CASE ~Hung
  <2>1. /\ ~reply.more /\ \A f \in {"one", "many"} : cursor[f].start = 0
        /\ reply.more => reply.length = 1
    BY <1>1 DEF IInv, CursorSound
  <2>2. /\ sstate' = "recvHeader" /\ query' = NoMsg
        /\ running' = (running /\ query.op # "shutdown")
        /\ UNCHANGED <<cstate, cmd, hdr, sent, msg, screen, typed, up, down, queue>>
        /\ UNCHANGED <<reply, cursor, table, indexed, stored>>
    BY <1>1, <1>4, <2>1 DEF ReplyNothing, Answered, user
  <2>3. Types'
    <3>1. query' \in Messages /\ running' \in BOOLEAN /\ sstate' \in ServerStates
      BY <2>2, NoMsgTyped DEF ServerStates, IInv, Types
    <3> QED
      BY <2>2, <3>1 DEF IInv, Types
  <2>4. Served(c)'
    BY <1>2, <2>2 DEF Served, c0
  <2>5. Turns(c)' /\ OneWay(c)'
    <3>1. Unread(c)' = Unread(c) /\ Ended(c)' = Ended(c)
      BY <2>2 DEF Unread, Ended, Answers, Awaits
    <3>2. Conversation(c)'
      BY <1>1, <1>2, <2>2, <3>1 DEF Conversation
    <3> QED
      BY <1>2, <2>2, <2>4, <3>2 DEF Turns, OneWay, ClientSound
  <2>6. CommandSound(c)'
    BY <1>2, <2>2 DEF ClientSound, CommandSound
  <2>7. LoadSound(c)'
    <3>1. Pending(c)' = Pending(c)
      BY <1>1, <2>2 DEF Pending
    <3> QED
      BY <1>2, <2>2, <3>1, LoadKept DEF ClientSound
  <2>8. CursorSound'
    BY <2>1, <2>2 DEF CursorSound
  <2>9. IndexCurrent'
    BY <2>2 DEF IInv, IndexCurrent, ToStore
  <2> QED
    BY <1>1, <1>2, <2>2, <2>3, <2>5, <2>6, <2>7, <2>8, <2>9, ServerStep DEF ClientSound
<1> QED
  BY <1>3, <1>4
-------------------------------------------------------------------------------
(* The theorems                                                            *)

\* Nobody is connected.
LEMMA Initially == Init => IInv
<1> SUFFICES ASSUME Init PROVE IInv
  OBVIOUS
<1>1. /\ \A c \in Clients :
             /\ cstate[c] = "off" /\ cmd[c] = NoCmd /\ up[c] = <<>> /\ down[c] = <<>>
             /\ stored[c] = 0
      /\ queue = <<>> /\ sstate = "accept" /\ reply = NoPayload
      /\ \A f \in {"one", "many"} : cursor[f].start = 0
      /\ table = <<>> /\ indexed = 0
  BY DEF Init
<1>2. Len(queue) = 0 /\ Len(table) = 0 /\ \A c \in Clients : Len(up[c]) = 0 /\ Len(down[c]) = 0
  BY <1>1, EmptySeq
<1>3. Types
  <2>1. Capacity \in Nat /\ MaxCommands \in Nat
    BY ProtocolAssumption
  <2>2. \A c \in Clients : Len(up[c]) <= Capacity /\ Len(down[c]) <= Capacity
    BY <1>2, <2>1
  <2>3. typed \in [Clients -> 0..MaxCommands] /\ indexed \in 0..Len(table)
    BY <1>1, <1>2, <2>1 DEF Init
  <2>4. /\ up \in [Clients -> Seq(Asked)] /\ down \in [Clients -> Seq(Told)]
        /\ screen \in [Clients -> Seq(Shows)]
        /\ queue \in Seq(Clients) /\ table \in Seq(Stored)
    BY EmptySeq DEF Init
  <2>5. cursor \in [{"one", "many"} -> Cursors]
    BY DEF Init, Cursors
  <2> QED
    BY <2>2, <2>3, <2>4, <2>5, NoMsgTyped, NoReplyTyped DEF Init, Types, ClientStates, ServerStates
<1>4. QueueSound
  BY <1>1, <1>2 DEF QueueSound, InQueue
<1>5. ASSUME NEW c \in Clients PROVE ClientSound(c)
  <2>1. Unread(c) /\ ~Served(c)
    BY <1>1, <1>5 DEF Unread, Served
  <2>2. cmd[c].op # "load"
    BY <1>1, <1>5 DEF NoCmd, Command
  <2> QED
    BY <1>1, <1>5, <2>1, <2>2 DEF ClientSound, CommandSound, Turns, OneWay, LoadSound
<1>6. CursorSound
  BY <1>1, NoReplyTyped DEF CursorSound
<1>7. IndexCurrent
  BY <1>1, <1>2 DEF IndexCurrent
<1> QED
  BY <1>3, <1>4, <1>5, <1>6, <1>7 DEF IInv

\* A stutter.
LEMMA Unchanged == IInv /\ UNCHANGED vars => IInv'
<1> SUFFICES ASSUME IInv, UNCHANGED vars PROVE IInv'
  OBVIOUS
<1>1. /\ UNCHANGED <<cstate, cmd, hdr, sent, msg, screen, typed, up, down, queue, sstate>>
      /\ UNCHANGED <<query, reply, cursor, running, table, indexed, stored>>
  BY DEF vars, user, server
<1>2. Types' /\ QueueSound' /\ CursorSound'
  BY <1>1 DEF IInv, Types, QueueSound, InQueue, CursorSound
<1>3. ASSUME NEW c \in Clients PROVE ClientSound(c)'
  BY <1>1, Frame DEF IInv
<1>4. IndexCurrent'
  BY <1>1 DEF IInv, IndexCurrent, ToStore
<1> QED
  BY <1>2, <1>3, <1>4 DEF IInv

\* The inductive invariant holds throughout: whatever clients do, whoever is
\* killed and whenever, client and server agree about whose turn it is.
THEOREM Invariance == Spec => []IInv
<1>1. IInv /\ [Next]_vars => IInv'
  <2> SUFFICES ASSUME IInv, [Next]_vars PROVE IInv'
    OBVIOUS
  <2>1. CASE UNCHANGED vars
    BY <2>1, Unchanged
  <2>2. CASE ServerRuns
    BY <2>2, AcceptKeeps, RecvHeaderKeeps, RecvPayloadKeeps, ExecuteKeeps, ReplyKeeps, NothingKeeps
       DEF ServerRuns
  <2>3. ASSUME NEW c \in Clients, Connect(c) PROVE IInv'
    BY <2>3, ConnectKeeps
  <2>4. ASSUME NEW c \in Clients, Type(c) PROVE IInv'
    BY <2>4, TypeKeeps
  <2>5. ASSUME NEW c \in Clients, ClientRuns(c) PROVE IInv'
    <3>1. ASSUME ServerLost(c) PROVE IInv'
      <4>1. /\ Alive(c) /\ Go(c, "gone")
            /\ UNCHANGED <<cmd, hdr, sent, msg, screen, typed, up, down, queue, sstate, server>>
        BY <3>1 DEF ServerLost, Alive
      <4> QED
        BY <4>1, GoneKeeps
    <3> QED
      BY <2>5, <3>1, SendKeeps, ReadKeeps DEF ClientRuns
  <2>6. ASSUME NEW c \in Clients, Leave(c) PROVE IInv'
    <3>1. /\ Alive(c) /\ Go(c, "gone")
          /\ UNCHANGED <<cmd, hdr, sent, msg, screen, typed, up, down, queue, sstate, server>>
      BY <2>6 DEF Leave, Alive
    <3> QED
      BY <3>1, GoneKeeps
  <2> QED
    BY <2>1, <2>2, <2>3, <2>4, <2>5, <2>6 DEF Next
<1> QED
  BY <1>1, Initially, PTL DEF Spec

\* Every variable keeps its type and no send exceeds what the socket holds, for
\* any clients, files and sizes of chunks.
THEOREM TypeCorrect == Spec => []TypeOK
<1>1. IInv => TypeOK
  <2> SUFFICES ASSUME IInv PROVE TypeOK
    OBVIOUS
  <2>1. ASSUME NEW f \in {"one", "many"} PROVE cursor[f].start \in 0..cursor[f].rows
    <3>1. cursor[f] \in Cursors
      BY DEF IInv, Types
    <3> QED
      BY <3>1 DEF Cursors
  <2> QED
    BY <2>1 DEF IInv, Types, QueueSound, TypeOK
<1> QED
  BY <1>1, Invariance, PTL

\* handle_client and send_receive take turns: who types has read every answer,
\* nothing is under way in both directions, and no print leaves a cursor behind.
THEOREM TakeTurns == Spec => []Lockstep
<1>1. IInv => Lockstep
  <2> SUFFICES ASSUME IInv PROVE Lockstep
    OBVIOUS
  <2>1. ASSUME NEW c \in Clients, cstate[c] \in {"off", "prompt", "sendHeader"}
        PROVE  up[c] = <<>> /\ down[c] = <<>> /\ (Served(c) => AnswerSent)
    <3>1. Unread(c) /\ (Served(c) => AnswerSent)
      BY <2>1, Quiet
    <3> QED
      BY <2>1, <3>1 DEF Unread
  <2>2. \A c \in Clients : up[c] = <<>> \/ down[c] = <<>>
    BY DEF IInv, ClientSound, OneWay
  <2>3. sstate \in {"accept", "recvHeader", "recvPayload", "sendNothing"} =>
            \A f \in {"one", "many"} : cursor[f].start = 0
    BY DEF IInv, CursorSound
  <2> QED
    BY <2>1, <2>2, <2>3 DEF Lockstep
<1> QED
  BY <1>1, Invariance, PTL

\* db_load builds the index with the last part of a load and not before: unless
\* a load is between two parts, the index covers the column.
THEOREM IndexCovers == Spec => []IndexCurrent
<1>1. IInv => IndexCurrent
  BY DEF IInv
<1> QED
  BY <1>1, Invariance, PTL

-------------------------------------------------------------------------------
(* The inductive invariant: rows on their way                              *)

\* What is on its way down is a list of rows from row n of a print to row e:
\* at[i] is the row behind those of the first i messages.
Sheet(msgs, objs, t, n, e) ==
    \E at \in [0..Len(msgs) -> 0..NumRows(objs, t)] :
        /\ at[0] = n /\ at[Len(msgs)] = e
        /\ \A i \in 1..Len(msgs) :
               /\ at[i - 1] <= at[i]
               /\ msgs[i].kind = "header" => at[i] = at[i - 1]
               /\ msgs[i].kind = "payload" =>
                      msgs[i].what.rows = Rows(objs, at[i - 1], at[i], t)
               /\ ~Goes(msgs[i]) => at[i] = NumRows(objs, t)

\* The answer that is about to be sent goes on behind row e.
Follows(r, k, objs, t, e) ==
    \E n \in e..NumRows(objs, t) :
        /\ r.rows = Rows(objs, e, n, t)
        /\ r.length = 0 => r.rows = <<>>
        /\ IF r.more THEN n # 0 /\ k.rows = NumRows(objs, t) /\ k.start = n
           ELSE n = NumRows(objs, t)

\* The cursor of a print.
CursorOf(objs) == cursor[IF Cardinality(objs) = 1 THEN "one" ELSE "many"]

\* The answer has begun.
Begun(c) ==
    Served(c) /\ (down[c] # <<>> \/ sstate \in {"execute", "sendHeader", "sendPayload"})

\* What the server has not sent yet begins behind row e.
Remains(objs, e) ==
    /\ AnswerSent => e = NumRows(objs, table)
    /\ sstate = "execute" =>
           /\ CursorOf(objs).start = e
           /\ e # 0 => CursorOf(objs).rows = NumRows(objs, table)
    /\ sstate \in {"sendHeader", "sendPayload"} =>
           Follows(reply, CursorOf(objs), objs, table, e)

\* The rows on the screen, on their way, in the answer and behind the cursor are
\* those of the print, each once and in order.
ListingSound(c) ==
    LET objs == cmd[c].objs
    IN  IF Begun(c) THEN \E e \in 0..NumRows(objs, table) :
            Sheet(down[c], objs, table, Len(screen[c]), e) /\ Remains(objs, e)
        ELSE screen[c] = <<>>

\* Only a load stores.
RowsSound(c) ==
    cmd[c] # NoCmd =>
        /\ cmd[c].op # "load" => stored[c] = 0
        /\ cstate[c] # "gone" => ListingSound(c)

RInv == \A c \in Clients : RowsSound(c)

-------------------------------------------------------------------------------
(* Lists of rows                                                           *)

\* Nothing on its way, no rows.
LEMMA SheetNone ==
  ASSUME NEW objs \in Operands, NEW t \in Seq(Stored), NEW n \in 0..NumRows(objs, t)
  PROVE  Sheet(<<>>, objs, t, n, n)
<1> DEFINE at == [i \in 0..0 |-> n]
<1>1. Len(<<>>) = 0 /\ at \in [0..0 -> 0..NumRows(objs, t)] /\ at[0] = n
  OBVIOUS
<1>2. \A i \in 1..0 : FALSE
  OBVIOUS
<1> HIDE DEF at
<1> QED
  BY <1>1, <1>2 DEF Sheet

\* A list ends among the rows of the print.
LEMMA SheetRange ==
  ASSUME NEW objs, NEW t, NEW msgs \in Seq(Told), NEW n, NEW e, Sheet(msgs, objs, t, n, e)
  PROVE  n \in 0..NumRows(objs, t) /\ e \in 0..NumRows(objs, t)
<1>1. PICK at \in [0..Len(msgs) -> 0..NumRows(objs, t)] : at[0] = n /\ at[Len(msgs)] = e
  BY DEF Sheet
<1>2. 0 \in 0..Len(msgs) /\ Len(msgs) \in 0..Len(msgs)
  BY LenProperties
<1> QED
  BY <1>1, <1>2

\* A message behind the others.
LEMMA SheetMore ==
  ASSUME NEW objs \in Operands, NEW t \in Seq(Stored), NEW msgs \in Seq(Told), NEW x \in Told,
         NEW n, NEW e, Sheet(msgs, objs, t, n, e), NEW m \in e..NumRows(objs, t),
         x.kind = "header" => m = e,
         x.kind = "payload" => x.what.rows = Rows(objs, e, m, t),
         ~Goes(x) => m = NumRows(objs, t)
  PROVE  Sheet(Append(msgs, x), objs, t, n, m)
<1> DEFINE l == Len(msgs)
<1>1. PICK at \in [0..l -> 0..NumRows(objs, t)] :
          /\ at[0] = n /\ at[l] = e
          /\ \A i \in 1..l :
                 /\ at[i - 1] <= at[i]
                 /\ msgs[i].kind = "header" => at[i] = at[i - 1]
                 /\ msgs[i].kind = "payload" =>
                        msgs[i].what.rows = Rows(objs, at[i - 1], at[i], t)
                 /\ ~Goes(msgs[i]) => at[i] = NumRows(objs, t)
  BY DEF Sheet
<1>2. NumRows(objs, t) \in Nat /\ e \in 0..NumRows(objs, t)
  BY NumRowsFacts, SheetRange
<1>3. /\ Append(msgs, x) \in Seq(Told) /\ l \in Nat /\ Len(Append(msgs, x)) = l + 1
      /\ \A i \in 1..l : Append(msgs, x)[i] = msgs[i]
      /\ Append(msgs, x)[l + 1] = x
  BY AppendProperties, LenProperties
<1> DEFINE to == [i \in 0..(l + 1) |-> IF i = l + 1 THEN m ELSE at[i]]
           more == Append(msgs, x)
<1> HIDE DEF l
<1>4. /\ to \in [0..(l + 1) -> 0..NumRows(objs, t)]
      /\ to[l + 1] = m /\ \A i \in 0..l : to[i] = at[i]
  <2>1. m \in 0..NumRows(objs, t)
    BY <1>2
  <2>2. \A i \in 0..(l + 1) : i = l + 1 \/ i \in 0..l
    BY <1>3
  <2>3. \A i \in 0..l : i \in 0..(l + 1) /\ i # l + 1
    BY <1>3
  <2>4. l + 1 \in 0..(l + 1)
    BY <1>3
  <2> QED
    BY <1>1, <2>1, <2>2, <2>3, <2>4
<1> HIDE DEF to, more
<1>5. to[0] = n /\ to[l] = e
  BY <1>1, <1>3, <1>4
<1>6. ASSUME NEW i \in 1..(l + 1)
      PROVE  /\ to[i - 1] <= to[i]
             /\ more[i].kind = "header" => to[i] = to[i - 1]
             /\ more[i].kind = "payload" =>
                    more[i].what.rows = Rows(objs, to[i - 1], to[i], t)
             /\ ~Goes(more[i]) => to[i] = NumRows(objs, t)
  <2>1. CASE i = l + 1
    <3>1. i - 1 = l /\ more[i] = x /\ to[i] = m
      BY <1>3, <1>4, <2>1 DEF more
    <3> QED
      BY <1>2, <1>5, <3>1
  <2>2. CASE i # l + 1
    <3>1. i \in 1..l /\ i \in 0..l /\ i - 1 \in 0..l
      BY <1>3, <2>2
    <3>2. to[i] = at[i] /\ to[i - 1] = at[i - 1] /\ more[i] = msgs[i]
      BY <1>3, <1>4, <3>1 DEF more
    <3> QED
      BY <1>1, <3>1, <3>2
  <2> QED
    BY <2>1, <2>2
<1>7. Sheet(more, objs, t, n, m)
  <2>1. Len(more) = l + 1
    BY <1>3 DEF more
  <2> SUFFICES /\ to \in [0..Len(more) -> 0..NumRows(objs, t)]
               /\ to[0] = n /\ to[Len(more)] = m
               /\ \A i \in 1..Len(more) :
                      /\ to[i - 1] <= to[i]
                      /\ more[i].kind = "header" => to[i] = to[i - 1]
                      /\ more[i].kind = "payload" =>
                             more[i].what.rows = Rows(objs, to[i - 1], to[i], t)
                      /\ ~Goes(more[i]) => to[i] = NumRows(objs, t)
    BY Zenon DEF Sheet
  <2> QED
    BY <1>4, <1>5, <1>6, <2>1
<1> QED
  BY <1>7 DEF more

\* Without its first message a list begins behind the rows of that message.
LEMMA SheetLess ==
  ASSUME NEW objs \in Operands, NEW t \in Seq(Stored), NEW msgs \in Seq(Told), msgs # <<>>,
         NEW n, NEW e, Sheet(msgs, objs, t, n, e)
  PROVE  \E m \in n..NumRows(objs, t) :
             /\ Sheet(Tail(msgs), objs, t, m, e)
             /\ Head(msgs).kind = "header" => m = n
             /\ Head(msgs).kind = "payload" => Head(msgs).what.rows = Rows(objs, n, m, t)
             /\ ~Goes(Head(msgs)) => m = NumRows(objs, t)
<1> DEFINE l == Len(msgs)
           rest == Tail(msgs)
<1>1. PICK at \in [0..l -> 0..NumRows(objs, t)] :
          /\ at[0] = n /\ at[l] = e
          /\ \A i \in 1..l :
                 /\ at[i - 1] <= at[i]
                 /\ msgs[i].kind = "header" => at[i] = at[i - 1]
                 /\ msgs[i].kind = "payload" =>
                        msgs[i].what.rows = Rows(objs, at[i - 1], at[i], t)
                 /\ ~Goes(msgs[i]) => at[i] = NumRows(objs, t)
  BY DEF Sheet
<1>2. NumRows(objs, t) \in Nat /\ n \in 0..NumRows(objs, t)
  BY NumRowsFacts, SheetRange
<1>3. /\ rest \in Seq(Told) /\ l \in Nat /\ Len(rest) = l - 1 /\ l # 0
      /\ \A i \in 1..(l - 1) : i + 1 \in 1..l /\ rest[i] = msgs[i + 1]
      /\ Head(msgs) = msgs[1]
  BY TailFacts, HeadTailProperties, EmptySeq
<1> DEFINE to == [i \in 0..(l - 1) |-> at[i + 1]]
<1> HIDE DEF l, rest
<1>4. /\ to \in [0..(l - 1) -> 0..NumRows(objs, t)]
      /\ \A i \in 0..(l - 1) : to[i] = at[i + 1]
  <2>1. \A i \in 0..(l - 1) : i + 1 \in 0..l
    BY <1>3
  <2> QED
    BY <1>1, <2>1
<1> HIDE DEF to
<1>5. to[0] = at[1] /\ to[l - 1] = e
  <2>1. 0 \in 0..(l - 1) /\ l - 1 \in 0..(l - 1) /\ l - 1 + 1 = l /\ 0 + 1 = 1
    BY <1>3
  <2> QED
    BY <1>1, <1>4, <2>1
<1>6. ASSUME NEW i \in 1..(l - 1)
      PROVE  /\ to[i - 1] <= to[i]
             /\ rest[i].kind = "header" => to[i] = to[i - 1]
             /\ rest[i].kind = "payload" =>
                    rest[i].what.rows = Rows(objs, to[i - 1], to[i], t)
             /\ ~Goes(rest[i]) => to[i] = NumRows(objs, t)
  <2>1. /\ i \in 0..(l - 1) /\ i - 1 \in 0..(l - 1) /\ i + 1 \in 1..l
        /\ i - 1 + 1 = i /\ i + 1 - 1 = i
    BY <1>3
  <2>2. to[i] = at[i + 1] /\ to[i - 1] = at[i] /\ rest[i] = msgs[i + 1]
    BY <1>3, <1>4, <2>1
  <2>3. /\ at[i + 1 - 1] <= at[i + 1]
        /\ msgs[i + 1].kind = "header" => at[i + 1] = at[i + 1 - 1]
        /\ msgs[i + 1].kind = "payload" =>
               msgs[i + 1].what.rows = Rows(objs, at[i + 1 - 1], at[i + 1], t)
        /\ ~Goes(msgs[i + 1]) => at[i + 1] = NumRows(objs, t)
    BY <1>1, <2>1
  <2> QED
    BY <2>1, <2>2, <2>3
<1>7. Sheet(rest, objs, t, at[1], e)
  <2>1. Len(rest) = l - 1
    BY <1>3
  <2> SUFFICES /\ to \in [0..Len(rest) -> 0..NumRows(objs, t)]
               /\ to[0] = at[1] /\ to[Len(rest)] = e
               /\ \A i \in 1..Len(rest) :
                      /\ to[i - 1] <= to[i]
                      /\ rest[i].kind = "header" => to[i] = to[i - 1]
                      /\ rest[i].kind = "payload" =>
                             rest[i].what.rows = Rows(objs, to[i - 1], to[i], t)
                      /\ ~Goes(rest[i]) => to[i] = NumRows(objs, t)
    BY Zenon DEF Sheet
  <2> QED
    BY <1>4, <1>5, <1>6, <2>1
<1>8. /\ 1 \in 1..l /\ 1 \in 0..l /\ 1 - 1 = 0
  BY <1>3
<1>9. /\ n <= at[1] /\ at[1] \in 0..NumRows(objs, t)
      /\ msgs[1].kind = "header" => at[1] = n
      /\ msgs[1].kind = "payload" => msgs[1].what.rows = Rows(objs, n, at[1], t)
      /\ ~Goes(msgs[1]) => at[1] = NumRows(objs, t)
  <2>1. /\ at[1 - 1] <= at[1]
        /\ msgs[1].kind = "header" => at[1] = at[1 - 1]
        /\ msgs[1].kind = "payload" => msgs[1].what.rows = Rows(objs, at[1 - 1], at[1], t)
        /\ ~Goes(msgs[1]) => at[1] = NumRows(objs, t)
    BY <1>1, <1>8
  <2> QED
    BY <1>1, <1>8, <2>1
<1>10. at[1] \in n..NumRows(objs, t)
  BY <1>2, <1>9
<1> QED
  BY <1>3, <1>7, <1>9, <1>10 DEF rest

\* A chunk of no rows.
LEMMA NoRows ==
  ASSUME NEW objs \in Operands, NEW t \in Seq(Stored), NEW n \in Nat
  PROVE  Rows(objs, n, n, t) = <<>>
<1>1. n <= n /\ n - n = 0
  OBVIOUS
<1>2. Rows(objs, n, n, t) \in Seq(Shows) /\ Len(Rows(objs, n, n, t)) = n - n
  BY <1>1, RowsFacts
<1> QED
  BY <1>1, <1>2, EmptySeq

-------------------------------------------------------------------------------
(* Steps that leave a client's rows alone                                  *)

\* What is said of a client's rows depends on these.
LEMMA RowsFrame ==
  ASSUME NEW c \in Clients, RowsSound(c),
         cmd'[c] = cmd[c], screen'[c] = screen[c], down'[c] = down[c], stored'[c] = stored[c],
         sstate' = sstate, table' = table, reply' = reply, cursor' = cursor,
         Served(c)' <=> Served(c), cstate[c] = "gone" => cstate'[c] = "gone"
  PROVE  RowsSound(c)'
<1>1. Begun(c)' <=> Begun(c)
  BY DEF Begun
<1>2. CursorOf(cmd[c].objs)' = CursorOf(cmd[c].objs)
  BY DEF CursorOf
<1>3. ListingSound(c) => ListingSound(c)'
  BY <1>1, <1>2 DEF ListingSound, Remains, CursorOf
<1> QED
  BY <1>3 DEF RowsSound

\* Nothing was answered yet.
LEMMA RowsUnserved ==
  ASSUME NEW c \in Clients, RowsSound(c), ~Begun(c), ~Begun(c)',
         cmd'[c] = cmd[c], screen'[c] = screen[c], stored'[c] = stored[c],
         cstate'[c] = cstate[c]
  PROVE  RowsSound(c)'
  BY DEF RowsSound, ListingSound, Begun

\* A client that is gone reads no rows.
LEMMA RowsGone ==
  ASSUME NEW c \in Clients, RowsSound(c), cstate'[c] = "gone", cmd'[c] = cmd[c],
         cmd[c].op # "load" => stored'[c] = stored[c]
  PROVE  RowsSound(c)'
  BY DEF RowsSound

\* A step of one client leaves the rows of the others alone.
LEMMA ClientRows ==
  ASSUME RInv, NEW c \in Clients,
         \A d \in Clients \ {c} :
             /\ cstate'[d] = cstate[d] /\ cmd'[d] = cmd[d] /\ screen'[d] = screen[d]
             /\ down'[d] = down[d] /\ stored'[d] = stored[d] /\ (Served(d)' <=> Served(d)),
         sstate' = sstate, UNCHANGED <<table, reply, cursor>>, RowsSound(c)'
  PROVE  RInv'
<1>1. ASSUME NEW d \in Clients \ {c} PROVE RowsSound(d)'
  BY RowsFrame DEF RInv
<1> QED
  BY <1>1 DEF RInv

\* A step of the server leaves the rows of the others alone.
LEMMA ServerRows ==
  ASSUME RInv, NEW c \in Clients, c = c0, c0' = c0, UNCHANGED <<cstate, cmd, screen>>,
         \A d \in Clients \ {c} : stored'[d] = stored[d],
         RowsSound(c)'
  PROVE  RInv'
<1>1. ASSUME NEW d \in Clients \ {c} PROVE RowsSound(d)'
  <2>1. ~Begun(d) /\ ~Begun(d)'
    BY DEF Begun, Served
  <2> QED
    BY <2>1, RowsUnserved DEF RInv
<1> QED
  BY <1>1 DEF RInv

-------------------------------------------------------------------------------
(* The client                                                              *)

\* Connecting, sending and leaving show nothing.
LEMMA ConnectRows ==
  ASSUME IInv, RInv, NEW c \in Clients, Connect(c)
  PROVE  RInv'
<1>1. /\ cstate[c] = "off" /\ cstate' = [cstate EXCEPT ![c] = "prompt"]
      /\ queue' = Append(queue, c) /\ cstate \in [Clients -> ClientStates]
      /\ UNCHANGED <<cmd, screen, down, sstate, reply, cursor, table, stored>>
  BY DEF Connect, At, Go, server, IInv, Types
<1>2. cmd[c] = NoCmd
  BY <1>1 DEF IInv, ClientSound, CommandSound
<1>3. RowsSound(c)'
  BY <1>1, <1>2 DEF RowsSound
<1>4. ASSUME NEW d \in Clients PROVE Served(d)' <=> Served(d)
  <2>1. CASE sstate \in {"accept", "down"}
    BY <1>1, <2>1 DEF Served
  <2>2. CASE sstate \notin {"accept", "down"}
    <3>1. queue \in Seq(Clients) /\ queue # <<>>
      BY <2>2 DEF IInv, Types, QueueSound
    <3>2. queue' # <<>> /\ Head(queue') = Head(queue)
      <4>1. /\ Append(queue, c) \in Seq(Clients) /\ Len(Append(queue, c)) = Len(queue) + 1
            /\ \A i \in 1..Len(queue) : Append(queue, c)[i] = queue[i]
        BY <3>1, AppendProperties
      <4>2. Len(queue) \in Nat /\ Len(queue) # 0
        BY <3>1, LenProperties, EmptySeq
      <4>3. 1 \in 1..Len(queue) /\ Len(Append(queue, c)) # 0
        BY <4>1, <4>2
      <4>4. Append(queue, c) # <<>>
        BY <4>1, <4>3, EmptySeq
      <4>5. Head(queue) = queue[1] /\ Head(Append(queue, c)) = Append(queue, c)[1]
        BY <3>1, <4>1, <4>4, HeadTailProperties
      <4> QED
        BY <1>1, <4>1, <4>3, <4>4, <4>5
    <3> QED
      BY <1>1, <3>1, <3>2 DEF Served, c0
  <2> QED
    BY <2>1, <2>2
<1>5. \A d \in Clients \ {c} : cstate'[d] = cstate[d]
  BY <1>1
<1> QED
  BY <1>1, <1>3, <1>4, <1>5, ClientRows

LEMMA QuietRows ==
  ASSUME IInv, RInv, NEW c \in Clients,
         \E s \in ClientStates \ {"off"} : Go(c, s),
         cstate[c] # "gone",
         UNCHANGED <<cmd, screen, down, queue, sstate, reply, cursor, table, stored>>
  PROVE  RInv'
<1>1. PICK s \in ClientStates \ {"off"} : cstate' = [cstate EXCEPT ![c] = s]
  BY DEF Go
<1>2. cstate \in [Clients -> ClientStates]
  BY DEF IInv, Types
<1>3. \A d \in Clients : Served(d)' <=> Served(d)
  BY DEF Served, c0
<1>4. RowsSound(c)'
  BY <1>3, RowsFrame DEF RInv
<1>5. \A d \in Clients \ {c} : cstate'[d] = cstate[d]
  BY <1>1, <1>2
<1> QED
  BY <1>3, <1>4, <1>5, ClientRows

\* A command begins with an empty screen.
LEMMA TypeRows ==
  ASSUME IInv, RInv, NEW c \in Clients, Type(c)
  PROVE  RInv'
<1>1. /\ cstate[c] = "prompt" /\ cstate' = [cstate EXCEPT ![c] = "sendHeader"]
      /\ \E k \in Commands : cmd' = [cmd EXCEPT ![c] = k]
      /\ screen' = [screen EXCEPT ![c] = <<>>]
      /\ stored' = [stored EXCEPT ![c] = 0]
      /\ UNCHANGED <<down, queue, sstate, reply, cursor, table>>
  BY DEF Type, At, Go
<1>2. /\ cstate \in [Clients -> ClientStates] /\ cmd \in [Clients -> Commands \cup {NoCmd}]
      /\ screen \in [Clients -> Seq(Shows)] /\ stored \in [Clients -> Nat]
  BY DEF IInv, Types
<1>3. \A d \in Clients : Served(d)' <=> Served(d)
  BY <1>1 DEF Served, c0
<1>4. ~Begun(c)'
  <2>1. Unread(c) /\ (Served(c) => AnswerSent)
    BY <1>1, Quiet
  <2>2. down'[c] = <<>> /\ (Served(c)' => AnswerSent')
    BY <1>1, <1>3, <2>1 DEF Unread
  <2> QED
    BY <2>2 DEF Begun
<1>5. screen'[c] = <<>> /\ stored'[c] = 0
  BY <1>1, <1>2
<1>6. RowsSound(c)'
  BY <1>4, <1>5 DEF RowsSound, ListingSound, Begun
<1>7. \A d \in Clients \ {c} :
          cstate'[d] = cstate[d] /\ cmd'[d] = cmd[d] /\ screen'[d] = screen[d] /\ stored'[d] = stored[d]
  BY <1>1, <1>2
<1> QED
  BY <1>1, <1>3, <1>6, <1>7, ClientRows

\* What a client reads are the next rows; with the end of an answer, the last.
LEMMA ReadShows ==
  ASSUME IInv, NEW c \in Clients, AwaitHeader(c) \/ AwaitPayload(c),
         cmd[c].objs \in Operands, NEW e,
         Sheet(down[c], cmd[c].objs, table, Len(screen[c]), e)
  PROVE  \E m \in Len(screen[c])..NumRows(cmd[c].objs, table) :
             /\ screen' = [screen EXCEPT ![c] =
                              @ \o Rows(cmd[c].objs, Len(screen[c]), m, table)]
             /\ Len(screen'[c]) = m
             /\ Sheet(Tail(down[c]), cmd[c].objs, table, m, e)
             /\ ~Goes(Head(down[c])) => m = NumRows(cmd[c].objs, table)
<1> DEFINE objs == cmd[c].objs
           n == Len(screen[c])
<1>1. /\ down[c] \in Seq(Told) /\ screen \in [Clients -> Seq(Shows)] /\ table \in Seq(Stored)
      /\ screen[c] \in Seq(Shows)
  BY DEF IInv, Types
<1>2. /\ Awaits(c) /\ down[c] # <<>>
      /\ Head(down[c]).kind = IF cstate[c] = "awaitHeader" THEN "header" ELSE "payload"
  <2>1. Awaits(c) /\ down[c] # <<>>
    BY ReadFacts
  <2> QED
    BY <2>1, AnswerFacts
<1>3. PICK m \in n..NumRows(objs, table) :
          /\ Sheet(Tail(down[c]), objs, table, m, e)
          /\ Head(down[c]).kind = "header" => m = n
          /\ Head(down[c]).kind = "payload" => Head(down[c]).what.rows = Rows(objs, n, m, table)
          /\ ~Goes(Head(down[c])) => m = NumRows(objs, table)
  BY <1>1, <1>2, SheetLess, SMTT(30)
<1>4. NumRows(objs, table) \in Nat /\ n \in Nat /\ m \in Nat /\ n <= m
  <2>1. NumRows(objs, table) \in Nat
    BY <1>1, NumRowsFacts
  <2>2. n \in Nat
    BY <1>1, LenProperties
  <2> QED
    BY <2>1, <2>2
<1>5. screen' = [screen EXCEPT ![c] = @ \o Rows(objs, n, m, table)]
  <2>1. CASE AwaitHeader(c)
    <3>1. screen' = screen /\ m = n
      BY <1>2, <1>3, <2>1 DEF AwaitHeader, At
    <3>2. Rows(objs, n, m, table) = <<>>
      BY <1>1, <1>4, <3>1, NoRows
    <3>3. screen[c] \o <<>> = screen[c]
      BY <1>1, ConcatEmptySeq
    <3> QED
      BY <1>1, <3>1, <3>2, <3>3
  <2>2. CASE AwaitPayload(c)
    <3>1. screen' = [screen EXCEPT ![c] = @ \o Head(down[c]).what.rows]
      BY <2>2 DEF AwaitPayload
    <3>2. Head(down[c]).what.rows = Rows(objs, n, m, table)
      BY <1>2, <1>3, <2>2 DEF AwaitPayload, At
    <3> QED
      BY <3>1, <3>2
  <2> QED
    BY <2>1, <2>2
<1>6. Len(screen'[c]) = m
  <2>1. /\ Rows(objs, n, m, table) \in Seq(Shows)
        /\ Len(Rows(objs, n, m, table)) = m - n
    BY <1>1, <1>4, RowsFacts
  <2>2. screen'[c] = screen[c] \o Rows(objs, n, m, table)
    BY <1>1, <1>5
  <2>3. Len(screen[c] \o Rows(objs, n, m, table)) = n + (m - n)
    BY <1>1, <2>1, ConcatProperties
  <2> QED
    BY <1>4, <2>2, <2>3
<1> QED
  BY <1>3, <1>5, <1>6

\* A message at a time is read; the others stay in order.
LEMMA ReadRows ==
  ASSUME IInv, RInv, NEW c \in Clients, AwaitHeader(c) \/ AwaitPayload(c)
  PROVE  RInv'
<1>1. /\ Awaits(c) /\ down[c] # <<>>
      /\ down' = [down EXCEPT ![c] = Tail(@)]
      /\ UNCHANGED <<hdr, typed, up, queue, sstate, server>>
      /\ Goes(Head(down[c])) =>
             /\ cstate' = [cstate EXCEPT ![c] = IF cstate[c] = "awaitHeader" THEN "awaitPayload"
                                                ELSE "awaitHeader"]
             /\ UNCHANGED <<cmd, sent, msg>>
      /\ ~Goes(Head(down[c])) => Return(c)
  BY ReadFacts
<1>2. /\ Served(c) /\ up[c] = <<>> /\ Answers(c)
      /\ down[c] \in Seq(Told) /\ Head(down[c]) = down[c][1]
      /\ ~Goes(Head(down[c])) => AnswerSent /\ Tail(down[c]) = <<>>
  BY <1>1, AnswerFacts
<1>3. /\ UNCHANGED <<queue, sstate, reply, cursor, table, stored>>
      /\ \A d \in Clients : Served(d)' <=> Served(d)
  BY <1>1 DEF server, Served, c0
<1>4. /\ cstate \in [Clients -> ClientStates] /\ cmd \in [Clients -> Commands \cup {NoCmd}]
      /\ screen \in [Clients -> Seq(Shows)] /\ down \in [Clients -> Seq(Told)]
      /\ table \in Seq(Stored)
  BY DEF IInv, Types
<1>5. cmd[c] # NoCmd /\ cmd[c] \in Commands /\ cstate[c] # "gone" /\ cmd[c].objs \in Operands
  <2>1. cmd[c] # NoCmd /\ cmd[c] \in Commands /\ cstate[c] # "gone"
    BY <1>1, <1>4 DEF IInv, ClientSound, CommandSound, Awaits
  <2> QED
    BY <2>1, CommandTyped
<1>6. Begun(c) /\ RowsSound(c)
  BY <1>1, <1>2 DEF Begun, RInv
<1>7. PICK e \in 0..NumRows(cmd[c].objs, table) :
          Sheet(down[c], cmd[c].objs, table, Len(screen[c]), e) /\ Remains(cmd[c].objs, e)
  BY <1>5, <1>6 DEF RowsSound, ListingSound
<1>8. PICK m \in Len(screen[c])..NumRows(cmd[c].objs, table) :
          /\ screen' = [screen EXCEPT ![c] =
                           @ \o Rows(cmd[c].objs, Len(screen[c]), m, table)]
          /\ Len(screen'[c]) = m
          /\ Sheet(Tail(down[c]), cmd[c].objs, table, m, e)
          /\ ~Goes(Head(down[c])) => m = NumRows(cmd[c].objs, table)
  BY <1>5, <1>7, ReadShows
<1>9. \A d \in Clients \ {c} :
          /\ cstate'[d] = cstate[d] /\ cmd'[d] = cmd[d] /\ screen'[d] = screen[d]
          /\ down'[d] = down[d] /\ stored'[d] = stored[d]
  BY <1>1, <1>3, <1>4, <1>8 DEF Return, Go
<1>10. down'[c] = Tail(down[c]) /\ screen'[c] \in Seq(Shows)
  <2>1. screen' \in [Clients -> Seq(Shows)]
    BY ReadFacts
  <2> QED
    BY <1>1, <1>4, <2>1
<1>11. RowsSound(c)'
  <2>1. CASE Goes(Head(down[c]))
    <3>1. cmd'[c] = cmd[c] /\ stored'[c] = stored[c]
      BY <1>1, <1>3, <2>1
    <3>2. Begun(c)'
      <4>1. sstate \in {"execute", "sendHeader", "sendPayload"} \/ down'[c] # <<>>
        <5>1. Conversation(c) /\ sstate \notin {"accept", "down"} /\ sstate \in ServerStates
          BY <1>2 DEF IInv, ClientSound, Turns, Served, Types
        <5>2. CASE AnswerSent
          <6>1. ~Goes(down[c][Len(down[c])])
            BY <1>1, <1>5, <5>1, <5>2 DEF Conversation, Unread, Ended
          <6>2. Tail(down[c]) = <<>> => Len(down[c]) = 1
            BY <1>1, <1>2, TailFacts
          <6> QED
            BY <1>2, <1>10, <2>1, <6>1, <6>2
        <5>3. sstate # "recvPayload"
          BY <1>1, <5>1 DEF Conversation, HalfRead
        <5> QED
          BY <5>1, <5>2, <5>3 DEF ServerStates
      <4> QED
        BY <1>2, <1>3, <4>1 DEF Begun
    <3>3. Remains(cmd[c].objs, e)'
      BY <1>3, <1>7, <3>1 DEF Remains, CursorOf
    <3>4. ListingSound(c)'
      BY <1>3, <1>8, <1>10, <3>1, <3>2, <3>3 DEF ListingSound
    <3> QED
      BY <1>5, <1>6, <3>1, <3>4 DEF RowsSound
  <2>2. CASE ~Goes(Head(down[c]))
    <3>1. CASE cmd'[c] = NoCmd
      BY <3>1 DEF RowsSound
    <3>2. CASE cmd'[c] # NoCmd
      <4>1. cmd[c].op = "load" /\ cmd' = cmd
        BY <1>1, <1>4, <2>2, <3>2 DEF Return
      <4>2. NumRows(cmd[c].objs, table) = 0
        BY <1>5, <4>1, CommandTyped DEF NumRows
      <4>3. screen'[c] = <<>>
        BY <1>8, <1>10, <2>2, <4>2, EmptySeq
      <4>4. ~Begun(c)'
        BY <1>2, <1>3, <1>10, <2>2 DEF Begun
      <4> QED
        BY <4>1, <4>3, <4>4 DEF RowsSound, ListingSound
    <3> QED
      BY <3>1, <3>2
  <2> QED
    BY <2>1, <2>2
<1> QED
  BY <1>3, <1>9, <1>11, ClientRows

-------------------------------------------------------------------------------
(* The server                                                              *)

\* The next client has not been heard.
LEMMA AcceptRows ==
  ASSUME IInv, RInv, Accept
  PROVE  RInv'
<1>1. /\ sstate = "accept" /\ sstate' = "recvHeader"
      /\ UNCHANGED <<cstate, cmd, screen, down, up, queue, stored>>
  BY DEF Accept, user, server
<1>2. ASSUME NEW d \in Clients PROVE RowsSound(d)'
  <2>1. RowsSound(d) /\ ~Served(d) /\ ~Begun(d)
    BY <1>1 DEF RInv, Served, Begun
  <2>2. CASE cstate[d] = "gone"
    BY <1>1, <2>1, <2>2, RowsGone
  <2>3. CASE cstate[d] # "gone"
    <3>1. down[d] = <<>>
      BY <2>1, <2>3 DEF IInv, ClientSound, Turns, Unread
    <3>2. ~Begun(d)'
      BY <1>1, <3>1 DEF Begun
    <3> QED
      BY <1>1, <2>1, <3>2, RowsUnserved
  <2> QED
    BY <2>2, <2>3
<1> QED
  BY <1>2 DEF RInv

\* The server is lost: its client is gone, and no other has begun to read.
LEMMA DieRows ==
  ASSUME IInv, RInv, sstate \notin {"accept", "down"}, Hung, Dies,
         UNCHANGED <<cstate, cmd, screen>>
  PROVE  RInv'
<1>1. sstate' = "down" /\ UNCHANGED <<down, queue, stored>>
  BY DEF Dies, server
<1>2. ASSUME NEW d \in Clients PROVE RowsSound(d)'
  <2>1. RowsSound(d)
    BY DEF RInv
  <2>2. CASE d = c0
    BY <1>1, <2>1, <2>2, RowsGone DEF Hung
  <2>3. CASE d # c0
    <3>1. ~Begun(d) /\ ~Begun(d)'
      BY <1>1, <2>3 DEF Begun, Served
    <3> QED
      BY <1>1, <2>1, <3>1, RowsUnserved
  <2> QED
    BY <2>2, <2>3
<1> QED
  BY <1>2 DEF RInv

\* A client that is heard has nothing to read.
LEMMA RecvHeaderRows ==
  ASSUME IInv, RInv, RecvHeader
  PROVE  RInv'
<1>1. sstate = "recvHeader" /\ UNCHANGED <<cstate, cmd, screen>>
  BY DEF RecvHeader, user
<1>2. PICK c \in Clients :
          /\ c = c0 /\ queue # <<>> /\ InQueue(c)
          /\ Served(c) /\ ClientSound(c) /\ Conversation(c)
  BY <1>1, ServedFacts
<1>3. CASE up[c0] # <<>>
  <2>1. sstate' = "recvPayload" /\ UNCHANGED <<down, queue, stored>>
    BY <1>3 DEF RecvHeader, server
  <2>2. down[c] = <<>>
    BY <1>1, <1>2, <1>3 DEF Conversation, Unread
  <2>3. ~Begun(c) /\ ~Begun(c)'
    BY <1>1, <2>1, <2>2 DEF Begun
  <2>4. RowsSound(c)'
    BY <1>1, <2>1, <2>3, RowsUnserved DEF RInv
  <2>5. c0' = c0
    BY <2>1 DEF c0
  <2> QED
    BY <1>1, <1>2, <2>1, <2>4, <2>5, ServerRows
<1>4. CASE up[c0] = <<>> /\ down[c0] # <<>>
  BY <1>1, <1>4, DieRows DEF RecvHeader
<1>5. CASE up[c0] = <<>> /\ down[c0] = <<>>
  <2>1. sstate' \in {"accept", "down"} /\ Hung /\ UNCHANGED stored
    BY <1>5 DEF RecvHeader, server
  <2>2. ASSUME NEW d \in Clients PROVE RowsSound(d)'
    <3>1. RowsSound(d) /\ ~Begun(d)'
      BY <2>1 DEF RInv, Begun, Served
    <3>2. CASE d = c0
      BY <1>1, <2>1, <3>1, <3>2, RowsGone DEF Hung
    <3>3. CASE d # c0
      <4>1. ~Begun(d)
        BY <3>3 DEF Begun, Served
      <4> QED
        BY <1>1, <2>1, <3>1, <4>1, RowsUnserved
    <3> QED
      BY <3>2, <3>3
  <2> QED
    BY <2>2 DEF RInv
<1> QED
  BY <1>3, <1>4, <1>5

\* A command begins without a cursor.
LEMMA RecvPayloadRows ==
  ASSUME IInv, RInv, RecvPayload
  PROVE  RInv'
<1>1. /\ sstate = "recvPayload" /\ sstate' = "execute"
      /\ UNCHANGED <<cstate, cmd, screen, down, queue, reply, cursor, table, stored>>
  BY DEF RecvPayload, user
<1>2. PICK c \in Clients :
          /\ c = c0 /\ queue # <<>> /\ InQueue(c)
          /\ Served(c) /\ ClientSound(c) /\ Conversation(c)
  BY <1>1, ServedFacts
<1>3. down[c] = <<>> /\ RowsSound(c)
  BY <1>1, <1>2 DEF Conversation, HalfRead, RInv
<1>4. /\ cmd[c] \in Commands \cup {NoCmd} /\ table \in Seq(Stored)
      /\ cursor["one"].start = 0 /\ cursor["many"].start = 0
  BY <1>1 DEF IInv, Types, CursorSound
<1>5. RowsSound(c)'
  <2>1. CASE cmd[c] = NoCmd
    BY <1>1, <2>1 DEF RowsSound
  <2>2. CASE cmd[c] # NoCmd /\ cstate[c] = "gone"
    BY <1>1, <1>3, <2>2, RowsGone
  <2>3. CASE cmd[c] # NoCmd /\ cstate[c] # "gone"
    <3>1. screen[c] = <<>>
      <4>1. ~Begun(c)
        BY <1>1, <1>3 DEF Begun
      <4> QED
        BY <1>3, <2>3, <4>1 DEF RowsSound, ListingSound
    <3>2. cmd[c].objs \in Operands
      BY <1>4, <2>3, CommandTyped
    <3>3. NumRows(cmd[c].objs, table) \in Nat
      BY <1>4, <3>2, NumRowsFacts
    <3>4. 0 \in 0..NumRows(cmd[c].objs, table) /\ Len(<<>>) = 0
      BY <3>3
    <3>5. Sheet(<<>>, cmd[c].objs, table, 0, 0)
      BY <1>4, <3>2, <3>4, SheetNone
    <3>6. CursorOf(cmd[c].objs).start = 0 /\ CursorOf(cmd[c].objs)' = CursorOf(cmd[c].objs)
      BY <1>1, <1>4 DEF CursorOf
    <3>7. Remains(cmd[c].objs, 0)'
      BY <1>1, <3>6 DEF Remains, CursorOf
    <3>8. ListingSound(c)'
      BY <1>1, <1>3, <3>1, <3>4, <3>5, <3>7, Zenon DEF ListingSound, Begun
    <3> QED
      BY <1>1, <1>3, <3>8 DEF RowsSound
  <2> QED
    BY <2>1, <2>2, <2>3
<1>6. c0' = c0
  BY <1>1 DEF c0
<1> QED
  BY <1>1, <1>2, <1>5, <1>6, ServerRows

-------------------------------------------------------------------------------
(* Execution of a command                                                  *)

\* A chunk that is not the last ends behind the first row.
LEMMA LimitNotZero ==
  ASSUME NEW f \in {"one", "many"}, NEW start \in Nat, NEW rows \in Nat,
         NEW limit \in Limits(f, start, rows), limit # rows
  PROVE  limit # 0
<1>1. PrintVec \in Nat \ {0} /\ TextVec \in Nat \ {0}
  BY ProtocolAssumption
<1>2. CASE f = "one"
  BY <1>1, <1>2 DEF Limits, Least
<1>3. CASE f = "many"
  BY <1>1, <1>3 DEF Limits
<1> QED
  BY <1>2, <1>3

\* The answer of a print goes on where the cursor was.
LEMMA PrintFollows ==
  ASSUME IInv, sstate = "execute", query.op = "print", query.objs \in Operands,
         NEW f \in {"one", "many"},
         f = (IF Cardinality(query.objs) = 1 THEN "one" ELSE "many"),
         PrintRows(f, query.objs),
         cursor[f].start # 0 => cursor[f].rows = NumRows(query.objs, table)
  PROVE  Follows(reply', cursor'[f], query.objs, table, cursor[f].start)
<1> DEFINE objs == query.objs
           start == cursor[f].start
           rows == NumRows(objs, table)
<1>1. /\ cursor \in [{"one", "many"} -> Cursors] /\ table \in Seq(Stored)
      /\ start \in Nat /\ cursor[f].rows \in Nat /\ start <= cursor[f].rows
  BY DEF IInv, Types, Cursors
<1>2. rows \in Nat
  BY <1>1, NumRowsFacts
<1>3. start <= rows /\ rows = (IF start = 0 THEN NumRows(objs, table) ELSE cursor[f].rows)
  BY <1>1, <1>2
<1>4. CASE rows = 0
  <2>1. reply' = Text
    BY <1>3, <1>4 DEF PrintRows
  <2>2. Text.rows = <<>> /\ Text.more = FALSE /\ start = 0
    BY <1>1, <1>2, <1>3, <1>4 DEF Text, Reply
  <2>3. Rows(objs, 0, 0, table) = <<>> /\ 0 \in 0..0
    BY <1>1, NoRows
  <2> QED
    BY <1>4, <2>1, <2>2, <2>3 DEF Follows
<1>5. CASE rows # 0
  <2>1. PICK limit \in Limits(f, start, rows) :
            /\ reply' = Reply(1, Rows(objs, start, limit, table), limit # rows)
            /\ cursor' = Moved(f, rows, limit)
    BY <1>3, <1>5 DEF PrintRows
  <2>2. limit \in Nat /\ start <= limit /\ limit <= rows /\ (limit # rows => limit # 0)
    BY <1>1, <1>2, <1>3, LimitFacts, LimitNotZero
  <2>3. limit \in start..rows
    BY <1>1, <1>2, <2>2
  <2>4. /\ reply'.rows = Rows(objs, start, limit, table) /\ reply'.length = 1
        /\ reply'.more <=> limit # rows
    BY <2>1 DEF Reply
  <2>5. cursor'[f] = [rows |-> rows, start |-> IF limit = rows THEN 0 ELSE limit]
    BY <1>1, <2>1 DEF Moved
  <2> HIDE DEF rows, start, objs
  <2>6. limit # rows => cursor'[f].rows = rows /\ cursor'[f].start = limit
    BY <2>5
  <2>7. /\ reply'.rows = Rows(objs, start, limit, table)
        /\ reply'.length = 0 => reply'.rows = <<>>
        /\ IF reply'.more THEN limit # 0 /\ cursor'[f].rows = rows /\ cursor'[f].start = limit
           ELSE limit = rows
    BY <2>2, <2>4, <2>6
  <2>8. Follows(reply', cursor'[f], objs, table, start)
    BY <2>3, <2>7 DEF Follows, rows
  <2> QED
    BY <2>8 DEF objs, start
<1> QED
  BY <1>4, <1>5

\* Rows of nothing do not depend on the table.
LEMMA SheetNothing ==
  ASSUME NEW t \in Seq(Stored), NEW u \in Seq(Stored), NEW msgs \in Seq(Told), NEW n, NEW e,
         Sheet(msgs, {}, t, n, e)
  PROVE  Sheet(msgs, {}, u, n, e) /\ n = 0 /\ e = 0
<1>1. NumRows({}, t) = 0 /\ NumRows({}, u) = 0
  BY DEF NumRows
<1>2. {} \in Operands
  BY DEF Operands
<1>3. Rows({}, 0, 0, t) = <<>> /\ Rows({}, 0, 0, u) = <<>>
  BY <1>2, NoRows
<1>4. PICK at \in [0..Len(msgs) -> 0..0] :
          /\ at[0] = n /\ at[Len(msgs)] = e
          /\ \A i \in 1..Len(msgs) :
                 msgs[i].kind = "payload" =>
                     msgs[i].what.rows = Rows({}, at[i - 1], at[i], t)
  BY <1>1 DEF Sheet
<1>5. Len(msgs) \in Nat
  BY LenProperties
<1>6. \A i \in 0..Len(msgs) : at[i] = 0
  BY <1>4
<1>7. \A i \in 1..Len(msgs) : i - 1 \in 0..Len(msgs) /\ i \in 0..Len(msgs)
  BY <1>5
<1>8. \A i \in 1..Len(msgs) : at[i - 1] = 0 /\ at[i] = 0
  BY <1>6, <1>7
<1>9. \A i \in 1..Len(msgs) :
          msgs[i].kind = "payload" => msgs[i].what.rows = Rows({}, at[i - 1], at[i], u)
  BY <1>3, <1>4, <1>8
<1>10. \A i \in 1..Len(msgs) :
           /\ at[i - 1] <= at[i]
           /\ msgs[i].kind = "header" => at[i] = at[i - 1]
           /\ ~Goes(msgs[i]) => at[i] = 0
  BY <1>8
<1>11. Sheet(msgs, {}, u, n, e)
  <2> SUFFICES /\ at \in [0..Len(msgs) -> 0..NumRows({}, u)]
               /\ at[0] = n /\ at[Len(msgs)] = e
               /\ \A i \in 1..Len(msgs) :
                      /\ at[i - 1] <= at[i]
                      /\ msgs[i].kind = "header" => at[i] = at[i - 1]
                      /\ msgs[i].kind = "payload" =>
                             msgs[i].what.rows = Rows({}, at[i - 1], at[i], u)
                      /\ ~Goes(msgs[i]) => at[i] = NumRows({}, u)
    BY Zenon DEF Sheet
  <2> QED
    BY <1>1, <1>4, <1>9, <1>10
<1>12. 0 \in 0..Len(msgs) /\ Len(msgs) \in 0..Len(msgs)
  BY <1>5
<1> QED
  BY <1>4, <1>6, <1>11, <1>12

\* A command that is no print is answered without rows.
LEMMA NothingFollows ==
  ASSUME NEW t \in Seq(Stored), NEW r, NEW k, r.rows = <<>>, r.more = FALSE
  PROVE  Follows(r, k, {}, t, 0)
<1>1. NumRows({}, t) = 0 /\ 0 \in 0..0
  BY DEF NumRows
<1>2. Rows({}, 0, 0, t) = <<>>
  <2>1. {} \in Operands
    BY DEF Operands
  <2> QED
    BY <2>1, NoRows
<1> QED
  BY <1>1, <1>2 DEF Follows

\* Only a print has operands.
LEMMA NoOperands ==
  ASSUME NEW k \in Commands, k.op # "print"
  PROVE  k.objs = {}
  BY DEF Commands, Command

\* What is executed is what the client asked for, from where it got to.
LEMMA ExecuteRows ==
  ASSUME IInv, RInv, Execute
  PROVE  RInv'
<1>1. PICK c \in Clients :
          /\ c = c0 /\ queue # <<>> /\ Served(c) /\ ClientSound(c)
          /\ sstate = "execute" /\ sstate' = "sendHeader" /\ up[c] = <<>>
          /\ UNCHANGED <<cstate, cmd, hdr, sent, msg, screen, typed, up, down, queue>>
          /\ UNCHANGED <<query, running>>
          /\ query \in Messages /\ cmd[c] \in Commands \cup {NoCmd}
          /\ \/ cstate[c] = "gone" /\ query = NoMsg
             \/ query = msg[c] /\ cmd[c] # NoCmd
          /\ CommandSound(c)' /\ Turns(c)' /\ OneWay(c)'
          /\ ~Pending(c)'
  BY ExecuteFacts
<1>2. RowsSound(c) /\ CommandSound(c) /\ (cmd[c] # NoCmd => cmd[c] \in Commands)
  BY <1>1 DEF RInv, ClientSound
<1>3. DoPrint \/ DoLoad \/ DoOther
  BY DEF Execute
<1>4. stored \in [Clients -> Nat] /\ table \in Seq(Stored) /\ down[c] \in Seq(Told)
  BY DEF IInv, Types
<1>5. c0' = c0
  BY <1>1 DEF c0
<1>6. \A d \in Clients \ {c} : stored'[d] = stored[d]
  BY <1>1, <1>3, <1>4 DEF DoPrint, DoLoad, DoOther
<1>7. cmd[c] # NoCmd /\ cmd[c].op # "load" => stored'[c] = stored[c]
  <2>1. CASE DoLoad
    <3>1. query.op = "load"
      BY <2>1 DEF DoLoad
    <3>2. query = msg[c] /\ cmd[c] # NoCmd
      BY <1>1, <3>1, NoMsgTyped
    <3> QED
      BY <1>2, <3>1, <3>2 DEF CommandSound
  <2>2. CASE DoPrint \/ DoOther
    BY <2>2 DEF DoPrint, DoOther
  <2> QED
    BY <1>3, <2>1, <2>2
<1>8. table' \in Seq(Stored)
  <2>1. IInv'
    BY ExecuteKeeps
  <2> QED
    BY <2>1 DEF IInv, Types
<1>9. RowsSound(c)'
  <2>1. CASE cmd[c] = NoCmd
    BY <1>1, <2>1 DEF RowsSound
  <2>2. CASE cstate[c] = "gone" /\ cmd[c] # NoCmd
    BY <1>1, <1>2, <1>7, <2>2, RowsGone
  <2>3. CASE cstate[c] # "gone" /\ cmd[c] # NoCmd
    <3>1. /\ query = msg[c] /\ query.op = cmd[c].op /\ query.objs = cmd[c].objs
          /\ cmd[c] \in Commands /\ cmd[c].objs \in Operands
      BY <1>1, <1>2, <2>3, CommandTyped DEF CommandSound
    <3>2. Begun(c) /\ Begun(c)'
      BY <1>1, <1>5 DEF Begun, Served, c0
    <3>3. PICK e \in 0..NumRows(cmd[c].objs, table) :
              /\ Sheet(down[c], cmd[c].objs, table, Len(screen[c]), e)
              /\ Remains(cmd[c].objs, e)
      BY <1>2, <2>3, <3>2 DEF RowsSound, ListingSound
    <3>4. ASSUME Sheet(down[c], cmd[c].objs, table', Len(screen[c]), e),
                 Follows(reply', CursorOf(cmd[c].objs)', cmd[c].objs, table', e),
                 e \in 0..NumRows(cmd[c].objs, table')
          PROVE  RowsSound(c)'
      <4>1. Remains(cmd[c].objs, e)'
        BY <1>1, <3>4 DEF Remains, CursorOf
      <4>2. ListingSound(c)'
        BY <1>1, <3>2, <3>4, <4>1, Zenon DEF ListingSound
      <4> QED
        BY <1>1, <1>2, <1>7, <2>3, <4>2 DEF RowsSound
    <3>5. CASE DoPrint
      <4> DEFINE f == IF Cardinality(query.objs) = 1 THEN "one" ELSE "many"
      <4>1. PICK g \in {"one", "many"} : g = f
        OBVIOUS
      <4>2. query.op = "print" /\ table' = table
        BY <3>5 DEF DoPrint
      <4>3. PrintRows(g, query.objs)
        <5>1. PrintRows(f, query.objs)
          BY <3>5 DEF DoPrint
        <5> QED
          BY <4>1, <5>1 DEF PrintRows
      <4>4. CursorOf(cmd[c].objs) = cursor[g] /\ CursorOf(cmd[c].objs)' = cursor'[g]
        BY <1>1, <3>1, <4>1 DEF CursorOf
      <4>5. cursor[g].start = e /\ (e # 0 => cursor[g].rows = NumRows(query.objs, table))
        BY <1>1, <3>1, <3>3, <4>4 DEF Remains
      <4>6. Follows(reply', cursor'[g], query.objs, table, e)
        BY <1>1, <3>1, <4>1, <4>2, <4>3, <4>5, PrintFollows
      <4> QED
        BY <3>1, <3>3, <3>4, <4>2, <4>4, <4>6
    <3>6. CASE DoLoad \/ DoOther
      <4>1. query.op # "print"
        BY <3>6 DEF DoLoad, DoOther
      <4>2. cmd[c].objs = {}
        BY <3>1, <4>1, NoOperands
      <4>3. reply' \in {NoPayload, Text}
        BY <3>6 DEF DoLoad, DoOther
      <4>4. reply'.rows = <<>> /\ reply'.more = FALSE
        BY <4>3 DEF NoPayload, Text, Reply
      <4>5. Sheet(down[c], {}, table', Len(screen[c]), e) /\ e = 0
        BY <1>4, <1>8, <3>3, <4>2, SheetNothing
      <4>6. Follows(reply', CursorOf(cmd[c].objs)', {}, table', 0)
        BY <1>8, <4>4, NothingFollows
      <4>7. NumRows({}, table') = 0 /\ 0 \in 0..0
        BY DEF NumRows
      <4> QED
        BY <3>4, <4>2, <4>5, <4>6, <4>7
    <3> QED
      BY <1>3, <3>5, <3>6
  <2> QED
    BY <2>1, <2>2, <2>3
<1> QED
  BY <1>1, <1>5, <1>6, <1>9, ServerRows

-------------------------------------------------------------------------------
(* The answer                                                              *)

\* A message of the answer goes behind the others, with the rows that follow.
LEMMA ReplyRows ==
  ASSUME IInv, RInv, ReplyHeader \/ ReplyPayload
  PROVE  RInv'
<1>1. sstate \in {"sendHeader", "sendPayload"} /\ UNCHANGED <<cstate, cmd, screen>>
  BY DEF ReplyHeader, ReplyPayload, user
<1>2. PICK c \in Clients :
          /\ c = c0 /\ queue # <<>> /\ InQueue(c)
          /\ Served(c) /\ ClientSound(c) /\ Conversation(c)
  BY <1>1, ServedFacts
<1>3. CASE Hung
  <2>1. Dies
    BY <1>3 DEF ReplyHeader, ReplyPayload
  <2> QED
    BY <1>1, <1>3, <2>1, DieRows
<1>4. CASE ~Hung
  <2>1. UNCHANGED <<queue, reply, cursor, table, stored>>
    BY <1>4 DEF ReplyHeader, ReplyPayload, server
  <2>2. /\ cmd[c] \in Commands \cup {NoCmd} /\ table \in Seq(Stored)
        /\ down \in [Clients -> Seq(Told)] /\ down[c] \in Seq(Told) /\ reply \in Replies
    BY DEF IInv, Types
  <2>3. cstate[c] # "gone" /\ c0' = c0 /\ RowsSound(c)
    BY <1>2, <1>4, <2>1 DEF Hung, c0, RInv
  <2>4. Begun(c)
    BY <1>1, <1>2 DEF Begun
  <2>5. ASSUME NEW x \in Told, down'[c] = Append(down[c], x), cmd[c] # NoCmd,
               NEW e, Sheet(down[c], cmd[c].objs, table, Len(screen[c]), e),
               NEW m \in e..NumRows(cmd[c].objs, table),
               x.kind = "header" => m = e,
               x.kind = "payload" => x.what.rows = Rows(cmd[c].objs, e, m, table),
               ~Goes(x) => m = NumRows(cmd[c].objs, table),
               sstate' \in {"execute", "recvHeader", "sendPayload", "sendNothing"},
               Remains(cmd[c].objs, m)'
        PROVE  RowsSound(c)'
    <3>1. cmd[c].objs \in Operands
      BY <2>2, <2>5, CommandTyped
    <3>2. Sheet(Append(down[c], x), cmd[c].objs, table, Len(screen[c]), m)
      BY <2>2, <2>5, <3>1, SheetMore
    <3>3. m \in 0..NumRows(cmd[c].objs, table)
      <4>1. Append(down[c], x) \in Seq(Told)
        BY <2>2, AppendProperties
      <4> QED
        BY <3>2, <4>1, SheetRange
    <3>4. Begun(c)'
      <4>1. Served(c)'
        BY <1>2, <2>1, <2>5 DEF Served, c0
      <4>2. down'[c] # <<>>
        <5>1. Len(Append(down[c], x)) = Len(down[c]) + 1 /\ Len(down[c]) \in Nat
          BY <2>2, AppendProperties, LenProperties
        <5>2. Len(Append(down[c], x)) # 0 /\ Append(down[c], x) \in Seq(Told)
          BY <2>2, <5>1, AppendProperties
        <5>3. Append(down[c], x) # <<>>
          BY <5>2, EmptySeq
        <5> QED
          BY <2>5, <5>3
      <4> QED
        BY <4>1, <4>2 DEF Begun
    <3>5. ListingSound(c)'
      BY <1>1, <2>1, <2>5, <3>2, <3>3, <3>4, Zenon DEF ListingSound
    <3> QED
      BY <1>1, <2>1, <2>3, <3>5 DEF RowsSound
  <2>6. RowsSound(c)'
    <3>1. CASE cmd[c] = NoCmd
      BY <1>1, <3>1 DEF RowsSound
    <3>2. CASE cmd[c] # NoCmd
      <4> DEFINE objs == cmd[c].objs
                 rows == NumRows(objs, table)
      <4>1. PICK e \in 0..rows : Sheet(down[c], objs, table, Len(screen[c]), e) /\ Remains(objs, e)
        BY <2>3, <2>4, <3>2 DEF RowsSound, ListingSound
      <4>2. objs \in Operands /\ rows \in Nat
        <5>1. objs \in Operands
          BY <2>2, <3>2, CommandTyped
        <5> QED
          BY <2>2, <5>1, NumRowsFacts
      <4>3. PICK n \in e..rows :
                /\ reply.rows = Rows(objs, e, n, table)
                /\ reply.length = 0 => reply.rows = <<>>
                /\ IF reply.more THEN n # 0 /\ CursorOf(objs).rows = rows /\ CursorOf(objs).start = n
                   ELSE n = rows
        BY <1>1, <4>1 DEF Remains, Follows
      <4>4. CursorOf(objs)' = CursorOf(objs)
        BY <1>1, <2>1 DEF CursorOf
      <4>5. reply.length \in {0, 1} /\ reply.more \in BOOLEAN /\ (reply.more => reply.length = 1)
        BY <2>2 DEF Replies, IInv, CursorSound
      <4>6. e \in Nat /\ n \in Nat /\ e <= n /\ n \in 0..rows
        BY <4>2
      <4>7. CASE ReplyHeader
        <5> DEFINE x == Header(reply.length)
        <5>1. down'[c] = Append(down[c], x)
          BY <1>2, <1>4, <2>2, <4>7 DEF ReplyHeader
        <5>2. x \in Told /\ x.kind = "header" /\ (Goes(x) <=> reply.length = 1)
          BY <4>5 DEF Header, Told, Goes
        <5> HIDE DEF x
        <5>3. e \in e..rows
          BY <4>2, <4>6
        <5>4. CASE reply.length = 1
          <6>1. sstate = "sendHeader" /\ sstate' = "sendPayload"
            BY <1>4, <4>7, <5>4 DEF ReplyHeader
          <6>2. Remains(objs, e)'
            BY <1>1, <2>1, <4>1, <4>4, <6>1 DEF Remains, CursorOf
          <6> QED
            BY <2>5, <3>2, <4>1, <5>1, <5>2, <5>3, <5>4, <6>1, <6>2
        <5>5. CASE reply.length = 0
          <6>1. sstate' = "sendNothing"
            BY <1>4, <4>5, <4>7, <5>5 DEF ReplyHeader
          <6>2. e = rows
            <7>1. n = rows /\ Rows(objs, e, n, table) = <<>>
              BY <4>3, <4>5, <5>5
            <7>2. Len(Rows(objs, e, n, table)) = n - e
              BY <2>2, <4>2, <4>6, RowsFacts
            <7>3. Len(<<>>) = 0
              OBVIOUS
            <7> QED
              BY <4>6, <7>1, <7>2, <7>3
          <6>3. Remains(objs, e)'
            BY <1>1, <2>1, <6>1, <6>2 DEF Remains
          <6> QED
            BY <2>5, <3>2, <4>1, <5>1, <5>2, <5>3, <6>1, <6>2, <6>3
        <5> QED
          BY <4>5, <5>4, <5>5
      <4>8. CASE ReplyPayload
        <5> DEFINE x == Payload(reply)
        <5>1. down'[c] = Append(down[c], x)
          BY <1>2, <1>4, <2>2, <4>8 DEF ReplyPayload
        <5>2. x \in Told /\ x.kind = "payload" /\ x.what = reply /\ (Goes(x) <=> reply.more)
          BY <2>2 DEF Payload, Told, Goes
        <5> HIDE DEF x
        <5>3. sstate' = IF reply.more THEN "execute" ELSE "recvHeader"
          BY <1>4, <4>8 DEF ReplyPayload, Answered
        <5>4. Remains(objs, n)'
          BY <1>1, <2>1, <4>3, <4>4, <5>3 DEF Remains
        <5>5. sstate' \in {"execute", "recvHeader", "sendPayload", "sendNothing"}
          BY <5>3
        <5>6. ~Goes(x) => n = rows
          BY <4>3, <5>2
        <5> QED
          BY <2>5, <3>2, <4>1, <4>3, <5>1, <5>2, <5>4, <5>5, <5>6
      <4> QED
        BY <4>7, <4>8
    <3> QED
      BY <3>1, <3>2
  <2>7. \A d \in Clients \ {c} : stored'[d] = stored[d]
    BY <2>1
  <2> QED
    BY <1>1, <1>2, <2>3, <2>6, <2>7, ServerRows
<1> QED
  BY <1>3, <1>4

\* The send of nothing shows nothing.
LEMMA NothingRows ==
  ASSUME IInv, RInv, ReplyNothing
  PROVE  RInv'
<1>1. sstate = "sendNothing" /\ UNCHANGED <<cstate, cmd, screen>>
  BY DEF ReplyNothing, user
<1>2. PICK c \in Clients :
          /\ c = c0 /\ queue # <<>> /\ InQueue(c)
          /\ Served(c) /\ ClientSound(c) /\ Conversation(c)
  BY <1>1, ServedFacts
<1>3. CASE Hung
  <2>1. Dies
    BY <1>3 DEF ReplyNothing
  <2> QED
    BY <1>1, <1>3, <2>1, DieRows
<1>4. CASE ~Hung
  <2>1. ~reply.more
    BY <1>1 DEF IInv, CursorSound
  <2>2. sstate' = "recvHeader" /\ UNCHANGED <<down, queue, reply, cursor, table, stored>>
    BY <1>1, <1>4, <2>1 DEF ReplyNothing, Answered
  <2>3. RowsSound(c) /\ c0' = c0
    BY <2>2 DEF RInv, c0
  <2>4. Begun(c)' = Begun(c)
    BY <1>1, <1>2, <2>2 DEF Begun, Served, c0
  <2>5. \A e : Remains(cmd[c].objs, e)' = Remains(cmd[c].objs, e)
    BY <1>1, <2>2 DEF Remains
  <2>6. RowsSound(c)'
    BY <1>1, <2>2, <2>3, <2>4, <2>5 DEF RowsSound, ListingSound
  <2>7. \A d \in Clients \ {c} : stored'[d] = stored[d]
    BY <2>2
  <2> QED
    BY <1>1, <1>2, <2>2, <2>3, <2>6, <2>7, ServerRows
<1> QED
  BY <1>3, <1>4

-------------------------------------------------------------------------------
(* Rows throughout                                                         *)

\* Every step keeps the rows of every print in order.
LEMMA RowsKept ==
  ASSUME IInv, RInv, [Next]_vars
  PROVE  RInv'
<1>1. CASE UNCHANGED vars
  <2>1. UNCHANGED <<cstate, cmd, screen, down, queue, sstate, reply, cursor, table, stored>>
    BY <1>1 DEF vars, user, server
  <2>2. ASSUME NEW c \in Clients PROVE RowsSound(c)'
    <3>1. Served(c)' <=> Served(c)
      BY <2>1 DEF Served, c0
    <3> QED
      BY <2>1, <3>1, RowsFrame DEF RInv
  <2> QED
    BY <2>2 DEF RInv
<1>2. CASE ServerRuns
  BY <1>2, AcceptRows, RecvHeaderRows, RecvPayloadRows, ExecuteRows, ReplyRows, NothingRows DEF ServerRuns
<1>3. ASSUME NEW c \in Clients, Connect(c) PROVE RInv'
  BY <1>3, ConnectRows
<1>4. ASSUME NEW c \in Clients, Type(c) PROVE RInv'
  BY <1>4, TypeRows
<1>5. ASSUME NEW c \in Clients, AwaitHeader(c) \/ AwaitPayload(c) PROVE RInv'
  BY <1>5, ReadRows
<1>6. ASSUME NEW c \in Clients, SendHeader(c) \/ SendPayload(c) \/ ServerLost(c) \/ Leave(c)
      PROVE  RInv'
  <2>1. cstate[c] # "gone"
    BY <1>6 DEF SendHeader, SendPayload, Send, ServerLost, Leave, At
  <2>2. \E s \in ClientStates \ {"off"} : Go(c, s)
    BY <1>6 DEF SendHeader, SendPayload, Send, ServerLost, Leave, ClientStates
  <2>3. UNCHANGED <<cmd, screen, down, queue, sstate, reply, cursor, table, stored>>
    BY <1>6 DEF SendHeader, SendPayload, Send, ServerLost, Leave, server
  <2> QED
    BY <2>1, <2>2, <2>3, QuietRows
<1> QED
  BY <1>1, <1>2, <1>3, <1>4, <1>5, <1>6 DEF Next, ClientRuns

\* db_print and db_print_one over any number of chunks: the rows a client has on
\* its screen, those on their way to it, those in the answer that is being sent
\* and those behind the cursor are the rows of its print, each once and in order.
THEOREM RowsInOrder == Spec => []RInv
<1>1. Init => RInv
  <2>1. Init => \A c \in Clients : cmd[c] = NoCmd
    BY DEF Init
  <2> QED
    BY <2>1 DEF RInv, RowsSound
<1>2. IInv /\ RInv /\ [Next]_vars => RInv'
  BY RowsKept
<1> QED
  BY <1>1, <1>2, Invariance, PTL DEF Spec

-------------------------------------------------------------------------------
(* The refinement: state                                                   *)

\* The abstract specification counts rows as the detailed one does.
LEMMA SameRows ==
  ASSUME NEW objs, NEW t, NEW m, NEW n
  PROVE  /\ Promised!NumRows(objs, t) = NumRows(objs, t)
         /\ Promised!Rows(objs, m, n, t) = Rows(objs, m, n, t)
<1>1. \A x : Promised!Count(x, t) = Count(x, t)
  BY DEF Promised!Count, Count
<1>2. Promised!NumRows(objs, t) = NumRows(objs, t)
  BY DEF Promised!NumRows, NumRows, Promised!Count, Count
<1>3. \A j : Promised!Row(objs, j, t) = Row(objs, j, t)
  BY DEF Promised!Row, Row, Promised!Count, Count
<1>4. Promised!Rows(objs, m, n, t) = Rows(objs, m, n, t)
  BY <1>3 DEF Promised!Rows, Rows
<1> QED
  BY <1>2, <1>4

\* A client waits for an answer while it has a command.
LEMMA Waiting ==
  ASSUME IInv, NEW c \in Clients
  PROVE  OrderOf(c) = NoOrder <=> cmd[c] = NoCmd
<1>1. cmd[c] = NoCmd => OrderOf(c) = NoOrder
  BY DEF OrderOf
<1>2. ASSUME cmd[c] # NoCmd PROVE OrderOf(c) # NoOrder
  <2>1. cmd[c] \in Commands
    BY <1>2 DEF IInv, Types
  <2>2. Junk \notin cmd[c].objs
    BY <2>1, ListingAssumption, CommandTyped DEF Operands
  <2>3. OrderOf(c).prints = cmd[c].objs /\ NoOrder.prints = {Junk}
    BY <1>2 DEF OrderOf, NoOrder
  <2> QED
    BY <2>2, <2>3
<1> QED
  BY <1>1, <1>2

\* A step that changes neither commands nor headers changes no order.
LEMMA OrdersKept ==
  ASSUME UNCHANGED <<cmd, hdr>>
  PROVE  Ordered' = Ordered
  BY DEF Ordered, OrderOf, ToStore

\* A step that nobody sees.
LEMMA Unseen ==
  ASSUME UNCHANGED <<cmd, hdr, screen, table, stored>>,
         \A c \in Clients : Alive(c)' <=> Alive(c)
  PROVE  UNCHANGED Promised!vars
<1>1. Connected' = Connected
  BY DEF Alive, Connected
<1> QED
  BY <1>1, OrdersKept DEF Promised!vars

-------------------------------------------------------------------------------
(* The refinement: steps                                                   *)

\* A client connects.
LEMMA ConnectJoins ==
  ASSUME IInv, NEW c \in Clients, Connect(c)
  PROVE  Promised!Join(c)
<1>1. /\ cstate[c] = "off" /\ cstate' = [cstate EXCEPT ![c] = "prompt"]
      /\ UNCHANGED <<cmd, hdr, screen, table, stored>> /\ cstate \in [Clients -> ClientStates]
  BY DEF Connect, At, Go, server, IInv, Types
<1>2. Connected' = Connected \cup {c} /\ c \notin Connected
  BY <1>1 DEF Connected
<1> QED
  BY <1>1, <1>2, OrdersKept DEF Promised!Join

\* A client leaves, or is lost.
LEMMA GoneQuits ==
  ASSUME IInv, NEW c \in Clients, Alive(c), Go(c, "gone"),
         UNCHANGED <<cmd, hdr, screen, table, stored>>
  PROVE  Promised!Quit(c)
<1>1. cstate' = [cstate EXCEPT ![c] = "gone"] /\ cstate \in [Clients -> ClientStates]
  BY DEF Go, IInv, Types
<1>2. Connected' = Connected \ {c} /\ c \in Connected
  BY <1>1 DEF Connected, Alive
<1> QED
  BY <1>2, OrdersKept DEF Promised!Quit

\* A client sends part of a message, or finds the server lost.
LEMMA SendUnseen ==
  ASSUME IInv, NEW c \in Clients, SendHeader(c) \/ SendPayload(c)
  PROVE  Promised!Quit(c) \/ UNCHANGED Promised!vars
<1>1. Alive(c) /\ UNCHANGED <<cmd, hdr, screen, table, stored>>
  BY DEF SendHeader, SendPayload, Send, Alive, At, server
<1>2. CASE Go(c, "gone")
  BY <1>1, <1>2, GoneQuits
<1>3. CASE Go(c, "sendPayload") \/ Go(c, "awaitHeader")
  <2>1. \A d \in Clients : Alive(d)' <=> Alive(d)
    BY <1>1, <1>3 DEF Alive, Go, IInv, Types
  <2> QED
    BY <1>1, <2>1, Unseen
<1> QED
  BY <1>2, <1>3 DEF SendHeader, SendPayload, Send

\* A client types a command: its order.
LEMMA TypeAsks ==
  ASSUME IInv, NEW c \in Clients, Type(c)
  PROVE  Promised!Ask(c)
<1>1. PICK a \in Commands :
        /\ cmd' = [cmd EXCEPT ![c] = a]
        /\ IF a.op = "load" THEN TypeLoad(c, a.file)
           ELSE UNCHANGED <<hdr, sent>>
  BY DEF Type
<1>2. /\ cstate[c] = "prompt" /\ cstate' = [cstate EXCEPT ![c] = "sendHeader"]
      /\ screen' = [screen EXCEPT ![c] = <<>>]
      /\ stored' = [stored EXCEPT ![c] = 0]
      /\ UNCHANGED table
  BY DEF Type, At, Go
<1>3. /\ cstate \in [Clients -> ClientStates] /\ cmd \in [Clients -> Commands \cup {NoCmd}]
      /\ hdr \in [Clients -> Headed \cup {NoFile}]
  BY DEF IInv, Types
<1>4. /\ \A d \in Clients \ {c} : cmd'[d] = cmd[d] /\ hdr'[d] = hdr[d]
      /\ cmd'[c] = a /\ a # NoCmd /\ (a.op = "load" => a.file \in Files)
  BY <1>1, <1>3, CommandTyped DEF TypeLoad
<1> DEFINE o == [prints |-> a.objs, adds |-> ToStore(c)']
<1>5. o \in Askable
  <2>1. ToStore(c)' \in {<<>>, <<Junk>>} \cup {[j \in 1..Lines[f] |-> <<f, j>>] : f \in Files}
    BY <1>4 DEF ToStore
  <2> QED
    BY <2>1 DEF Askable
<1>6. OrderOf(c)' = o /\ \A d \in Clients \ {c} : OrderOf(d)' = OrderOf(d)
  BY <1>4 DEF OrderOf, ToStore
<1>7. Ordered' = [Ordered EXCEPT ![c] = o]
  BY <1>6 DEF Ordered
<1>8. Ordered[c] = NoOrder
  <2>1. cmd[c] = NoCmd
    BY <1>2 DEF IInv, ClientSound, CommandSound
  <2> QED
    BY <2>1 DEF Ordered, OrderOf
<1>9. Connected' = Connected /\ c \in Connected
  BY <1>2, <1>3 DEF Connected
<1>10. PICK q \in Askable : q = o
  BY <1>5
<1> QED
  BY <1>2, <1>7, <1>8, <1>9, <1>10 DEF Promised!Ask

\* A load that was answered to its end has stored its lines, and what is no load
\* stored nothing.
LEMMA EndStored ==
  ASSUME IInv, RInv, NEW c \in Clients, Awaits(c), down[c] # <<>>, ~Goes(Head(down[c])),
         cmd[c].op = "load" => msg[c].end
  PROVE  stored[c] = Len(ToStore(c))
<1>1. Served(c) /\ up[c] = <<>> /\ AnswerSent
  BY AnswerFacts
<1>2. cmd[c] # NoCmd
  BY DEF IInv, ClientSound, CommandSound, Awaits
<1>3. CASE cmd[c].op # "load"
  <2>1. stored[c] = 0
    BY <1>2, <1>3 DEF RInv, RowsSound
  <2>2. ToStore(c) = <<>> /\ Len(<<>>) = 0
    BY <1>3 DEF ToStore
  <2> QED
    BY <2>1, <2>2
<1>4. CASE cmd[c].op = "load"
  <2>1. PartSound(c) /\ LoadSound(c)
    BY <1>4 DEF IInv, ClientSound, LoadSound
  <2>2. ~Pending(c)
    BY <1>1 DEF Pending, Awaits
  <2>3. cmd[c].file \in Files /\ sent[c] = Lines[cmd[c].file]
    BY <1>4, <2>1 DEF PartSound
  <2>4. /\ hdr[c] \notin Known => Len(ToStore(c)) = 0
        /\ hdr[c] \in Known =>
               Len(ToStore(c)) = IF Lines[cmd[c].file] = 0 THEN 1 ELSE Lines[cmd[c].file]
    BY <1>4, <2>3, ToStoreLength
  <2> QED
    BY <1>4, <2>1, <2>2, <2>3, <2>4 DEF LoadSound
<1> QED
  BY <1>3, <1>4

\* What a client reads, it shows; the last message is the answer.
LEMMA ReadShown ==
  ASSUME IInv, RInv, NEW c \in Clients, AwaitHeader(c) \/ AwaitPayload(c)
  PROVE  \/ Promised!Answer(c)
         \/ Promised!Show(c) /\ UNCHANGED <<Connected, Ordered, stored, table>>
<1>1. /\ Awaits(c) /\ down[c] # <<>>
      /\ UNCHANGED <<hdr, typed, up, queue, sstate, server>>
      /\ Goes(Head(down[c])) =>
             /\ cstate' = [cstate EXCEPT ![c] = IF cstate[c] = "awaitHeader" THEN "awaitPayload"
                                                ELSE "awaitHeader"]
             /\ UNCHANGED <<cmd, sent, msg>>
      /\ ~Goes(Head(down[c])) => Return(c)
  BY ReadFacts
<1>2. UNCHANGED <<table, stored>>
  BY <1>1 DEF server
<1>3. /\ cstate \in [Clients -> ClientStates] /\ cmd \in [Clients -> Commands \cup {NoCmd}]
  BY DEF IInv, Types
<1>4. cmd[c] # NoCmd /\ cmd[c] \in Commands /\ cmd[c].objs \in Operands /\ cstate[c] # "gone"
  <2>1. cmd[c] # NoCmd /\ cmd[c] \in Commands /\ cstate[c] # "gone"
    BY <1>1, <1>3 DEF IInv, ClientSound, CommandSound, Awaits
  <2> QED
    BY <2>1, CommandTyped
<1>5. Begun(c) /\ RowsSound(c)
  <2>1. Served(c)
    BY <1>1, AnswerFacts
  <2> QED
    BY <1>1, <2>1 DEF Begun, RInv
<1>6. PICK e \in 0..NumRows(cmd[c].objs, table) :
          Sheet(down[c], cmd[c].objs, table, Len(screen[c]), e)
  BY <1>4, <1>5 DEF RowsSound, ListingSound
<1>7. PICK m \in Len(screen[c])..NumRows(cmd[c].objs, table) :
          /\ screen' = [screen EXCEPT ![c] =
                           @ \o Rows(cmd[c].objs, Len(screen[c]), m, table)]
          /\ Len(screen'[c]) = m
          /\ ~Goes(Head(down[c])) => m = NumRows(cmd[c].objs, table)
  BY <1>4, <1>6, ReadShows
<1>8. /\ Ordered[c] # NoOrder /\ Ordered[c].prints = cmd[c].objs
      /\ Ordered[c].adds = ToStore(c)
  <2>1. OrderOf(c) # NoOrder
    BY <1>4, Waiting
  <2> QED
    BY <1>4, <2>1 DEF Ordered, OrderOf
<1>9. c \in Connected /\ Connected' = Connected
  BY <1>1, <1>3 DEF Connected, Awaits, Return, Go
<1>10. Promised!Show(c)
  <2>1. /\ Promised!NumRows(Ordered[c].prints, table) = NumRows(cmd[c].objs, table)
        /\ Promised!Rows(Ordered[c].prints, Len(screen[c]), m, table)
           = Rows(cmd[c].objs, Len(screen[c]), m, table)
    BY <1>8, SameRows
  <2> QED
    BY <1>7, <1>8, <1>9, <2>1 DEF Promised!Show
<1>11. CASE cmd' = cmd
  BY <1>1, <1>2, <1>9, <1>10, <1>11, OrdersKept
<1>12. CASE cmd' # cmd
  <2>1. ~Goes(Head(down[c])) /\ cmd' = [cmd EXCEPT ![c] = NoCmd] /\ hdr' = hdr
    BY <1>1, <1>12 DEF Return
  <2>2. cmd[c].op = "load" => msg[c].end
    BY <1>1, <1>12, <2>1 DEF Return
  <2>3. stored[c] = Len(Ordered[c].adds)
    BY <1>1, <1>8, <2>1, <2>2, EndStored
  <2>4. Ordered' = [Ordered EXCEPT ![c] = NoOrder]
    BY <1>3, <2>1 DEF Ordered, OrderOf, ToStore
  <2>5. Len(screen'[c]) = Promised!NumRows(Ordered[c].prints, table)
    BY <1>7, <1>8, <2>1, SameRows
  <2> QED
    BY <1>2, <1>9, <1>10, <2>3, <2>4, <2>5 DEF Promised!Answer
<1> QED
  BY <1>11, <1>12

\* The lines of a message are the next ones of the load.
LEMMA NextLines ==
  ASSUME NEW f \in Files, NEW n \in Nat, NEW lines \in Seq(Line),
         n + Len(lines) <= Lines[f],
         \A k \in 1..Len(lines) : lines[k] = <<f, n + k>>,
         NEW all, all = [k \in 1..Lines[f] |-> <<f, k>>]
  PROVE  SubSeq(all, n + 1, n + Len(lines)) = lines
<1>1. Lines[f] \in Nat /\ Len(lines) \in Nat
  BY ProtocolAssumption, LenProperties
<1> DEFINE l == Len(lines)
<1> HIDE DEF l
<1>2. l \in Nat /\ n + l <= Lines[f]
  BY <1>1 DEF l
<1>3. \A i \in (n + 1)..(n + l) : all[i] = <<f, i>> /\ all[i] \in Line
  BY <1>1, <1>2 DEF Line
<1>4. PICK lo \in Int, hi \in Int : lo = n + 1 /\ hi = n + l
  BY <1>2
<1> DEFINE part == SubSeq(all, lo, hi)
<1>5. /\ part \in Seq(Line)
      /\ Len(part) = IF lo <= hi THEN hi - lo + 1 ELSE 0
      /\ \A i \in 1..(hi - lo + 1) : part[i] = all[lo + i - 1]
  <2>1. \A i \in lo..hi : all[i] \in Line
    BY <1>3, <1>4
  <2> QED
    BY <2>1, SubSeqProperties
<1> HIDE DEF part
<1>6. hi - lo + 1 = l /\ (l = 0 \/ lo <= hi)
  BY <1>2, <1>4
<1>7. Len(part) = l
  BY <1>2, <1>4, <1>5, <1>6
<1>8. \A i \in 1..l : part[i] = lines[i]
  <2>1. ASSUME NEW i \in 1..l PROVE part[i] = lines[i]
    <3>1. lo + i - 1 = n + i /\ n + i \in (n + 1)..(n + l)
      BY <1>2, <1>4
    <3>2. part[i] = all[n + i]
      BY <1>5, <1>6, <3>1
    <3>3. all[n + i] = <<f, n + i>>
      BY <1>3, <3>1
    <3>4. lines[i] = <<f, n + i>>
      BY DEF l
    <3> QED
      BY <3>2, <3>3, <3>4
  <2> QED
    BY <2>1
<1>9. part = lines
  BY <1>5, <1>7, <1>8, SeqEqual DEF l
<1> QED
  BY <1>4, <1>9 DEF part, l

\* A part of a load is stored behind the others.
LEMMA LoadStores ==
  ASSUME IInv, Execute, DoLoad
  PROVE  (\E c \in Clients : Promised!Store(c)) \/ UNCHANGED Promised!vars
<1>1. PICK c \in Clients :
          /\ c = c0 /\ queue # <<>> /\ Served(c) /\ ClientSound(c)
          /\ sstate = "execute" /\ sstate' = "sendHeader" /\ up[c] = <<>>
          /\ UNCHANGED <<cstate, cmd, hdr, sent, msg, screen, typed, up, down, queue>>
          /\ UNCHANGED <<query, running>>
          /\ query \in Messages /\ cmd[c] \in Commands \cup {NoCmd}
          /\ \/ cstate[c] = "gone" /\ query = NoMsg
             \/ query = msg[c] /\ cmd[c] # NoCmd
          /\ CommandSound(c)' /\ Turns(c)' /\ OneWay(c)'
          /\ ~Pending(c)'
  BY ExecuteFacts
<1> DEFINE f == cmd[c].file
           n == Lines[f]
           lines == IF query.lines = <<>> THEN <<Junk>> ELSE query.lines
<1>2. query.op = "load"
  BY DEF DoLoad
<1>3. query = msg[c] /\ query # NoMsg /\ cmd[c].op = "load" /\ cmd[c] # NoCmd
  BY <1>1, <1>2, NoMsgTyped DEF ClientSound, CommandSound
<1>4. PartSound(c) /\ LoadSound(c) /\ Pending(c)
  BY <1>1, <1>3 DEF ClientSound, LoadSound, Pending
<1>5. /\ f \in Files /\ n \in Nat /\ query.hdr = hdr[c]
      /\ sent[c] \in Nat /\ sent[c] <= n
      /\ query.lines \in Seq(Line) /\ Len(query.lines) \in Nat /\ Len(query.lines) <= sent[c]
      /\ n # 0 => query.lines # <<>>
      /\ \A k \in 1..Len(query.lines) :
             query.lines[k] = <<f, sent[c] - Len(query.lines) + k>>
  <2>1. f \in Files /\ sent[c] \in Nat /\ query.lines \in Seq(Line)
    BY <1>1, <1>4 DEF PartSound, IInv, Types, Messages
  <2> QED
    BY <1>3, <1>4, <2>1, LenProperties, ProtocolAssumption DEF PartSound
<1>6. CASE hdr[c] \in Known
  <2>1. /\ table' = table \o lines
        /\ stored' = [stored EXCEPT ![c] = @ + Len(lines)]
    BY <1>1, <1>5, <1>6 DEF DoLoad
  <2>2. /\ Ordered[c] # NoOrder
        /\ Ordered[c].adds = ToStore(c)
    <3>1. OrderOf(c) # NoOrder
      BY <1>3, Waiting
    <3> QED
      BY <1>3, <3>1 DEF Ordered, OrderOf
  <2>3. stored \in [Clients -> Nat] /\ stored[c] = sent[c] - Len(query.lines)
    BY <1>4, <1>6, <1>3 DEF LoadSound, IInv, Types
  <2>4. /\ Len(lines) \in Nat
        /\ stored[c] + Len(lines) <= Len(ToStore(c))
        /\ SubSeq(ToStore(c), stored[c] + 1, stored[c] + Len(lines)) = lines
    <3>1. Len(ToStore(c)) = IF n = 0 THEN 1 ELSE n
      BY <1>3, <1>5, <1>6, ToStoreLength
    <3>2. CASE n = 0
      <4>1. sent[c] = 0 /\ Len(query.lines) = 0 /\ stored[c] = 0
        BY <1>5, <2>3, <3>2
      <4>2. lines = <<Junk>> /\ ToStore(c) = <<Junk>> /\ Len(<<Junk>>) = 1
        BY <1>3, <1>5, <1>6, <3>2, <4>1, EmptySeq DEF ToStore
      <4>3. SubSeq(<<Junk>>, 1, Len(<<Junk>>)) = <<Junk>>
        <5>1. <<Junk>> \in Seq(Stored)
          BY DEF Stored
        <5> QED
          BY <5>1, SubSeqFull
      <4>4. 0 + 1 = 1 /\ 1 <= 1
        OBVIOUS
      <4> QED
        BY <4>1, <4>2, <4>3, <4>4
    <3>3. CASE n # 0
      <4>1. lines = query.lines /\ ToStore(c) = [k \in 1..n |-> <<f, k>>]
        BY <1>3, <1>5, <1>6, <3>3 DEF ToStore
      <4>2. PICK b \in Nat : b = stored[c]
        BY <2>3
      <4>3. b + Len(query.lines) = sent[c] /\ b = sent[c] - Len(query.lines)
        BY <1>5, <2>3, <4>2
      <4>4. PICK g \in Files : g = f
        BY <1>5
      <4>5. PICK l : l = query.lines
        OBVIOUS
      <4>6. PICK all : all = ToStore(c)
        OBVIOUS
      <4>7. /\ l \in Seq(Line) /\ b + Len(l) <= Lines[g]
            /\ \A k \in 1..Len(l) : l[k] = <<g, b + k>>
            /\ all = [k \in 1..Lines[g] |-> <<g, k>>]
        BY <1>5, <4>1, <4>3, <4>4, <4>5, <4>6
      <4>8. SubSeq(all, b + 1, b + Len(l)) = l
        BY <4>7, NextLines
      <4> QED
        BY <1>5, <3>1, <3>3, <4>1, <4>2, <4>3, <4>5, <4>6, <4>8
    <3> QED
      BY <3>2, <3>3
  <2> HIDE DEF lines
  <2>5. PICK m \in Nat : m = stored[c] + Len(lines)
    BY <2>3, <2>4
  <2>6. m \in stored[c]..Len(Ordered[c].adds)
    <3>1. Len(ToStore(c)) \in Nat
      <4>1. Len(ToStore(c)) = IF n = 0 THEN 1 ELSE n
        BY <1>3, <1>5, <1>6, ToStoreLength
      <4> QED
        BY <1>5, <4>1
    <3> QED
      BY <2>2, <2>3, <2>4, <2>5, <3>1
  <2>7. /\ table' = table \o SubSeq(Ordered[c].adds, stored[c] + 1, m)
        /\ stored' = [stored EXCEPT ![c] = m]
    BY <2>1, <2>2, <2>4, <2>5
  <2>8. UNCHANGED <<Connected, Ordered, screen>>
    BY <1>1, OrdersKept DEF Connected
  <2>9. Promised!Store(c)
    BY <2>2, <2>6, <2>7, <2>8 DEF Promised!Store
  <2> QED
    BY <2>9
<1>7. CASE hdr[c] \notin Known
  <2>1. UNCHANGED <<table, stored>>
    BY <1>5, <1>7 DEF DoLoad
  <2>2. \A d \in Clients : Alive(d)' <=> Alive(d)
    BY <1>1 DEF Alive
  <2>3. UNCHANGED Promised!vars
    BY <1>1, <2>1, <2>2, Unseen
  <2> QED
    BY <2>3
<1> QED
  BY <1>6, <1>7

\* The server does what nobody sees, except for loads.
LEMMA ServerUnseen ==
  ASSUME IInv, ServerRuns
  PROVE  (\E c \in Clients : Promised!Store(c)) \/ UNCHANGED Promised!vars
<1>1. UNCHANGED <<cstate, cmd, hdr, screen>>
  BY DEF ServerRuns, Accept, RecvHeader, RecvPayload, Execute, ReplyHeader, ReplyPayload,
         ReplyNothing, user
<1>2. \A c \in Clients : Alive(c)' <=> Alive(c)
  BY <1>1 DEF Alive
<1>3. CASE Execute /\ DoLoad
  BY <1>3, LoadStores
<1>4. CASE UNCHANGED <<table, stored>>
  BY <1>1, <1>2, <1>4, Unseen
<1>5. Execute \/ UNCHANGED <<table, stored>>
  BY DEF ServerRuns, Accept, RecvHeader, RecvPayload, ReplyHeader, ReplyPayload,
         ReplyNothing, Dies, server
<1>6. Execute => DoLoad \/ UNCHANGED <<table, stored>>
  BY DEF Execute, DoPrint, DoOther
<1> QED
  BY <1>3, <1>4, <1>5, <1>6

\* Every step is one of Service, or changes nothing that Service speaks of.
LEMMA StepPromised ==
  ASSUME IInv, RInv, [Next]_vars
  PROVE  [Promised!Next]_(Promised!vars)
<1>1. CASE UNCHANGED vars
  <2>1. UNCHANGED <<cstate, cmd, hdr, screen, table, stored>>
    BY <1>1 DEF vars, user, server
  <2>2. \A c \in Clients : Alive(c)' <=> Alive(c)
    BY <2>1 DEF Alive
  <2> QED
    BY <2>1, <2>2, Unseen
<1>2. CASE ServerRuns
  BY <1>2, ServerUnseen DEF Promised!Next
<1>3. ASSUME NEW c \in Clients, Connect(c) PROVE Promised!Next
  BY <1>3, ConnectJoins DEF Promised!Next
<1>4. ASSUME NEW c \in Clients, Type(c) PROVE Promised!Next
  BY <1>4, TypeAsks DEF Promised!Next
<1>5. ASSUME NEW c \in Clients, AwaitHeader(c) \/ AwaitPayload(c) PROVE Promised!Next
  BY <1>5, ReadShown DEF Promised!Next
<1>6. ASSUME NEW c \in Clients, SendHeader(c) \/ SendPayload(c)
      PROVE  Promised!Next \/ UNCHANGED Promised!vars
  BY <1>6, SendUnseen DEF Promised!Next
<1>7. ASSUME NEW c \in Clients, ServerLost(c) \/ Leave(c) PROVE Promised!Next
  <2>1. Alive(c) /\ Go(c, "gone") /\ UNCHANGED <<cmd, hdr, screen, table, stored>>
    BY <1>7 DEF ServerLost, Leave, Alive, server
  <2>2. Promised!Quit(c)
    BY <2>1, GoneQuits
  <2> QED
    BY <2>2 DEF Promised!Next
<1> QED
  BY <1>1, <1>2, <1>3, <1>4, <1>5, <1>6, <1>7 DEF Next, ClientRuns

\* Nobody is connected.
LEMMA InitPromised == Init => Promised!Init
<1> SUFFICES ASSUME Init PROVE Promised!Init
  OBVIOUS
<1>1. Connected = {}
  BY DEF Init, Connected
<1>2. Ordered = [c \in Clients |-> NoOrder]
  BY DEF Init, Ordered, OrderOf
<1> QED
  BY <1>1, <1>2 DEF Init, Promised!Init

\* send_receive and handle_client carry out every command once and completely,
\* however many messages that takes: the rows of a print appear once and in
\* order, the lines of a load are stored once and in order, and the client has
\* its prompt again when all was done.
THEOREM Implements == Spec => ImplementsService
<1>1. Init => Promised!Init
  BY InitPromised
<1>2. IInv /\ RInv /\ [Next]_vars => [Promised!Next]_(Promised!vars)
  BY StepPromised
<1> QED
  BY <1>1, <1>2, Invariance, RowsInOrder, PTL DEF Spec, ImplementsService, Promised!Spec
===============================================================================
