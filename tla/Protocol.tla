------------------------------- MODULE Protocol -------------------------------
(***************************************************************************)
(* Client and server on a socket.  Each message is a header and a payload, *)
(* of which nothing arrives if its length is zero.  A client sends one and *)
(* waits; the server answers with one, or, for a print of many rows, with  *)
(* several, each of which says whether another follows.  A load is several *)
(* commands of the client, each with as many lines of the file as fit.     *)
(*                                                                         *)
(* The socket is the kernel's: it keeps each send whole and in order,      *)
(* holds Capacity of them in a direction, and when its other end is gone   *)
(* a send, of no byte even, kills the sender (SIGPIPE, or exit after       *)
(* EPIPE).                                                                 *)
(*                                                                         *)
(* Wording, tokens and bytes are left out: a length is 0 or 1, and what a  *)
(* chunk holds is counted in rows and lines.  One table stands for all.    *)
(***************************************************************************)
EXTENDS Listing, FiniteSets

CONSTANTS
    Clients,        \* client processes; each connects once
    Files,          \* files that can be opened
    Lines,          \* [Files -> Nat]: lines of data behind the header
    Headed,         \* files with a header; the others are empty
    Known,          \* files whose header names the table's columns
    NoFile,
    PrintVec,       \* PRINT_VEC_SIZE
    TextVec,        \* printed lines that fit a payload, at most
    LoadVec,        \* lines of a file that fit a command, at most
    Capacity,       \* sends the socket holds
    MaxCommands     \* bound on the commands of a client

ASSUME ProtocolAssumption ==
    /\ Lines \in [Files -> Nat]
    /\ Headed \subseteq Files /\ Known \subseteq Headed
    /\ \A f \in Files \ Headed : Lines[f] = 0
    /\ NoFile \notin Files
    /\ {PrintVec, TextVec, LoadVec, Capacity, MaxCommands} \subseteq Nat \ {0}

VARIABLES
    cstate,     \* where main and send_receive of the client are
    cmd,        \* the command the user typed
    hdr,        \* hdr_info: the file whose header was read last
    sent,       \* lines of the file that are in messages so far
    msg,        \* send_message
    screen,     \* rows printed for the command
    typed,      \* number of commands
    up, down,   \* the socket, to the server and to the client
    queue,      \* connected clients; the first is served, others wait in listen
    sstate,     \* where main and handle_client of the server are
    query,      \* the command being served
    reply,      \* send_message of the server and the code of its last payload
    cursor,     \* num_rows and start of db_print_one and of db_print
    running,    \* is_server_running
    table,      \* lines in the column
    indexed,    \* lines its index was built from
    stored      \* history: lines the load of each client has stored

user == <<cstate, cmd, hdr, sent, msg, screen, typed>>
server == <<query, reply, cursor, running, table, indexed, stored>>
vars == <<user, up, down, queue, sstate, server>>

-------------------------------------------------------------------------------
(* Commands and messages.                                                  *)

Command(op, objs, f) == [op |-> op, objs |-> objs, file |-> f]

\* print of one operand, or of several results (print_value would read a column
\* as a scalar); load of a file;
\* shutdown; a command answered by a text ("run"), and one answered by a
\* header alone ("none": a comment, a batched select, a wrong command).
Commands ==
    {Command("print", {x}, NoFile) : x \in Results \cup {Column}}
    \cup {Command("print", xs, NoFile) : xs \in {s \in SUBSET Results : Cardinality(s) > 1}}
    \cup {Command("load", {}, f) : f \in Files}
    \cup {Command(op, {}, NoFile) : op \in {"shutdown", "run", "none"}}
NoCmd == Command("prompt", {}, NoFile)

Message(op, objs, h, lines, end) ==
    [op |-> op, objs |-> objs, hdr |-> h, lines |-> lines, end |-> end]
NoMsg == Message("none", {}, NoFile, <<>>, FALSE)

Header(length) == [kind |-> "header", length |-> length]
Payload(what) == [kind |-> "payload", what |-> what]

\* An answer; more: its code is INCOMPLETE.
Reply(length, rows, more) == [length |-> length, rows |-> rows, more |-> more]
NoPayload == Reply(0, <<>>, FALSE)
Text == Reply(1, <<>>, FALSE)

Least(a, b) == IF a <= b THEN a ELSE b

-------------------------------------------------------------------------------
Init ==
    /\ cstate = [c \in Clients |-> "off"]
    /\ cmd = [c \in Clients |-> NoCmd]
    /\ hdr = [c \in Clients |-> NoFile]
    /\ sent = [c \in Clients |-> 0]
    /\ msg = [c \in Clients |-> NoMsg]
    /\ screen = [c \in Clients |-> <<>>]
    /\ typed = [c \in Clients |-> 0]
    /\ up = [c \in Clients |-> <<>>]
    /\ down = [c \in Clients |-> <<>>]
    /\ queue = <<>>
    /\ sstate = "accept"
    /\ query = NoMsg
    /\ reply = NoPayload
    /\ cursor = [f \in {"one", "many"} |-> [rows |-> 0, start |-> 0]]
    /\ running = TRUE
    /\ table = <<>>
    /\ indexed = 0
    /\ stored = [c \in Clients |-> 0]

-------------------------------------------------------------------------------
(* The client.                                                             *)

At(c, s) == cstate[c] = s
Go(c, s) == cstate' = [cstate EXCEPT ![c] = s]

Connect(c) ==
    /\ At(c, "off")
    /\ sstate # "down"
    /\ Go(c, "prompt")
    /\ queue' = Append(queue, c)
    /\ UNCHANGED <<cmd, hdr, sent, msg, screen, typed, up, down, sstate, server>>

\* Mistake: the line that did not fit is not read again.
DefectChunks(f, h, from) ==
    {[lines |-> n + 1,
      msg |-> Message("load", {}, h, [k \in 1..n |-> <<f, from + k>>], from + n + 1 >= Lines[f])]
        : n \in 1..Least(LoadVec, Lines[f] - from)}

\* load_file: the lines behind the first from ones; a line that does not fit
\* is left for the next message.
Chunks(f, h, from) ==
    {[lines |-> n,
      msg |-> Message("load", {}, h, [k \in 1..n |-> <<f, from + k>>], from + n = Lines[f])]
        : n \in IF from = Lines[f] THEN {0} ELSE 1..Least(LoadVec, Lines[f] - from)}

Compose(c, f, h, from) ==
    \E chunk \in Chunks(f, h, from) :
        /\ sent' = [sent EXCEPT ![c] = from + chunk.lines]
        /\ msg' = [msg EXCEPT ![c] = chunk.msg]

\* An empty file leaves the header of the file loaded before; without one
\* nothing is sent and the client is at its prompt again.
TypeLoad(c, f) ==
    LET h == IF f \in Headed THEN f ELSE hdr[c]
    IN  /\ h # NoFile
        /\ hdr' = [hdr EXCEPT ![c] = h]
        /\ Compose(c, f, h, 0)

\* A client gives no command after its shutdown.
Type(c) ==
    /\ At(c, "prompt")
    /\ typed[c] < MaxCommands
    /\ running \/ c # Head(queue)
    /\ \E k \in Commands :
           /\ cmd' = [cmd EXCEPT ![c] = k]
           /\ IF k.op = "load" THEN TypeLoad(c, k.file)
              ELSE /\ msg' = [msg EXCEPT ![c] = Message(k.op, k.objs, NoFile, <<>>, FALSE)]
                   /\ UNCHANGED <<hdr, sent>>
    /\ typed' = [typed EXCEPT ![c] = @ + 1]
    /\ screen' = [screen EXCEPT ![c] = <<>>]
    /\ stored' = [stored EXCEPT ![c] = 0]
    /\ Go(c, "sendHeader")
    /\ UNCHANGED <<up, down, queue, sstate, query, reply, cursor, running, table, indexed>>

\* Both sends of send_receive.
Send(c, from, item, to) ==
    /\ At(c, from)
    /\ IF sstate = "down" THEN Go(c, "gone") /\ UNCHANGED up
       ELSE /\ Len(up[c]) < Capacity
            /\ up' = [up EXCEPT ![c] = Append(@, item)]
            /\ Go(c, to)
    /\ UNCHANGED <<cmd, hdr, sent, msg, screen, typed, down, queue, sstate, server>>

SendHeader(c) == Send(c, "sendHeader", Header(1), "sendPayload")
SendPayload(c) == Send(c, "sendPayload", Payload(msg[c]), "awaitHeader")

\* send_receive returns: the prompt again, or the next part of a load.
Return(c) ==
    IF cmd[c].op = "load" /\ ~msg[c].end
    THEN /\ Compose(c, cmd[c].file, hdr[c], sent[c])
         /\ Go(c, "sendHeader")
         /\ UNCHANGED cmd
    ELSE /\ Go(c, "prompt")
         /\ cmd' = [cmd EXCEPT ![c] = NoCmd]
         /\ UNCHANGED <<sent, msg>>

AwaitHeader(c) ==
    /\ At(c, "awaitHeader")
    /\ down[c] # <<>>
    /\ down' = [down EXCEPT ![c] = Tail(@)]
    /\ IF Head(down[c]).length > 0
       THEN Go(c, "awaitPayload") /\ UNCHANGED <<cmd, sent, msg>>
       ELSE Return(c)
    /\ UNCHANGED <<hdr, screen, typed, up, queue, sstate, server>>

\* Mistake: a chunk that says more follows is taken for the last.
DefectContinues(answer) == FALSE

\* Mistake: the client waits for another chunk after the last.
DefectContinuesAlways(answer) == TRUE

\* bcontinue, from process_payload or from the text.
Continues(answer) == answer.more

AwaitPayload(c) ==
    /\ At(c, "awaitPayload")
    /\ down[c] # <<>>
    /\ down' = [down EXCEPT ![c] = Tail(@)]
    /\ LET answer == Head(down[c]).what
       IN  /\ screen' = [screen EXCEPT ![c] = @ \o answer.rows]
           /\ IF Continues(answer)
              THEN Go(c, "awaitHeader") /\ UNCHANGED <<cmd, sent, msg>>
              ELSE Return(c)
    /\ UNCHANGED <<hdr, typed, up, queue, sstate, server>>

\* recv returns 0 or an error: the client exits.
ServerLost(c) ==
    /\ cstate[c] \in {"awaitHeader", "awaitPayload"}
    /\ sstate = "down"
    /\ down[c] = <<>>
    /\ Go(c, "gone")
    /\ UNCHANGED <<cmd, hdr, sent, msg, screen, typed, up, down, queue, sstate, server>>

\* The end of the input at the prompt; or the process is killed, anywhere.
Leave(c) ==
    /\ cstate[c] \notin {"off", "gone"}
    /\ Go(c, "gone")
    /\ UNCHANGED <<cmd, hdr, sent, msg, screen, typed, up, down, queue, sstate, server>>

-------------------------------------------------------------------------------
(* The server: main and handle_client.                                     *)

c0 == Head(queue)
Hung == cstate[c0] = "gone"

\* The process ends and all it did not write to disk is lost.
Dies == sstate' = "down" /\ UNCHANGED <<down, queue, server>>

Accept ==
    /\ sstate = "accept"
    /\ queue # <<>>
    /\ sstate' = "recvHeader"
    /\ UNCHANGED <<user, up, down, queue, server>>

\* recv returns what the client sent before it left, then 0; but an error if
\* the client left unread answers behind.
RecvHeader ==
    /\ sstate = "recvHeader"
    /\ IF up[c0] # <<>>
       THEN /\ up' = [up EXCEPT ![c0] = Tail(@)]
            /\ sstate' = "recvPayload"
            /\ UNCHANGED <<down, queue, server>>
       ELSE /\ Hung
            /\ UNCHANGED up
            /\ IF down[c0] # <<>> THEN Dies
               ELSE /\ queue' = Tail(queue)
                    /\ sstate' = IF running THEN "accept" ELSE "down"
                    /\ UNCHANGED <<down, server>>
    /\ UNCHANGED user

\* Without a payload the buffer is parsed as it is.  Whatever command that
\* makes, its answer cannot be sent, and what it did is lost.
RecvPayload ==
    /\ sstate = "recvPayload"
    /\ IF up[c0] # <<>>
       THEN /\ up' = [up EXCEPT ![c0] = Tail(@)]
            /\ query' = Head(up[c0]).what
       ELSE /\ Hung
            /\ query' = NoMsg
            /\ UNCHANGED up
    /\ sstate' = "execute"
    /\ UNCHANGED <<user, down, queue, reply, cursor, running, table, indexed, stored>>

-------------------------------------------------------------------------------
(* The commands.                                                           *)

\* The end of a print puts the cursor back for the next one.
Moved(f, rows, limit) ==
    [cursor EXCEPT ![f] = [rows |-> rows, start |-> IF limit = rows THEN 0 ELSE limit]]

\* Mistake: the last chunk is taken to be full.
DefectLimits(f, start, rows) ==
    IF f = "one" THEN {start + PrintVec}
    ELSE (start + 1)..Least(start + TextVec, rows)

\* Where a chunk may end: rows of one operand are of one size, lines of text
\* are not.
Limits(f, start, rows) ==
    IF f = "one" THEN {Least(start + PrintVec, rows)}
    ELSE (start + 1)..Least(start + TextVec, rows)

\* One call of db_print_one (f = "one") or db_print ("many"): what the static
\* cursors say is taken up, unless start is 0.
PrintRows(f, objs) ==
    LET start == cursor[f].start
        rows == IF start = 0 THEN NumRows(objs, table) ELSE cursor[f].rows
    IN  IF rows = 0
        THEN reply' = Text /\ cursor' = Moved(f, 0, 0)
        ELSE \E limit \in Limits(f, start, rows) :
                /\ reply' = Reply(1, Rows(objs, start, limit, table), limit # rows)
                /\ cursor' = Moved(f, rows, limit)

DoPrint ==
    /\ query.op = "print"
    /\ PrintRows(IF Cardinality(query.objs) = 1 THEN "one" ELSE "many", query.objs)
    /\ UNCHANGED <<table, indexed, stored>>

\* Mistake: the index is built from the first part of a load.
DefectReindexes(m) == indexed = 0

\* rstate = READ_END.
Reindexes(m) == m.end

\* db_load; without lines in the message the one empty token is taken for a
\* row: 0 in the first column, and in the others what malloc left.
DoLoad ==
    /\ query.op = "load"
    /\ IF query.hdr \in Known
       THEN LET lines == IF query.lines = <<>> THEN <<Junk>> ELSE query.lines
            IN  /\ table' = table \o lines
                /\ stored' = [stored EXCEPT ![c0] = @ + Len(lines)]
                /\ indexed' = IF Reindexes(query) THEN Len(table') ELSE indexed
                /\ reply' = Text
       ELSE reply' = NoPayload /\ UNCHANGED <<table, indexed, stored>>
    /\ UNCHANGED cursor

DoOther ==
    /\ query.op \in {"run", "shutdown", "none"}
    /\ reply' = IF query.op = "none" THEN NoPayload ELSE Text
    /\ UNCHANGED <<cursor, table, indexed, stored>>

Execute ==
    /\ sstate = "execute"
    /\ DoPrint \/ DoLoad \/ DoOther
    /\ sstate' = "sendHeader"
    /\ UNCHANGED <<user, up, down, queue, query, running>>

-------------------------------------------------------------------------------
\* The loop of handle_client: the next chunk, or the next command.
Answered ==
    IF reply.more THEN sstate' = "execute" /\ UNCHANGED <<query, running>>
    ELSE /\ sstate' = "recvHeader"
         /\ query' = NoMsg
         /\ running' = (running /\ query.op # "shutdown")

\* send_data.
ReplyHeader ==
    /\ sstate = "sendHeader"
    /\ IF Hung THEN Dies
       ELSE /\ Len(down[c0]) < Capacity
            /\ down' = [down EXCEPT ![c0] = Append(@, Header(reply.length))]
            /\ sstate' = IF reply.length > 0 THEN "sendPayload" ELSE "sendNothing"
            /\ UNCHANGED <<queue, server>>
    /\ UNCHANGED <<user, up>>

ReplyPayload ==
    /\ sstate = "sendPayload"
    /\ IF Hung THEN Dies
       ELSE /\ Len(down[c0]) < Capacity
            /\ down' = [down EXCEPT ![c0] = Append(@, Payload(reply))]
            /\ Answered
            /\ UNCHANGED <<queue, reply, cursor, table, indexed, stored>>
    /\ UNCHANGED <<user, up>>

\* A payload of no bytes: the client has the answer already, may give the next
\* command, and may have left, which the send notices.
ReplyNothing ==
    /\ sstate = "sendNothing"
    /\ IF Hung THEN Dies
       ELSE /\ Answered
            /\ UNCHANGED <<down, queue, reply, cursor, table, indexed, stored>>
    /\ UNCHANGED <<user, up>>

-------------------------------------------------------------------------------
ClientRuns(c) ==
    SendHeader(c) \/ SendPayload(c) \/ AwaitHeader(c) \/ AwaitPayload(c) \/ ServerLost(c)

ServerRuns ==
    \/ Accept \/ RecvHeader \/ RecvPayload \/ Execute
    \/ ReplyHeader \/ ReplyPayload \/ ReplyNothing

Next ==
    \/ ServerRuns
    \/ \E c \in Clients : Connect(c) \/ Type(c) \/ ClientRuns(c) \/ Leave(c)

Spec == Init /\ [][Next]_vars

\* Both processes are run by the operating system.  Nobody has to type,
\* connect or leave.
FairSpec == Spec /\ WF_vars(ServerRuns) /\ \A c \in Clients : WF_vars(ClientRuns(c))

-------------------------------------------------------------------------------
(* Properties.                                                             *)

ClientStates == {"off", "prompt", "sendHeader", "sendPayload",
                 "awaitHeader", "awaitPayload", "gone"}
ServerStates == {"accept", "recvHeader", "recvPayload", "execute",
                 "sendHeader", "sendPayload", "sendNothing", "down"}

\* The server's answer is in the socket; it waits for the client, at the latest
\* after a send of nothing.
AnswerSent == sstate \in {"recvHeader", "sendNothing"}

Served(c) == queue # <<>> /\ c = c0 /\ sstate \notin {"accept", "down"}

\* Every variable keeps its type, and the socket its capacity.
TypeOK ==
    /\ cstate \in [Clients -> ClientStates]
    /\ cmd \in [Clients -> Commands \cup {NoCmd}]
    /\ hdr \in [Clients -> Headed \cup {NoFile}]
    /\ sent \in [Clients -> Nat]
    /\ typed \in [Clients -> 0..MaxCommands]
    /\ \A c \in Clients : Len(up[c]) <= Capacity /\ Len(down[c]) <= Capacity
    /\ sstate \in ServerStates
    /\ queue \in Seq(Clients)
    /\ sstate \notin {"accept", "down"} => queue # <<>>
    /\ \A f \in {"one", "many"} : cursor[f].start \in 0..cursor[f].rows
    /\ running \in BOOLEAN
    /\ indexed \in 0..Len(table)

\* Client and server take turns: a client that may type has read every answer
\* and the server has nothing more to say; nothing is ever under way in both
\* directions; and a print leaves no cursor behind for the next one.
Lockstep ==
    /\ \A c \in Clients :
           /\ cstate[c] \in {"off", "prompt", "sendHeader"} =>
                  /\ up[c] = <<>> /\ down[c] = <<>>
                  /\ Served(c) => AnswerSent
           /\ up[c] = <<>> \/ down[c] = <<>>
    /\ sstate \in {"accept", "recvHeader", "recvPayload", "sendNothing"} =>
           \A f \in {"one", "many"} : cursor[f].start = 0

\* The lines a load will store, and what a command comes to.
ToStore(c) ==
    IF cmd[c].op # "load" \/ hdr[c] \notin Known THEN <<>>
    ELSE IF Lines[cmd[c].file] = 0 THEN <<Junk>>
    ELSE [k \in 1..Lines[cmd[c].file] |-> <<cmd[c].file, k>>]

\* The index of the column covers all its lines, unless a load is under way
\* or its client was lost between two parts.
IndexCurrent ==
    indexed # Len(table) =>
        \E c \in Clients : 0 < stored[c] /\ stored[c] < Len(ToStore(c))


\* Every command of the client that is served is answered.
EveryCommandAnswered ==
    \A c \in Clients :
        Served(c) /\ cstate[c] # "prompt" ~> cstate[c] \in {"prompt", "gone"}

NoOrder == [prints |-> {Junk}, adds |-> <<>>]
OrderOf(c) == IF cmd[c] = NoCmd THEN NoOrder
              ELSE [prints |-> cmd[c].objs, adds |-> ToStore(c)]
Connected == {c \in Clients : cstate[c] \notin {"off", "gone"}}
Ordered == [c \in Clients |-> OrderOf(c)]
Askable == {[prints |-> k.objs, adds |-> s] : k \in Commands,
               s \in {<<>>, <<Junk>>} \cup {[j \in 1..Lines[f] |-> <<f, j>>] : f \in Files}}

\* Chunks and parts do not show: a command is carried out once and completely.
Promised == INSTANCE Service WITH
    present <- Connected, order <- Ordered, shown <- screen, Orders <- Askable
ImplementsService == Promised!Spec
===============================================================================
