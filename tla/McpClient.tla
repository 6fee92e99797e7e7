------------------------------ MODULE McpClient ------------------------------
(***************************************************************************)
(* The MCP client (src/src/core/mcp/mcp_client.cpp): one server process,   *)
(* spoken to with lines on two pipes, and the threads that use it.  Main   *)
(* connects (initialize, initialized, tools/list) and disconnects; the     *)
(* Callers call its tools, one request at a time under mutex_.             *)
(*                                                                         *)
(* A line is its kind and the id it carries.  The pipes are bounded.  What *)
(* read() returns is a run of whole lines: the rest of an incomplete line  *)
(* stays in stdout_buf_, as if it had not been read, and counts only when  *)
(* it passes kMaxLineBytes.  The server is not ours: it reads, answers, is *)
(* late, talks out of turn, prints what is not JSON-RPC, stops reading,    *)
(* closes its stdout, never ends a line or exits as it likes.              *)
(***************************************************************************)
EXTENDS Naturals, Sequences, FiniteSets

CONSTANTS
    Callers,    \* threads and graph branches that call the server's tools
    Main,       \* the thread that connects and disconnects
    None,       \* no thread, no line
    Capacity,   \* lines that the server's stdin holds
    Backlog,    \* lines that its stdout holds
    MaxId,      \* bound: requests made over one connection
    MaxPages,   \* kMaxListPages
    Cursors,    \* the cursors a server may return from tools/list
    Chatter,    \* kinds of the lines the server sends besides answers
    Racing      \* disconnect may find a call that waits for mutex_

ASSUME ConstantsOK ==
    /\ Main \notin Callers
    /\ None \notin Callers \cup {Main} \cup Cursors
    /\ {Capacity, Backlog} \subseteq Nat \ {0} /\ MaxPages \in Nat \ {0}
    /\ MaxId \in Nat /\ MaxId > MaxPages + 1
    /\ Chatter \subseteq {"ping", "note", "noise", "invalid"}
    /\ Racing \in BOOLEAN

VARIABLES
    \* the connection (McpServer)
    object,     \* the McpServer exists
    mutex,      \* holder of mutex_
    process,    \* process_ is set
    dead,       \* dead_
    nextId,     \* next_id_
    buf,        \* stdout_buf_
    doc,        \* what parser_ parsed last
    reader,     \* the stderr thread: "none", "running" or "done"
    stop,       \* stop_
    \* the request being made under mutex_
    method,     \* "initialize", "list" or "call"
    reqId,      \* its id
    sending,    \* the line being written
    late,       \* its deadline has passed
    \* the threads
    pc,
    advertised, \* start: the server said that it has tools
    page,       \* list_tools: pages got so far
    seen,       \* list_tools: seen_cursors
    registered, \* the tools are in the session
    \* the server process and the pipes
    running, toServer, fromServer,
    stdout,     \* its stdout: "open", "closed" or "endless"
    working,    \* requests the server has read and not answered
    \* history
    stuck       \* a write gave up: the server may have got half a line

request_ == <<method, reqId, sending, late>>
setup == <<advertised, page, seen>>
server == <<running, toServer, fromServer, stdout, working>>
vars == <<object, mutex, process, dead, nextId, buf, doc, reader, stop, request_, pc, setup,
          registered, server, stuck>>

Threads == Callers \cup {Main}
Line(kind, n) == [kind |-> kind, id |-> n]
Lines(kinds) == [kind : kinds, id : Nat]
ClientLines == Lines({"request", "cancelled", "answer", "initialized"})
ServerLines == Lines({"result", "error", "ping", "note", "noise", "invalid"})

ASSUME NoneIsNoLine == None \notin ClientLines \cup ServerLines


Places == {"off", "on", "idle", "lock", "send", "wait", "map", "list", "register", "shutdown",
           "terminate", "join", "erase"}

Init ==
    /\ object = FALSE /\ mutex = None /\ process = FALSE /\ dead = FALSE /\ nextId = 1
    /\ buf = << >> /\ doc = None /\ reader = "none" /\ stop = FALSE
    /\ method = "initialize" /\ reqId = 0 /\ sending = None /\ late = FALSE
    /\ pc = [t \in Threads |-> IF t = Main THEN "off" ELSE "idle"]
    /\ advertised = TRUE /\ page = 0 /\ seen = {} /\ registered = FALSE
    /\ running = FALSE /\ toServer = << >> /\ fromServer = << >> /\ working = {}
    /\ stdout = "open" /\ stuck = FALSE

Goto(t, where) == pc' = [pc EXCEPT ![t] = where]

-----------------------------------------------------------------------------
(* request, notify, answer_server_request *)

\* Mutant: a start that fails leaves the server to itself.
GivesUp(t) ==
    /\ Goto(t, IF t = Main THEN "off" ELSE "idle")
    /\ mutex' = None

\* request fails, and mutex_ is released: call_tool returns the error; start
\* returns it, and with it goes the McpServer.
Fails(t) ==
    /\ Goto(t, IF t = Main THEN "shutdown" ELSE "idle")
    /\ mutex' = None

Send(t, line) == sending' = line /\ Goto(t, "send")

\* Mutant: request does not look at dead_.
RequestAnyway(t, what) ==
    /\ method' = what
    /\ reqId' = nextId
    /\ nextId' = nextId + 1
    /\ Send(t, Line("request", nextId))
    /\ mutex' = t
    /\ UNCHANGED late

\* request up to send_line, by t, which has mutex_ from here on.
request(t, what) ==
    IF dead THEN Fails(t) /\ UNCHANGED <<request_, nextId>>
    ELSE /\ method' = what
         /\ reqId' = nextId
         /\ nextId' = nextId + 1
         /\ Send(t, Line("request", nextId))
         /\ mutex' = t
         /\ UNCHANGED late

\* write_stdin has written the line.  An answer is waited for, a request's with
\* a fresh deadline; notifications/cancelled ends the request.
LineSent(t) ==
    /\ pc[t] = "send"
    /\ running /\ Len(toServer) < Capacity
    /\ toServer' = Append(toServer, sending)
    /\ sending' = None
    /\ late' = (late /\ sending.kind # "request")
    /\ CASE sending.kind \in {"request", "answer"} -> Goto(t, "wait") /\ UNCHANGED mutex
         [] sending.kind = "initialized" -> Goto(t, "list") /\ UNCHANGED mutex
         [] sending.kind = "cancelled" -> Fails(t)
    /\ UNCHANGED <<object, process, dead, nextId, buf, doc, reader, stop, method, reqId, setup,
                   registered, running, fromServer, stdout, working, stuck>>

\* Room in the pipe was waited for 30 seconds.
GaveUp == running /\ Len(toServer) = Capacity

\* write_stdin fails, and the connection is dead.  Of an answer to the server
\* and of notifications/cancelled the result is ignored.
LineNotSent(t) ==
    /\ pc[t] = "send"
    /\ ~running \/ GaveUp
    /\ dead' = TRUE
    /\ stuck' = (stuck \/ running)
    /\ sending' = None
    /\ IF sending.kind = "answer" THEN Goto(t, "wait") /\ UNCHANGED mutex ELSE Fails(t)
    /\ UNCHANGED <<object, process, nextId, buf, doc, reader, stop, method, reqId, late, setup,
                   registered, server>>

-----------------------------------------------------------------------------
(* request: the wait for the answer *)

Waits(t) == pc[t] = "wait" /\ buf = << >>

ReadData(t, n) ==
    /\ Waits(t) /\ ~late
    /\ n \in 1 .. Len(fromServer)
    /\ buf' = SubSeq(fromServer, 1, n)
    /\ fromServer' = SubSeq(fromServer, n + 1, Len(fromServer))
    /\ UNCHANGED <<object, mutex, process, dead, nextId, doc, reader, stop, request_, pc, setup,
                   registered, running, toServer, stdout, working, stuck>>

\* PipeRead::Closed or PipeRead::Error: nothing is left to read and nothing comes.
Closed == (~running \/ stdout = "closed") /\ fromServer = << >>

mark_dead(t) ==
    /\ dead' = TRUE
    /\ Fails(t)
    /\ UNCHANGED <<object, process, nextId, buf, doc, reader, stop, request_, setup, registered,
                   server, stuck>>

ReadClosed(t) ==
    /\ Waits(t) /\ ~late
    /\ Closed
    /\ mark_dead(t)

\* What is left in stdout_buf_ is longer than kMaxLineBytes and still no line.
LineTooLong(t) ==
    /\ Waits(t)
    /\ stdout = "endless" /\ fromServer = << >>
    /\ mark_dead(t)

\* The clock reaches the deadline of the request, which is set once it is sent.
DeadlinePasses ==
    /\ \E t \in Threads : pc[t] = "wait" \/ (pc[t] = "send" /\ sending.kind = "answer")
    /\ ~late
    /\ late' = TRUE
    /\ UNCHANGED <<object, mutex, process, dead, nextId, buf, doc, reader, stop, method, reqId,
                   sending, pc, setup, registered, server, stuck>>

TimesOut(t) ==
    /\ Waits(t) /\ late
    /\ Send(t, Line("cancelled", reqId))
    /\ UNCHANGED <<object, mutex, process, dead, nextId, buf, doc, reader, stop, method, reqId,
                   late, setup, registered, server, stuck>>

\* A JSON-RPC error: start goes on without the handshake, and without tools when
\* it was not told of any; everything else fails.
RemoteError(t) ==
    \/ /\ t = Main /\ method = "initialize"
       /\ Goto(t, "list") /\ UNCHANGED mutex
    \/ /\ t = Main /\ method = "list" /\ ~advertised /\ page = 0
       /\ Goto(t, "register") /\ mutex' = None
    \/ /\ t = Main => method = "list" /\ (advertised \/ page > 0)
       /\ Fails(t)

\* Mutant: the next reply is taken for the answer.
AnyReply(line) == line.kind \in {"result", "error"}

\* A reply with another id is stale: its request has timed out.
OwnReply(line) == line.kind \in {"result", "error"} /\ line.id = reqId

ProcessLine(t) ==
    LET line == Head(buf) IN
    /\ pc[t] = "wait" /\ buf # << >>
    /\ buf' = Tail(buf)
    /\ doc' = IF line.kind = "noise" THEN doc ELSE line
    /\ CASE line.kind = "ping" -> Send(t, Line("answer", line.id)) /\ UNCHANGED mutex
         [] line.kind = "invalid" -> Fails(t) /\ UNCHANGED sending
         [] OwnReply(line) /\ line.kind = "error" -> RemoteError(t) /\ UNCHANGED sending
         [] OwnReply(line) /\ line.kind = "result" -> Goto(t, "map") /\ UNCHANGED <<sending, mutex>>
         [] OTHER -> UNCHANGED <<pc, sending, mutex>>
    /\ UNCHANGED <<object, process, dead, nextId, reader, stop, method, reqId, late, setup,
                   registered, server, stuck>>

-----------------------------------------------------------------------------
(* connect_mcp_server *)

\* The server is spawned and initialize sent; a spawn that fails leaves nothing.
start ==
    /\ pc[Main] = "off"
    /\ object' = TRUE /\ process' = TRUE /\ reader' = "running"
    /\ running' = TRUE
    /\ request(Main, "initialize")
    /\ UNCHANGED <<dead, buf, doc, stop, setup, registered, toServer, fromServer, stdout, working,
                   stuck>>

Initialized ==
    /\ pc[Main] = "map" /\ method = "initialize"
    /\ advertised' \in BOOLEAN
    /\ Send(Main, Line("initialized", 0))
    /\ UNCHANGED <<object, mutex, process, dead, nextId, buf, doc, reader, stop, method, reqId,
                   late, page, seen, registered, server, stuck>>

\* The next tools/list, unless there were kMaxListPages.
list_tools ==
    /\ pc[Main] = "list"
    /\ IF page = MaxPages THEN Fails(Main) /\ UNCHANGED <<request_, nextId>>
       ELSE request(Main, "list")
    /\ UNCHANGED <<object, process, dead, buf, doc, reader, stop, setup, registered, server, stuck>>

\* A page of tools: the last one, one with a cursor to go on from, or one that
\* is malformed or repeats a cursor.
Listed(cursor) ==
    /\ pc[Main] = "map" /\ method = "list"
    /\ page' = page + 1
    /\ \/ cursor = None /\ Goto(Main, "register") /\ mutex' = None /\ UNCHANGED seen
       \/ /\ cursor \in Cursors \ seen
          /\ seen' = seen \cup {cursor}
          /\ Goto(Main, "list") /\ UNCHANGED mutex
       \/ cursor \in seen \cup {None} /\ Fails(Main) /\ UNCHANGED seen
    /\ UNCHANGED <<object, process, dead, nextId, buf, doc, reader, stop, request_, advertised,
                   registered, server, stuck>>

\* The tools go into the session, unless one of the names is taken.
Register ==
    /\ pc[Main] = "register"
    /\ \/ registered' = TRUE /\ Goto(Main, "on")
       \/ UNCHANGED registered /\ Goto(Main, "shutdown")
    /\ UNCHANGED <<object, mutex, process, dead, nextId, buf, doc, reader, stop, request_, setup,
                   server, stuck>>

-----------------------------------------------------------------------------
(* call_tool *)

\* A registered tool is called: the callback has the McpServer from here on.
remote_tool_callback(t) ==
    /\ pc[t] = "idle" /\ registered
    /\ nextId + Cardinality({c \in Callers : pc[c] = "lock"}) <= MaxId
    /\ Goto(t, "lock")
    /\ UNCHANGED <<object, mutex, process, dead, nextId, buf, doc, reader, stop, request_, setup,
                   registered, server, stuck>>

\* mutex_ is taken.  Bad arguments end the call at once.
call_tool(t) ==
    /\ pc[t] = "lock" /\ mutex = None
    /\ \/ process /\ request(t, "call")
       \/ Goto(t, "idle") /\ UNCHANGED <<mutex, request_, nextId>>
    /\ UNCHANGED <<object, process, dead, buf, doc, reader, stop, setup, registered, server, stuck>>

\* map_call_result reads the parsed answer.
map_call_result(t) ==
    /\ pc[t] = "map" /\ method = "call"
    /\ Goto(t, "idle")
    /\ mutex' = None
    /\ UNCHANGED <<object, process, dead, nextId, buf, doc, reader, stop, request_, setup,
                   registered, server, stuck>>

-----------------------------------------------------------------------------
(* disconnect_mcp_server and ~McpServer *)

disconnect_mcp_server ==
    /\ pc[Main] = "on"
    /\ Racing \/ \A t \in Callers : pc[t] # "lock"
    /\ registered' = FALSE
    /\ Goto(Main, "shutdown")
    /\ UNCHANGED <<object, mutex, process, dead, nextId, buf, doc, reader, stop, request_, setup,
                   server, stuck>>

\* shutdown has mutex_; terminate closes stdin and waits.
shutdown ==
    /\ pc[Main] = "shutdown" /\ mutex = None
    /\ mutex' = Main
    /\ Goto(Main, "terminate")
    /\ UNCHANGED <<object, process, dead, nextId, buf, doc, reader, stop, request_, setup,
                   registered, server, stuck>>

\* The server has exited, or SIGTERM or SIGKILL ended it; stop_ is set.
terminate ==
    /\ pc[Main] = "terminate"
    /\ running' = FALSE /\ working' = {} /\ toServer' = << >>
    /\ stop' = TRUE
    /\ Goto(Main, "join")
    /\ UNCHANGED <<object, mutex, process, dead, nextId, buf, doc, reader, request_, setup,
                   registered, fromServer, stdout, stuck>>

\* The stderr thread is joined and process_ released.
JoinReader ==
    /\ pc[Main] = "join" /\ reader = "done"
    /\ process' = FALSE /\ dead' = TRUE
    /\ mutex' = None
    /\ Goto(Main, "erase")
    /\ UNCHANGED <<object, nextId, buf, doc, reader, stop, request_, setup, registered, server, stuck>>

\* The last shared_ptr goes, and the McpServer with it; a call that waits for
\* its mutex_ does not come back from the freed memory.
Destroy ==
    /\ pc[Main] = "erase"
    /\ object' = FALSE /\ dead' = FALSE /\ nextId' = 1 /\ buf' = << >> /\ doc' = None
    /\ reader' = "none" /\ stop' = FALSE /\ stuck' = FALSE
    /\ method' = "initialize" /\ reqId' = 0 /\ sending' = None /\ late' = FALSE
    /\ advertised' = TRUE /\ page' = 0 /\ seen' = {}
    /\ fromServer' = << >> /\ stdout' = "open"
    /\ Goto(Main, "off")
    /\ UNCHANGED <<mutex, process, registered, running, toServer, working>>

\* drain_stderr ends: stop_ is set, or stderr is closed.
drain_stderr ==
    /\ reader = "running"
    /\ stop \/ ~running
    /\ reader' = "done"
    /\ UNCHANGED <<object, mutex, process, dead, nextId, buf, doc, stop, request_, pc, setup,
                   registered, server, stuck>>

-----------------------------------------------------------------------------
(* The server *)

ServerReads ==
    /\ running /\ toServer # << >>
    /\ toServer' = Tail(toServer)
    /\ working' = IF Head(toServer).kind = "request" /\ stdout = "open"
                  THEN working \cup {Head(toServer).id} ELSE working
    /\ UNCHANGED <<running, fromServer, stdout>>

ServerAnswers ==
    /\ running /\ stdout = "open" /\ Len(fromServer) < Backlog
    /\ \E i \in working, kind \in {"result", "error"} :
        /\ fromServer' = Append(fromServer, Line(kind, i))
        /\ working' = working \ {i}
    /\ UNCHANGED <<running, toServer, stdout>>

ServerTalks ==
    /\ running /\ stdout = "open" /\ Len(fromServer) < Backlog
    /\ \E kind \in Chatter : fromServer' = Append(fromServer, Line(kind, 0))
    /\ UNCHANGED <<running, toServer, stdout, working>>

\* It answers no more, and its process goes on: its stdout carries a line that
\* does not end, or is closed, or cannot be read any more with what it holds.
ServerFallsSilent ==
    /\ running /\ stdout = "open"
    /\ \/ stdout' = "endless" /\ UNCHANGED fromServer
       \/ stdout' = "closed" /\ fromServer' \in {fromServer, << >>}
    /\ working' = {}
    /\ UNCHANGED <<running, toServer>>

ServerExits ==
    /\ running
    /\ running' = FALSE /\ toServer' = << >> /\ working' = {}
    /\ UNCHANGED <<fromServer, stdout>>

Server ==
    /\ ServerReads \/ ServerAnswers \/ ServerTalks \/ ServerFallsSilent \/ ServerExits
    /\ UNCHANGED <<object, mutex, process, dead, nextId, buf, doc, reader, stop, request_, pc,
                   setup, registered, stuck>>

-----------------------------------------------------------------------------
Exchange(t) ==
    \/ LineSent(t) \/ LineNotSent(t)
    \/ \E n \in 1 .. Backlog : ReadData(t, n)
    \/ ReadClosed(t) \/ LineTooLong(t) \/ TimesOut(t) \/ ProcessLine(t)

CallStep(t) == call_tool(t) \/ Exchange(t) \/ map_call_result(t)

MainStep ==
    \/ Exchange(Main) \/ Initialized \/ list_tools
    \/ \E cursor \in Cursors \cup {None} : Listed(cursor)
    \/ Register \/ shutdown \/ terminate \/ JoinReader \/ Destroy

Next ==
    \/ start \/ disconnect_mcp_server \/ MainStep
    \/ \E t \in Callers : remote_tool_callback(t) \/ CallStep(t)
    \/ DeadlinePasses \/ drain_stderr
    \/ Server

Spec == Init /\ [][Next]_vars

\* The threads run and the clock does; nothing is asked of the server.
FairSpec ==
    /\ Spec
    /\ WF_vars(MainStep) /\ \A t \in Callers : WF_vars(CallStep(t))
    /\ WF_vars(DeadlinePasses) /\ WF_vars(drain_stderr)

-----------------------------------------------------------------------------
(* Properties *)

ConnectionOK ==
    /\ object \in BOOLEAN /\ process \in BOOLEAN /\ dead \in BOOLEAN /\ stop \in BOOLEAN
    /\ mutex \in Threads \cup {None} /\ nextId \in Nat /\ reader \in {"none", "running", "done"}
    /\ buf \in Seq(ServerLines) /\ doc \in ServerLines \cup {None}

RequestOK ==
    /\ method \in {"initialize", "list", "call"} /\ reqId \in Nat /\ late \in BOOLEAN
    /\ sending \in ClientLines \cup {None}

ThreadsOK ==
    /\ pc \in [Threads -> Places] /\ registered \in BOOLEAN
    /\ advertised \in BOOLEAN /\ page \in 0 .. MaxPages /\ seen \subseteq Cursors

ServerOK ==
    /\ running \in BOOLEAN /\ stuck \in BOOLEAN /\ working \subseteq Nat
    /\ toServer \in Seq(ClientLines) /\ fromServer \in Seq(ServerLines)
    /\ stdout \in {"open", "closed", "endless"}

TypeOK == ConnectionOK /\ RequestOK /\ ThreadsOK /\ ServerOK

\* A line is written by the thread that has mutex_.
WritesUnderMutex == \A t \in Threads : pc[t] = "send" <=> sending # None /\ mutex = t

\* A request goes on with the answer to itself: never with the late answer to
\* one that timed out, and never with a line parsed after it ("the late response
\* is discarded when it arrives").
RepliesAreOwn ==
    /\ TypeOK /\ WritesUnderMutex
    /\ \A t \in Threads : pc[t] = "map" => mutex = t /\ doc = Line("result", reqId)

\* After a write that may have stopped in the middle of a line no request is
\* written any more: what the server would read as one line is never made of
\* two (request looks at dead_).
RequestsStartOnNewLines ==
    Len(toServer') > Len(toServer) /\ toServer'[Len(toServer')].kind = "request" => ~stuck

\* The connection is given up only when the server has exited, has not taken a
\* line for 30 seconds, or can send no line any more (its stdout is closed, cannot
\* be read, or holds one line of more than 64 MiB, mcp.md:77): a request that
\* times out, bad JSON and errors leave it usable.  And it is not given up while
\* the answer that the request waits for can be read: what the server wrote
\* before it fell silent is read first.
DiesForCause ==
    dead' /\ ~dead /\ process' =>
        /\ ~running \/ stdout # "open" \/ stuck'
        /\ (\E t \in Threads : pc[t] = "wait") =>
               \A lines \in {buf, fromServer} : \A i \in 1 .. Len(lines) :
                   ~(lines[i].id = reqId /\ lines[i].kind \in {"result", "error"})

\* Every step of a connection: it carries whole lines (request, write_line), and
\* is given up for a reason.
ConnectionExact == [][RequestsStartOnNewLines /\ DiesForCause]_vars

\* The stderr thread uses process_ without mutex_: it is there as long as the
\* thread runs.
StderrHasProcess == reader = "running" => process

\* Whatever way a connection ends, a start that fails half way included, neither
\* the process nor the thread nor a registered tool is left.
NothingIsLeft == pc[Main] = "off" => ~running /\ reader = "none" /\ ~registered /\ ~object

\* A tool that the session offers belongs to a server that is there.
ToolsHaveServer == registered => process

\* The process, the stderr thread, the tools and the McpServer end in order.
Lifetimes == StderrHasProcess /\ NothingIsLeft /\ ToolsHaveServer

\* Every call returns and every connect and disconnect ends, whatever the server
\* does or stops doing.
CallsReturn ==
    /\ \A t \in Callers : pc[t] = "lock" ~> pc[t] = "idle"
    /\ pc[Main] \notin {"off", "on"} ~> pc[Main] \in {"off", "on"}

\* "`disconnect_mcp_server` waits for an in-flight call to finish" (mcp.md:86):
\* a call that has begun has its McpServer until it ends.
CallsHaveServer == \A t \in Callers : pc[t] # "idle" => object
=============================================================================
