--------------------------- MODULE McpClientProofs ---------------------------
(***************************************************************************)
(* Proofs about McpClient, for any number of callers, any server and any   *)
(* size of the pipes: a request goes on with its own answer, the parts of  *)
(* a connection end in order, and a connection carries whole lines and is  *)
(* given up for a reason.                                                  *)
(***************************************************************************)
EXTENDS McpClient, TLAPS

\* Where a thread has mutex_.
Holding == {"send", "wait", "map", "list", "terminate", "join"}

\* Who has mutex_, and what is written under it.
LockInv ==
    /\ \A t \in Callers : pc[t] \in {"idle", "lock", "send", "wait", "map"}
    /\ pc[Main] \notin {"idle", "lock"}
    /\ \A t \in Threads : mutex = t <=> pc[t] \in Holding
    /\ WritesUnderMutex
    /\ pc[Main] \in {"off", "erase"} => mutex = None
    /\ mutex = None => sending = None
    /\ sending # None /\ sending.kind = "initialized" => mutex = Main

\* What of a connection is there, by where the thread is that owns it.
LifeInv ==
    /\ process <=> pc[Main] \notin {"off", "erase"}
    /\ object <=> pc[Main] # "off"
    /\ running => pc[Main] \notin {"off", "join", "erase"}
    /\ registered => pc[Main] = "on"
    /\ reader = "running" => process
    /\ pc[Main] = "off" => reader = "none"
    /\ pc[Main] \in {"send", "wait", "map"} /\ method = "list" => page < MaxPages

\* No request is written on a dead connection, and an answer is the own one.
AnswerInv ==
    /\ stuck => dead
    /\ dead /\ sending # None => sending.kind # "request"
    /\ \A t \in Threads : pc[t] = "map" => doc = Line("result", reqId)

ConnectionInv == TypeOK /\ LockInv /\ LifeInv /\ AnswerInv

\* The lines that are written, and the places.
LEMMA LineTypes ==
    /\ \A i \in Nat, kind \in {"request", "cancelled", "answer", "initialized"} :
           Line(kind, i) \in ClientLines /\ Line(kind, i) # None /\ Line(kind, i).kind = kind
    /\ \A i \in Nat, kind \in {"result", "error", "ping", "note", "noise", "invalid"} :
           Line(kind, i) \in ServerLines
    /\ \A line \in ClientLines : line # None /\ line.id \in Nat
           /\ line.kind \in {"request", "cancelled", "answer", "initialized"}
    /\ \A line \in ServerLines : line # None /\ line.id \in Nat /\ line = Line(line.kind, line.id)
  BY NoneIsNoLine DEF Line, Lines, ClientLines, ServerLines

\* A thread is at one of the named places of the client's functions.
LEMMA PlacesAre ==
    /\ {"off", "on", "idle", "lock", "send", "wait", "map", "list"} \subseteq Places
    /\ {"register", "shutdown", "terminate", "join", "erase"} \subseteq Places
    /\ Main \in Threads /\ Callers \subseteq Threads /\ None \notin Threads
  BY ConstantsOK DEF Places, Threads

\* What Goto does to the threads.
LEMMA GotoMoves ==
    ASSUME TypeOK, NEW t \in Threads, NEW x \in Places, Goto(t, x)
    PROVE  pc' \in [Threads -> Places] /\ \A u \in Threads : pc'[u] = IF u = t THEN x ELSE pc[u]
  BY DEF TypeOK, ThreadsOK, Goto

\* A thread keeps, takes, releases or does without mutex_ as it moves.
LEMMA MutexStep ==
    ASSUME ConnectionInv, NEW t \in Threads, NEW x \in Places, Goto(t, x),
           t \in Callers => x \in {"idle", "lock", "send", "wait", "map"},
           t = Main => x \notin {"idle", "lock"} /\ (x \in {"off", "erase"} => mutex' = None),
           \/ /\ mutex = t \/ (mutex = None /\ (t # Main => pc[Main] \notin {"off", "erase"}))
              /\ x \in Holding /\ mutex' = t /\ (x = "send" <=> sending' # None)
           \/ mutex = t /\ x \notin Holding /\ mutex' = None /\ sending' = None
           \/ pc[t] \notin Holding /\ x \notin Holding /\ mutex' = mutex /\ sending' = sending,
           sending' # None /\ sending' # sending => sending'.kind # "initialized" \/ t = Main
    PROVE  LockInv'
<1>1. \A u \in Threads : pc'[u] = IF u = t THEN x ELSE pc[u]
  BY GotoMoves DEF ConnectionInv
<1>2. Main \in Threads /\ Callers \subseteq Threads /\ None \notin Threads
  BY ConstantsOK DEF Threads
<1>3. (\A u \in Threads : mutex' = u <=> pc'[u] \in Holding) /\ (mutex' = None => sending' = None)
  BY <1>1, <1>2 DEF ConnectionInv, LockInv
<1>4. WritesUnderMutex'
  <2> SUFFICES ASSUME NEW u \in Threads PROVE pc'[u] = "send" <=> sending' # None /\ mutex' = u
    BY DEF WritesUnderMutex
  <2>1. "send" \in Holding
    BY DEF Holding
  <2> QED  BY <1>1, <1>2, <2>1 DEF ConnectionInv, LockInv, WritesUnderMutex
<1>5. (\A u \in Callers : pc'[u] \in {"idle", "lock", "send", "wait", "map"})
      /\ pc'[Main] \notin {"idle", "lock"}
  BY <1>1, <1>2 DEF ConnectionInv, LockInv
<1>6. (pc'[Main] \in {"off", "erase"} => mutex' = None)
      /\ (sending' # None /\ sending'.kind = "initialized" => mutex' = Main)
  BY <1>1, <1>2 DEF ConnectionInv, LockInv
<1> QED  BY <1>3, <1>4, <1>5, <1>6 DEF LockInv

\* The moves under mutex_: a line to be written, a wait, a failure, a release;
\* and the moves of a thread that does without it.
LEMMA Sends ==
    ASSUME ConnectionInv, NEW t \in Threads, NEW line \in ClientLines, Send(t, line), mutex' = t,
           mutex = t \/ (mutex = None /\ (t # Main => pc[Main] \notin {"off", "erase"})),
           line.kind = "initialized" => t = Main
    PROVE  LockInv'
  BY ZenonT(30), MutexStep, PlacesAre, LineTypes, ConstantsOK DEF Send, Holding, Threads

\* A thread moves on and keeps mutex_.
LEMMA Keeps ==
    ASSUME ConnectionInv, NEW t \in Threads, NEW x \in {"wait", "map", "list", "terminate", "join"}, Goto(t, x),
           mutex = t \/ (mutex = None /\ t = Main), mutex' = t, sending' = None,
           t = Main \/ x \in {"wait", "map"}
    PROVE  LockInv'
  BY MutexStep, PlacesAre, ConstantsOK DEF Holding, Threads

\* A thread leaves the scope of its lock.
LEMMA Releases ==
    ASSUME ConnectionInv, NEW t \in Threads, NEW x \in {"idle", "shutdown", "register", "erase"}, Goto(t, x),
           mutex = t, mutex' = None, sending' = None, x = "idle" <=> t # Main
    PROVE  LockInv'
  BY MutexStep, PlacesAre, ConstantsOK DEF Holding, Threads

\* A request that fails gives mutex_ back.
LEMMA FailureReleases ==
    ASSUME ConnectionInv, NEW t \in Threads, Fails(t), mutex = t, sending' = None
    PROVE  LockInv'
  BY Releases DEF Fails

\* A thread moves between places that need no mutex_.
LEMMA DoesWithout ==
    ASSUME ConnectionInv, NEW t \in Threads, NEW x \in {"idle", "lock", "on", "off", "shutdown"}, Goto(t, x),
           pc[t] \notin Holding, mutex' = mutex, sending' = sending,
           x \in {"idle", "lock"} <=> t # Main, x = "off" => mutex = None
    PROVE  LockInv'
  BY MutexStep, PlacesAre, ConstantsOK DEF Holding, Threads

\* A step that moves no thread and leaves what is written.
LEMMA MutexKept ==
    ASSUME ConnectionInv, UNCHANGED <<pc, mutex, sending>>
    PROVE  LockInv'
  BY DEF ConnectionInv, LockInv, WritesUnderMutex

\* Nobody reads an answer after a step under mutex_ that did not get one.
LEMMA NobodyMaps ==
    ASSUME ConnectionInv, NEW t \in Threads, NEW x \in Places, Goto(t, x), mutex \in {t, None}, x # "map"
    PROVE  \A u \in Threads : pc'[u] # "map"
<1>1. \A u \in Threads : pc'[u] = IF u = t THEN x ELSE pc[u]
  BY GotoMoves DEF ConnectionInv
<1>2. None \notin Threads /\ "map" \in Holding
  BY ConstantsOK DEF Threads, Holding
<1> QED  BY <1>1, <1>2 DEF ConnectionInv, LockInv

\* A line is written by the thread that has mutex_.
LEMMA LineSentStep == ASSUME ConnectionInv, NEW t \in Threads, LineSent(t) PROVE ConnectionInv'
<1>1. mutex = t /\ sending \in ClientLines /\ sending # None /\ (sending.kind = "initialized" => t = Main)
  BY LineTypes DEF ConnectionInv, TypeOK, RequestOK, LockInv, WritesUnderMutex, LineSent
<1>2. ConnectionOK'
  <2>1. CASE sending.kind \in {"request", "answer"}
    BY ZenonT(30), <1>1, <2>1, PlacesAre DEF ConnectionInv, TypeOK, ConnectionOK, LineSent, Fails, request_, setup, server
  <2>2. CASE sending.kind = "initialized"
    BY <1>1, <2>2, PlacesAre DEF ConnectionInv, TypeOK, ConnectionOK, LineSent, Fails, request_, setup, server
  <2>3. CASE sending.kind = "cancelled"
    BY <1>1, <2>3, PlacesAre DEF ConnectionInv, TypeOK, ConnectionOK, LineSent, Fails, request_, setup, server
  <2> QED  BY <1>1, LineTypes, <2>1, <2>2, <2>3
<1>3. RequestOK'
  BY <1>1 DEF ConnectionInv, TypeOK, RequestOK, LineSent, Fails, request_, setup, server
<1>4. ThreadsOK'
  <2>1. CASE sending.kind \in {"request", "answer"}
    BY ZenonT(30), <1>1, <2>1, GotoMoves, PlacesAre DEF ConnectionInv, TypeOK, ThreadsOK, LineSent, Fails, request_, setup, server
  <2>2. CASE sending.kind = "initialized"
    BY <1>1, <2>2, GotoMoves, PlacesAre DEF ConnectionInv, TypeOK, ThreadsOK, LineSent, Fails, request_, setup, server
  <2>3. CASE sending.kind = "cancelled"
    BY <1>1, <2>3, GotoMoves, PlacesAre DEF ConnectionInv, TypeOK, ThreadsOK, LineSent, Fails, request_, setup, server
  <2> QED  BY <1>1, LineTypes, <2>1, <2>2, <2>3
<1>5. ServerOK'
  BY <1>1 DEF ConnectionInv, TypeOK, ServerOK, LineSent, Fails, request_, setup, server
<1>6. LockInv'
  <2>1. CASE sending.kind \in {"request", "answer"}
    BY ZenonT(30), <1>1, <2>1, Keeps DEF LineSent, Fails, request_, setup, server
  <2>2. CASE sending.kind = "initialized"
    BY <1>1, <2>2, Keeps DEF LineSent, Fails, request_, setup, server
  <2>3. CASE sending.kind = "cancelled"
    BY <1>1, <2>3, FailureReleases DEF LineSent, Fails, request_, setup, server
  <2> QED  BY <1>1, LineTypes, <2>1, <2>2, <2>3
<1>7. LifeInv'
  <2>1. CASE sending.kind \in {"request", "answer"}
    <3>1. pc'[Main] = pc[Main] \/ (pc[Main] = "send" /\ pc'[Main] = "wait")
      BY ZenonT(30), <1>1, <2>1, GotoMoves, PlacesAre DEF LineSent, ConnectionInv
    <3>2. UNCHANGED <<object, process, running, registered, reader, method, page>>
      BY DEF LineSent, setup
    <3> QED  BY <3>1, <3>2 DEF ConnectionInv, LifeInv
  <2>2. CASE sending.kind = "initialized"
    BY <1>1, <2>2, GotoMoves, PlacesAre DEF ConnectionInv, LifeInv, LineSent, Fails, request_, setup, server
  <2>3. CASE sending.kind = "cancelled"
    BY <1>1, <2>3, GotoMoves, PlacesAre DEF ConnectionInv, LifeInv, LineSent, Fails, request_, setup, server
  <2> QED  BY <1>1, LineTypes, <2>1, <2>2, <2>3
<1>8. \A u \in Threads : pc'[u] # "map"
  <2>1. CASE sending.kind \in {"request", "answer"}
    BY ZenonT(30), <1>1, <2>1, NobodyMaps, PlacesAre DEF LineSent, Fails
  <2>2. CASE sending.kind = "initialized"
    BY <1>1, <2>2, NobodyMaps, PlacesAre DEF LineSent, Fails
  <2>3. CASE sending.kind = "cancelled"
    BY <1>1, <2>3, NobodyMaps, PlacesAre DEF LineSent, Fails
  <2> QED  BY <1>1, LineTypes, <2>1, <2>2, <2>3
<1>9. AnswerInv'
  BY <1>1, <1>8 DEF ConnectionInv, AnswerInv, LineSent
<1> QED  BY <1>2, <1>3, <1>4, <1>5, <1>6, <1>7, <1>9 DEF ConnectionInv, TypeOK

\* A write fails: the connection is dead, and nothing is left to be written.
LEMMA LineNotSentStep == ASSUME ConnectionInv, NEW t \in Threads, LineNotSent(t) PROVE ConnectionInv'
<1>1. mutex = t
  BY DEF ConnectionInv, LockInv, WritesUnderMutex, LineNotSent
<1>2. ConnectionOK'
  BY <1>1, PlacesAre DEF ConnectionInv, TypeOK, ConnectionOK, LineNotSent, Fails, request_, setup, server
<1>3. RequestOK'
  BY <1>1 DEF ConnectionInv, TypeOK, RequestOK, LineNotSent, Fails, request_, setup, server
<1>4. ThreadsOK'
  <2>1. CASE sending.kind = "answer"
    BY <1>1, <2>1, GotoMoves, PlacesAre DEF ConnectionInv, TypeOK, ThreadsOK, LineNotSent, Fails, request_, setup, server
  <2>2. CASE sending.kind # "answer"
    BY <1>1, <2>2, GotoMoves, PlacesAre DEF ConnectionInv, TypeOK, ThreadsOK, LineNotSent, Fails, request_, setup, server
  <2> QED  BY <2>1, <2>2
<1>5. ServerOK'
  BY <1>1 DEF ConnectionInv, TypeOK, ServerOK, LineNotSent, Fails, request_, setup, server
<1>6. LockInv'
  <2>1. CASE sending.kind = "answer"
    BY <1>1, <2>1, Keeps DEF LineNotSent, Fails, request_, setup, server
  <2>2. CASE sending.kind # "answer"
    BY <1>1, <2>2, FailureReleases DEF LineNotSent, Fails, request_, setup, server
  <2> QED  BY <2>1, <2>2
<1>7. LifeInv'
  <2>1. CASE sending.kind = "answer"
    BY <1>1, <2>1, GotoMoves, PlacesAre DEF ConnectionInv, LifeInv, LineNotSent, Fails, request_, setup, server
  <2>2. CASE sending.kind # "answer"
    BY <1>1, <2>2, GotoMoves, PlacesAre DEF ConnectionInv, LifeInv, LineNotSent, Fails, request_, setup, server
  <2> QED  BY <2>1, <2>2
<1>8. \A u \in Threads : pc'[u] # "map"
  BY <1>1, NobodyMaps, PlacesAre DEF LineNotSent, Fails, request_, setup, server
<1>9. AnswerInv'
  BY <1>1, <1>8, LineTypes DEF ConnectionInv, AnswerInv, LineNotSent, Fails, request_, setup, server
<1> QED  BY <1>2, <1>3, <1>4, <1>5, <1>6, <1>7, <1>9 DEF ConnectionInv, TypeOK

\* Lines are taken over from the pipe.
LEMMA ReadDataStep == ASSUME ConnectionInv, NEW t \in Threads, NEW n \in 1 .. Backlog, ReadData(t, n) PROVE ConnectionInv'
<1>1. fromServer \in Seq(ServerLines) /\ n \in 1 .. Len(fromServer)
  BY DEF ConnectionInv, TypeOK, ServerOK, ReadData
<1>2. ConnectionOK'
  BY <1>1 DEF ConnectionInv, TypeOK, ConnectionOK, ReadData, Waits, request_, setup, server
<1>3. RequestOK'
  BY <1>1 DEF ConnectionInv, TypeOK, RequestOK, ReadData, Waits, request_, setup, server
<1>4. ThreadsOK'
  BY <1>1 DEF ConnectionInv, TypeOK, ThreadsOK, ReadData, Waits, request_, setup, server
<1>5. ServerOK'
  BY <1>1 DEF ConnectionInv, TypeOK, ServerOK, ReadData, Waits, request_, setup, server
<1>6. LockInv'
  BY <1>1, MutexKept DEF ReadData, Waits, request_, setup, server
<1>7. LifeInv'
  BY <1>1 DEF ConnectionInv, LifeInv, ReadData, Waits, request_, setup, server
<1>8. AnswerInv'
  BY <1>1 DEF ConnectionInv, AnswerInv, ReadData, Waits, request_, setup, server
<1> QED  BY <1>2, <1>3, <1>4, <1>5, <1>6, <1>7, <1>8 DEF ConnectionInv, TypeOK

\* The server is gone or silent: the connection is dead, and the request fails.
LEMMA MarkDeadStep == ASSUME ConnectionInv, NEW t \in Threads, Waits(t), mark_dead(t) PROVE ConnectionInv'
<1>1. mutex = t /\ sending = None
  BY DEF ConnectionInv, LockInv, WritesUnderMutex, Holding, Waits
<1>2. ConnectionOK'
  BY <1>1, PlacesAre DEF ConnectionInv, TypeOK, ConnectionOK, mark_dead, Fails, Waits, request_, setup, server
<1>3. RequestOK'
  BY <1>1 DEF ConnectionInv, TypeOK, RequestOK, mark_dead, Fails, Waits, request_, setup, server
<1>4. ThreadsOK'
  BY <1>1, GotoMoves, PlacesAre DEF ConnectionInv, TypeOK, ThreadsOK, mark_dead, Fails, Waits, request_, setup, server
<1>5. ServerOK'
  BY <1>1 DEF ConnectionInv, TypeOK, ServerOK, mark_dead, Fails, Waits, request_, setup, server
<1>6. LockInv'
  BY <1>1, FailureReleases DEF mark_dead, Fails, Waits, request_, setup, server
<1>7. LifeInv'
  BY <1>1, GotoMoves, PlacesAre DEF ConnectionInv, LifeInv, mark_dead, Fails, Waits, request_, setup, server
<1>8. \A u \in Threads : pc'[u] # "map"
  BY <1>1, NobodyMaps, PlacesAre DEF mark_dead, Fails, Waits, request_, setup, server
<1>9. AnswerInv'
  BY <1>1, <1>8, LineTypes DEF ConnectionInv, AnswerInv, mark_dead, Fails, Waits, request_, setup, server
<1> QED  BY <1>2, <1>3, <1>4, <1>5, <1>6, <1>7, <1>9 DEF ConnectionInv, TypeOK

\* The request is cancelled; its answer may come all the same.
LEMMA TimesOutStep == ASSUME ConnectionInv, NEW t \in Threads, TimesOut(t) PROVE ConnectionInv'
<1>1. mutex = t /\ reqId \in Nat
  BY DEF ConnectionInv, TypeOK, RequestOK, LockInv, Holding, TimesOut, Waits
<1>2. ConnectionOK'
  BY <1>1 DEF ConnectionInv, TypeOK, ConnectionOK, TimesOut, Send, Waits, request_, setup, server
<1>3. RequestOK'
  BY <1>1, LineTypes DEF ConnectionInv, TypeOK, RequestOK, TimesOut, Send, Waits, request_, setup, server
<1>4. ThreadsOK'
  BY <1>1, GotoMoves, PlacesAre DEF ConnectionInv, TypeOK, ThreadsOK, TimesOut, Send, Waits, request_, setup, server
<1>5. ServerOK'
  BY <1>1 DEF ConnectionInv, TypeOK, ServerOK, TimesOut, Send, Waits, request_, setup, server
<1>6. LockInv'
  BY <1>1, Sends, LineTypes DEF TimesOut, Send, Waits, request_, setup, server
<1>7. LifeInv'
  BY <1>1, GotoMoves, PlacesAre DEF ConnectionInv, LifeInv, TimesOut, Send, Waits, request_, setup, server
<1>8. \A u \in Threads : pc'[u] # "map"
  BY <1>1, NobodyMaps, PlacesAre DEF TimesOut, Send, Waits, request_, setup, server
<1>9. AnswerInv'
  BY <1>1, <1>8, LineTypes DEF ConnectionInv, AnswerInv, TimesOut, Send, Waits, request_, setup, server
<1> QED  BY <1>2, <1>3, <1>4, <1>5, <1>6, <1>7, <1>9 DEF ConnectionInv, TypeOK

\* A line is read: the request goes on with the answer to itself only.
LEMMA ProcessLineStep == ASSUME ConnectionInv, NEW t \in Threads, ProcessLine(t) PROVE ConnectionInv'
<1>1. mutex = t /\ sending = None /\ Head(buf) \in ServerLines /\ Tail(buf) \in Seq(ServerLines)
      /\ \A u \in Threads : u # t => pc[u] # "map"
  BY ConstantsOK DEF ConnectionInv, TypeOK, ConnectionOK, LockInv, WritesUnderMutex, Holding, Threads, ProcessLine
<1>2. ConnectionOK'
  <2>1. CASE Head(buf).kind = "ping"
    BY <1>1, <2>1, PlacesAre DEF ConnectionInv, TypeOK, ConnectionOK, ProcessLine, Fails, Send, RemoteError, OwnReply, request_, setup, server
  <2>2. CASE Head(buf).kind = "invalid"
    BY <1>1, <2>2, PlacesAre DEF ConnectionInv, TypeOK, ConnectionOK, ProcessLine, Fails, Send, RemoteError, OwnReply, request_, setup, server
  <2>3. CASE Head(buf).kind = "error" /\ OwnReply(Head(buf))
    BY <1>1, <2>3, PlacesAre DEF ConnectionInv, TypeOK, ConnectionOK, ProcessLine, Fails, Send, RemoteError, OwnReply, request_, setup, server
  <2>4. CASE Head(buf).kind = "result" /\ OwnReply(Head(buf))
    BY <1>1, <2>4, PlacesAre DEF ConnectionInv, TypeOK, ConnectionOK, ProcessLine, Fails, Send, RemoteError, OwnReply, request_, setup, server
  <2>5. CASE Head(buf).kind \notin {"ping", "invalid"} /\ ~OwnReply(Head(buf))
    BY <1>1, <2>5, PlacesAre DEF ConnectionInv, TypeOK, ConnectionOK, ProcessLine, Fails, Send, RemoteError, OwnReply, request_, setup, server
  <2> QED  BY <2>1, <2>2, <2>3, <2>4, <2>5 DEF OwnReply
<1>3. RequestOK'
  <2>1. CASE Head(buf).kind = "ping"
    BY <1>1, <2>1, LineTypes DEF ConnectionInv, TypeOK, RequestOK, ProcessLine, Fails, Send, RemoteError, OwnReply, request_, setup, server
  <2>2. CASE Head(buf).kind = "invalid"
    BY <1>1, <2>2, LineTypes DEF ConnectionInv, TypeOK, RequestOK, ProcessLine, Fails, Send, RemoteError, OwnReply, request_, setup, server
  <2>3. CASE Head(buf).kind = "error" /\ OwnReply(Head(buf))
    BY <1>1, <2>3, LineTypes DEF ConnectionInv, TypeOK, RequestOK, ProcessLine, Fails, Send, RemoteError, OwnReply, request_, setup, server
  <2>4. CASE Head(buf).kind = "result" /\ OwnReply(Head(buf))
    BY <1>1, <2>4, LineTypes DEF ConnectionInv, TypeOK, RequestOK, ProcessLine, Fails, Send, RemoteError, OwnReply, request_, setup, server
  <2>5. CASE Head(buf).kind \notin {"ping", "invalid"} /\ ~OwnReply(Head(buf))
    BY <1>1, <2>5, LineTypes DEF ConnectionInv, TypeOK, RequestOK, ProcessLine, Fails, Send, RemoteError, OwnReply, request_, setup, server
  <2> QED  BY <2>1, <2>2, <2>3, <2>4, <2>5 DEF OwnReply
<1>4. ThreadsOK'
  <2>1. CASE Head(buf).kind = "ping"
    BY <1>1, <2>1, GotoMoves, PlacesAre DEF ConnectionInv, TypeOK, ThreadsOK, ProcessLine, Fails, Send, RemoteError, OwnReply, request_, setup, server
  <2>2. CASE Head(buf).kind = "invalid"
    BY <1>1, <2>2, GotoMoves, PlacesAre DEF ConnectionInv, TypeOK, ThreadsOK, ProcessLine, Fails, Send, RemoteError, OwnReply, request_, setup, server
  <2>3. CASE Head(buf).kind = "error" /\ OwnReply(Head(buf))
    BY <1>1, <2>3, GotoMoves, PlacesAre DEF ConnectionInv, TypeOK, ThreadsOK, ProcessLine, Fails, Send, RemoteError, OwnReply, request_, setup, server
  <2>4. CASE Head(buf).kind = "result" /\ OwnReply(Head(buf))
    BY <1>1, <2>4, GotoMoves, PlacesAre DEF ConnectionInv, TypeOK, ThreadsOK, ProcessLine, Fails, Send, RemoteError, OwnReply, request_, setup, server
  <2>5. CASE Head(buf).kind \notin {"ping", "invalid"} /\ ~OwnReply(Head(buf))
    BY <1>1, <2>5, GotoMoves, PlacesAre DEF ConnectionInv, TypeOK, ThreadsOK, ProcessLine, Fails, Send, RemoteError, OwnReply, request_, setup, server
  <2> QED  BY <2>1, <2>2, <2>3, <2>4, <2>5 DEF OwnReply
<1>5. ServerOK'
  BY <1>1 DEF ConnectionInv, TypeOK, ServerOK, ProcessLine, Fails, Send, RemoteError, OwnReply, request_, setup, server
<1>6. LockInv'
  <2>1. CASE Head(buf).kind = "ping"
    BY <1>1, <2>1, Sends, LineTypes DEF ProcessLine, Fails, Send, RemoteError, OwnReply, request_, setup, server
  <2>2. CASE Head(buf).kind = "invalid"
    BY <1>1, <2>2, FailureReleases DEF ProcessLine, Fails, Send, RemoteError, OwnReply, request_, setup, server
  <2>3. CASE Head(buf).kind = "error" /\ OwnReply(Head(buf))
    BY <1>1, <2>3, Keeps, Releases, FailureReleases DEF ProcessLine, Fails, Send, RemoteError, OwnReply, request_, setup, server
  <2>4. CASE Head(buf).kind = "result" /\ OwnReply(Head(buf))
    BY <1>1, <2>4, Keeps DEF ProcessLine, Fails, Send, RemoteError, OwnReply, request_, setup, server
  <2>5. CASE Head(buf).kind \notin {"ping", "invalid"} /\ ~OwnReply(Head(buf))
    BY <1>1, <2>5, MutexKept DEF ProcessLine, Fails, Send, RemoteError, OwnReply, request_, setup, server
  <2> QED  BY <2>1, <2>2, <2>3, <2>4, <2>5 DEF OwnReply
<1>7. LifeInv'
  <2>1. CASE Head(buf).kind = "ping"
    BY <1>1, <2>1, GotoMoves, PlacesAre DEF ConnectionInv, LifeInv, ProcessLine, Fails, Send, RemoteError, OwnReply, request_, setup, server
  <2>2. CASE Head(buf).kind = "invalid"
    BY <1>1, <2>2, GotoMoves, PlacesAre DEF ConnectionInv, LifeInv, ProcessLine, Fails, Send, RemoteError, OwnReply, request_, setup, server
  <2>3. CASE Head(buf).kind = "error" /\ OwnReply(Head(buf))
    BY <1>1, <2>3, GotoMoves, PlacesAre DEF ConnectionInv, LifeInv, ProcessLine, Fails, Send, RemoteError, OwnReply, request_, setup, server
  <2>4. CASE Head(buf).kind = "result" /\ OwnReply(Head(buf))
    BY <1>1, <2>4, GotoMoves, PlacesAre DEF ConnectionInv, LifeInv, ProcessLine, Fails, Send, RemoteError, OwnReply, request_, setup, server
  <2>5. CASE Head(buf).kind \notin {"ping", "invalid"} /\ ~OwnReply(Head(buf))
    BY <1>1, <2>5, GotoMoves, PlacesAre DEF ConnectionInv, LifeInv, ProcessLine, Fails, Send, RemoteError, OwnReply, request_, setup, server
  <2> QED  BY <2>1, <2>2, <2>3, <2>4, <2>5 DEF OwnReply
<1>8. \A u \in Threads : pc'[u] = "map" => doc' = Line("result", reqId)
  <2>1. CASE Head(buf).kind = "ping"
    BY <1>1, <2>1, NobodyMaps, PlacesAre DEF ProcessLine, Send
  <2>2. CASE Head(buf).kind = "invalid"
    BY <1>1, <2>2, NobodyMaps, PlacesAre DEF ProcessLine, Fails
  <2>3. CASE Head(buf).kind = "error" /\ OwnReply(Head(buf))
    BY <1>1, <2>3, NobodyMaps, PlacesAre DEF ProcessLine, RemoteError, Fails
  <2>4. CASE Head(buf).kind = "result" /\ OwnReply(Head(buf))
    BY <1>1, <2>4, LineTypes, GotoMoves, PlacesAre DEF ProcessLine, OwnReply, ConnectionInv
  <2>5. CASE Head(buf).kind \notin {"ping", "invalid"} /\ ~OwnReply(Head(buf))
    BY <1>1, <2>5 DEF ProcessLine, OwnReply
  <2> QED  BY <2>1, <2>2, <2>3, <2>4, <2>5 DEF OwnReply
<1>9. AnswerInv'
  <2>1. UNCHANGED <<stuck, dead, reqId>> /\ (sending' = sending \/ sending'.kind = "answer")
    BY <1>1, LineTypes DEF ProcessLine, Send, Fails, RemoteError, request_, server
  <2> QED  BY <1>1, <1>8, <2>1 DEF ConnectionInv, AnswerInv
<1> QED  BY <1>2, <1>3, <1>4, <1>5, <1>6, <1>7, <1>9 DEF ConnectionInv, TypeOK

\* A connection begins with a server, a stderr thread and a request.
LEMMA startStep == ASSUME ConnectionInv, start PROVE ConnectionInv'
<1>1. mutex = None /\ sending = None /\ nextId \in Nat /\ pc[Main] = "off" /\ pc[Main] \notin Holding
  BY DEF ConnectionInv, TypeOK, ConnectionOK, LockInv, Holding, start
<1>2. ConnectionOK'
  <2>1. CASE dead
    BY <1>1, <2>1, PlacesAre DEF ConnectionInv, TypeOK, ConnectionOK, start, Fails, Send, request, request_, setup, server
  <2>2. CASE ~dead
    BY <1>1, <2>2, PlacesAre DEF ConnectionInv, TypeOK, ConnectionOK, start, Fails, Send, request, request_, setup, server
  <2> QED  BY <2>1, <2>2
<1>3. RequestOK'
  <2>1. CASE dead
    BY <1>1, <2>1 DEF ConnectionInv, TypeOK, RequestOK, start, Fails, Send, request, request_, setup, server
  <2>2. CASE ~dead
    BY <1>1, <2>2, LineTypes DEF ConnectionInv, TypeOK, RequestOK, start, Fails, Send, request, request_, setup, server
  <2> QED  BY <2>1, <2>2
<1>4. ThreadsOK'
  <2>1. CASE dead
    BY <1>1, <2>1, GotoMoves, PlacesAre DEF ConnectionInv, TypeOK, ThreadsOK, start, Fails, Send, request, request_, setup, server
  <2>2. CASE ~dead
    BY <1>1, <2>2, GotoMoves, PlacesAre DEF ConnectionInv, TypeOK, ThreadsOK, start, Fails, Send, request, request_, setup, server
  <2> QED  BY <2>1, <2>2
<1>5. ServerOK'
  BY <1>1 DEF ConnectionInv, TypeOK, ServerOK, start, Fails, Send, request, request_, setup, server
<1>6. LockInv'
  <2>1. CASE dead
    BY <1>1, <2>1, DoesWithout, PlacesAre, ConstantsOK DEF start, Fails, Send, request, request_, setup, server
  <2>2. CASE ~dead
    BY <1>1, <2>2, Sends, LineTypes, PlacesAre DEF start, Fails, Send, request, request_, setup, server
  <2> QED  BY <2>1, <2>2
<1>7. LifeInv'
  <2>1. CASE dead
    BY <1>1, <2>1, GotoMoves, PlacesAre DEF ConnectionInv, LifeInv, start, Fails, Send, request, request_, setup, server
  <2>2. CASE ~dead
    BY <1>1, <2>2, GotoMoves, PlacesAre DEF ConnectionInv, LifeInv, start, Fails, Send, request, request_, setup, server
  <2> QED  BY <2>1, <2>2
<1>8. \A u \in Threads : pc'[u] # "map"
  BY <1>1, NobodyMaps, PlacesAre DEF start, Fails, Send, request, request_, setup, server
<1>9. AnswerInv'
  BY <1>1, <1>8, LineTypes DEF ConnectionInv, AnswerInv, start, Fails, Send, request, request_, setup, server
<1> QED  BY <1>2, <1>3, <1>4, <1>5, <1>6, <1>7, <1>9 DEF ConnectionInv, TypeOK

\* The handshake goes on under the same lock.
LEMMA InitializedStep == ASSUME ConnectionInv, Initialized PROVE ConnectionInv'
<1>1. mutex = Main
  BY PlacesAre DEF ConnectionInv, LockInv, Holding, Initialized
<1>2. ConnectionOK'
  BY <1>1 DEF ConnectionInv, TypeOK, ConnectionOK, Initialized, Send, request_, setup, server
<1>3. RequestOK'
  BY <1>1, LineTypes DEF ConnectionInv, TypeOK, RequestOK, Initialized, Send, request_, setup, server
<1>4. ThreadsOK'
  BY <1>1, GotoMoves, PlacesAre DEF ConnectionInv, TypeOK, ThreadsOK, Initialized, Send, request_, setup, server
<1>5. ServerOK'
  BY <1>1 DEF ConnectionInv, TypeOK, ServerOK, Initialized, Send, request_, setup, server
<1>6. LockInv'
  BY <1>1, Sends, LineTypes, PlacesAre DEF Initialized, Send, request_, setup, server
<1>7. LifeInv'
  BY <1>1, GotoMoves, PlacesAre DEF ConnectionInv, LifeInv, Initialized, Send, request_, setup, server
<1>8. \A u \in Threads : pc'[u] # "map"
  BY <1>1, NobodyMaps, PlacesAre DEF Initialized, Send, request_, setup, server
<1>9. AnswerInv'
  BY <1>1, <1>8, LineTypes DEF ConnectionInv, AnswerInv, Initialized, Send, request_, setup, server
<1> QED  BY <1>2, <1>3, <1>4, <1>5, <1>6, <1>7, <1>9 DEF ConnectionInv, TypeOK

\* There are MaxPages requests for tools at most.
LEMMA list_toolsStep == ASSUME ConnectionInv, list_tools PROVE ConnectionInv'
<1>1. mutex = Main /\ sending = None /\ nextId \in Nat /\ page \in Nat /\ page <= MaxPages
  BY ConstantsOK, PlacesAre DEF ConnectionInv, TypeOK, ConnectionOK, ThreadsOK, LockInv, WritesUnderMutex, Holding, list_tools
<1>2. ConnectionOK'
  <2>1. CASE page = MaxPages \/ dead
    BY ZenonT(30), <1>1, <2>1, PlacesAre DEF ConnectionInv, TypeOK, ConnectionOK, list_tools, Fails, Send, request, request_, setup, server
  <2>2. CASE page # MaxPages /\ ~dead
    BY <1>1, <2>2, PlacesAre DEF ConnectionInv, TypeOK, ConnectionOK, list_tools, Fails, Send, request, request_, setup, server
  <2> QED  BY <2>1, <2>2
<1>3. RequestOK'
  <2>1. CASE page = MaxPages \/ dead
    BY <1>1, <2>1 DEF ConnectionInv, TypeOK, RequestOK, list_tools, Fails, Send, request, request_, setup, server
  <2>2. CASE page # MaxPages /\ ~dead
    BY <1>1, <2>2, LineTypes DEF ConnectionInv, TypeOK, RequestOK, list_tools, Fails, Send, request, request_, setup, server
  <2> QED  BY <2>1, <2>2
<1>4. ThreadsOK'
  <2>1. CASE page = MaxPages \/ dead
    BY <1>1, <2>1, GotoMoves, PlacesAre DEF ConnectionInv, TypeOK, ThreadsOK, list_tools, Fails, Send, request, request_, setup, server
  <2>2. CASE page # MaxPages /\ ~dead
    BY <1>1, <2>2, GotoMoves, PlacesAre DEF ConnectionInv, TypeOK, ThreadsOK, list_tools, Fails, Send, request, request_, setup, server
  <2> QED  BY <2>1, <2>2
<1>5. ServerOK'
  BY <1>1 DEF ConnectionInv, TypeOK, ServerOK, list_tools, Fails, Send, request, request_, setup, server
<1>6. LockInv'
  <2>1. CASE page = MaxPages \/ dead
    BY <1>1, <2>1, FailureReleases, PlacesAre DEF list_tools, Fails, Send, request, request_, setup, server
  <2>2. CASE page # MaxPages /\ ~dead
    BY <1>1, <2>2, Sends, LineTypes, PlacesAre DEF list_tools, Fails, Send, request, request_, setup, server
  <2> QED  BY <2>1, <2>2
<1>7. LifeInv'
  <2>1. CASE page = MaxPages \/ dead
    BY <1>1, <2>1, GotoMoves, PlacesAre DEF ConnectionInv, LifeInv, list_tools, Fails, Send, request, request_, setup, server
  <2>2. CASE page # MaxPages /\ ~dead
    BY <1>1, <2>2, GotoMoves, PlacesAre, ConstantsOK DEF ConnectionInv, LifeInv, list_tools, Fails, Send, request, request_, setup, server
  <2> QED  BY <2>1, <2>2
<1>8. \A u \in Threads : pc'[u] # "map"
  BY <1>1, NobodyMaps, PlacesAre DEF list_tools, Fails, Send, request, request_, setup, server
<1>9. AnswerInv'
  BY <1>1, <1>8, LineTypes DEF ConnectionInv, AnswerInv, list_tools, Fails, Send, request, request_, setup, server
<1> QED  BY <1>2, <1>3, <1>4, <1>5, <1>6, <1>7, <1>9 DEF ConnectionInv, TypeOK

\* A page of tools: the next one, the tools, or a failure.
LEMMA ListedStep == ASSUME ConnectionInv, NEW cursor, Listed(cursor) PROVE ConnectionInv'
<1>1. mutex = Main /\ sending = None /\ page + 1 \in 0 .. MaxPages
  BY ConstantsOK, PlacesAre DEF ConnectionInv, TypeOK, ThreadsOK, LifeInv, LockInv, WritesUnderMutex, Holding, Listed
<1>2. ConnectionOK'
  BY <1>1, PlacesAre DEF ConnectionInv, TypeOK, ConnectionOK, Listed, Fails, request_, setup, server
<1>3. RequestOK'
  BY <1>1 DEF ConnectionInv, TypeOK, RequestOK, Listed, Fails, request_, setup, server
<1>4. ThreadsOK'
  <2>1. CASE Goto(Main, "register") /\ mutex' = None
    BY <1>1, <2>1, GotoMoves, PlacesAre DEF ConnectionInv, TypeOK, ThreadsOK, Listed, Fails, request_, setup, server
  <2>2. CASE Goto(Main, "list") /\ mutex' = mutex
    BY <1>1, <2>2, GotoMoves, PlacesAre DEF ConnectionInv, TypeOK, ThreadsOK, Listed, Fails, request_, setup, server
  <2>3. CASE Fails(Main)
    BY <1>1, <2>3, GotoMoves, PlacesAre DEF ConnectionInv, TypeOK, ThreadsOK, Listed, Fails, request_, setup, server
  <2> QED  BY <2>1, <2>2, <2>3 DEF Listed
<1>5. ServerOK'
  BY <1>1 DEF ConnectionInv, TypeOK, ServerOK, Listed, Fails, request_, setup, server
<1>6. LockInv'
  <2>1. CASE Goto(Main, "register") /\ mutex' = None
    BY <1>1, <2>1, Releases, PlacesAre DEF Listed, Fails, request_, setup, server
  <2>2. CASE Goto(Main, "list") /\ mutex' = mutex
    BY <1>1, <2>2, Keeps, PlacesAre DEF Listed, Fails, request_, setup, server
  <2>3. CASE Fails(Main)
    BY <1>1, <2>3, FailureReleases, PlacesAre DEF Listed, Fails, request_, setup, server
  <2> QED  BY <2>1, <2>2, <2>3 DEF Listed
<1>7. LifeInv'
  <2>1. CASE Goto(Main, "register") /\ mutex' = None
    BY <1>1, <2>1, GotoMoves, PlacesAre DEF ConnectionInv, LifeInv, Listed, Fails, request_, setup, server
  <2>2. CASE Goto(Main, "list") /\ mutex' = mutex
    BY <1>1, <2>2, GotoMoves, PlacesAre DEF ConnectionInv, LifeInv, Listed, Fails, request_, setup, server
  <2>3. CASE Fails(Main)
    BY <1>1, <2>3, GotoMoves, PlacesAre DEF ConnectionInv, LifeInv, Listed, Fails, request_, setup, server
  <2> QED  BY <2>1, <2>2, <2>3 DEF Listed
<1>8. \A u \in Threads : pc'[u] # "map"
  BY <1>1, NobodyMaps, PlacesAre DEF Listed, Fails, request_, setup, server
<1>9. AnswerInv'
  BY <1>1, <1>8, LineTypes DEF ConnectionInv, AnswerInv, Listed, Fails, request_, setup, server
<1> QED  BY <1>2, <1>3, <1>4, <1>5, <1>6, <1>7, <1>9 DEF ConnectionInv, TypeOK

\* The tools are there while the connection is.
LEMMA RegisterStep == ASSUME ConnectionInv, Register PROVE ConnectionInv'
<1>1. pc[Main] \notin Holding /\ pc[Main] = "register"
  BY DEF Holding, Register
<1>2. ConnectionOK'
  BY <1>1 DEF ConnectionInv, TypeOK, ConnectionOK, Register, request_, setup, server
<1>3. RequestOK'
  BY <1>1 DEF ConnectionInv, TypeOK, RequestOK, Register, request_, setup, server
<1>4. ThreadsOK'
  <2>1. pc' \in [Threads -> Places]
    BY GotoMoves, PlacesAre DEF Register, ConnectionInv
  <2>2. registered' \in BOOLEAN /\ UNCHANGED setup
    BY ZenonT(30) DEF Register, ConnectionInv, TypeOK, ThreadsOK
  <2> QED  BY <2>1, <2>2 DEF ConnectionInv, TypeOK, ThreadsOK, setup
<1>5. ServerOK'
  BY <1>1 DEF ConnectionInv, TypeOK, ServerOK, Register, request_, setup, server
<1>6. LockInv'
  <2>1. CASE Goto(Main, "on")
    BY <1>1, <2>1, DoesWithout, PlacesAre DEF Register, request_, setup, server
  <2>2. CASE Goto(Main, "shutdown")
    BY <1>1, <2>2, DoesWithout, PlacesAre DEF Register, request_, setup, server
  <2> QED  BY <2>1, <2>2 DEF Register
<1>7. LifeInv'
  <2>1. CASE Goto(Main, "on")
    BY <1>1, <2>1, GotoMoves, PlacesAre DEF ConnectionInv, LifeInv, Register, request_, setup, server
  <2>2. CASE Goto(Main, "shutdown")
    BY <1>1, <2>2, GotoMoves, PlacesAre DEF ConnectionInv, LifeInv, Register, request_, setup, server
  <2> QED  BY <2>1, <2>2 DEF Register
<1>8. AnswerInv'
  <2>1. CASE Goto(Main, "on")
    BY <2>1, GotoMoves, PlacesAre DEF ConnectionInv, AnswerInv, Register, request_, server
  <2>2. CASE Goto(Main, "shutdown")
    BY <2>2, GotoMoves, PlacesAre DEF ConnectionInv, AnswerInv, Register, request_, server
  <2> QED  BY <2>1, <2>2 DEF Register
<1> QED  BY <1>2, <1>3, <1>4, <1>5, <1>6, <1>7, <1>8 DEF ConnectionInv, TypeOK

\* A caller waits for mutex_.
LEMMA remote_tool_callbackStep == ASSUME ConnectionInv, NEW t \in Callers, remote_tool_callback(t) PROVE ConnectionInv'
<1>1. t \in Threads /\ t # Main /\ pc[t] \notin Holding
  BY ConstantsOK, PlacesAre DEF Holding, remote_tool_callback
<1>2. ConnectionOK'
  BY <1>1 DEF ConnectionInv, TypeOK, ConnectionOK, remote_tool_callback, request_, setup, server
<1>3. RequestOK'
  BY <1>1 DEF ConnectionInv, TypeOK, RequestOK, remote_tool_callback, request_, setup, server
<1>4. ThreadsOK'
  BY <1>1, GotoMoves, PlacesAre DEF ConnectionInv, TypeOK, ThreadsOK, remote_tool_callback, request_, setup, server
<1>5. ServerOK'
  BY <1>1 DEF ConnectionInv, TypeOK, ServerOK, remote_tool_callback, request_, setup, server
<1>6. LockInv'
  BY <1>1, DoesWithout DEF remote_tool_callback, request_, setup, server
<1>7. LifeInv'
  BY <1>1, GotoMoves, PlacesAre DEF ConnectionInv, LifeInv, remote_tool_callback, request_, setup, server
<1>8. AnswerInv'
  BY ZenonT(30), <1>1, GotoMoves, PlacesAre DEF ConnectionInv, AnswerInv, remote_tool_callback, request_, setup, server
<1> QED  BY <1>2, <1>3, <1>4, <1>5, <1>6, <1>7, <1>8 DEF ConnectionInv, TypeOK

\* A caller makes its request, or returns at once.
LEMMA call_toolStep == ASSUME ConnectionInv, NEW t \in Callers, call_tool(t) PROVE ConnectionInv'
<1>1. t \in Threads /\ t # Main /\ mutex = None /\ sending = None /\ nextId \in Nat /\ pc[t] \notin Holding
      /\ (process => pc[Main] \notin {"off", "erase"})
  BY ZenonT(30), ConstantsOK, PlacesAre DEF ConnectionInv, TypeOK, ConnectionOK, LockInv, LifeInv, Holding, call_tool
<1>2. ConnectionOK'
  <2>1. CASE Goto(t, "idle") /\ UNCHANGED <<mutex, request_, nextId>>
    BY <1>1, <2>1, PlacesAre DEF ConnectionInv, TypeOK, ConnectionOK, call_tool, Send, request, request_, setup, server
  <2>2. CASE process /\ ~dead /\ request(t, "call")
    BY <1>1, <2>2, PlacesAre DEF ConnectionInv, TypeOK, ConnectionOK, call_tool, Send, request, request_, setup, server
  <2> QED  BY <1>1, <2>1, <2>2 DEF call_tool, request, Fails, request_
<1>3. RequestOK'
  <2>1. CASE Goto(t, "idle") /\ UNCHANGED <<mutex, request_, nextId>>
    BY <1>1, <2>1 DEF ConnectionInv, TypeOK, RequestOK, call_tool, Send, request, request_, setup, server
  <2>2. CASE process /\ ~dead /\ request(t, "call")
    BY ZenonT(30), <1>1, <2>2, LineTypes DEF ConnectionInv, TypeOK, RequestOK, call_tool, Send, request, request_, setup, server
  <2> QED  BY <1>1, <2>1, <2>2 DEF call_tool, request, Fails, request_
<1>4. ThreadsOK'
  <2>1. CASE Goto(t, "idle") /\ UNCHANGED <<mutex, request_, nextId>>
    BY <1>1, <2>1, GotoMoves, PlacesAre DEF ConnectionInv, TypeOK, ThreadsOK, call_tool, Send, request, request_, setup, server
  <2>2. CASE process /\ ~dead /\ request(t, "call")
    BY <1>1, <2>2, GotoMoves, PlacesAre DEF ConnectionInv, TypeOK, ThreadsOK, call_tool, Send, request, request_, setup, server
  <2> QED  BY <1>1, <2>1, <2>2 DEF call_tool, request, Fails, request_
<1>5. ServerOK'
  BY <1>1 DEF ConnectionInv, TypeOK, ServerOK, call_tool, Send, request, request_, setup, server
<1>6. LockInv'
  <2>1. CASE Goto(t, "idle") /\ UNCHANGED <<mutex, request_, nextId>>
    BY <1>1, <2>1, DoesWithout DEF call_tool, Send, request, request_, setup, server
  <2>2. CASE process /\ ~dead /\ request(t, "call")
    BY ZenonT(30), <1>1, <2>2, Sends, LineTypes DEF call_tool, Send, request, request_, setup, server
  <2> QED  BY <1>1, <2>1, <2>2 DEF call_tool, request, Fails, request_
<1>7. LifeInv'
  <2>1. CASE Goto(t, "idle") /\ UNCHANGED <<mutex, request_, nextId>>
    BY <1>1, <2>1, GotoMoves, PlacesAre DEF ConnectionInv, LifeInv, call_tool, Send, request, request_, setup, server
  <2>2. CASE process /\ ~dead /\ request(t, "call")
    BY <1>1, <2>2, GotoMoves, PlacesAre DEF ConnectionInv, LifeInv, call_tool, Send, request, request_, setup, server
  <2> QED  BY <1>1, <2>1, <2>2 DEF call_tool, request, Fails, request_
<1>8. AnswerInv'
  <2>1. \A u \in Threads : pc'[u] # "map"
    BY ZenonT(30), <1>1, NobodyMaps, PlacesAre DEF call_tool, request, Send, Fails
  <2> QED  BY ZenonT(30), <1>1, <2>1, LineTypes DEF ConnectionInv, AnswerInv, call_tool, request, Send, request_, server
<1> QED  BY <1>2, <1>3, <1>4, <1>5, <1>6, <1>7, <1>8 DEF ConnectionInv, TypeOK

\* The answer is read under the lock of its request.
LEMMA map_call_resultStep == ASSUME ConnectionInv, NEW t \in Callers, map_call_result(t) PROVE ConnectionInv'
<1>1. t \in Threads /\ t # Main /\ mutex = t /\ sending = None
  BY ZenonT(30), ConstantsOK, PlacesAre DEF ConnectionInv, LockInv, WritesUnderMutex, Holding, map_call_result
<1>2. ConnectionOK'
  BY <1>1, PlacesAre, ZenonT(30) DEF ConnectionInv, TypeOK, ConnectionOK, map_call_result, request_, setup, server
<1>3. RequestOK'
  BY <1>1 DEF ConnectionInv, TypeOK, RequestOK, map_call_result, request_, setup, server
<1>4. ThreadsOK'
  BY <1>1, GotoMoves, PlacesAre DEF ConnectionInv, TypeOK, ThreadsOK, map_call_result, request_, setup, server
<1>5. ServerOK'
  BY <1>1 DEF ConnectionInv, TypeOK, ServerOK, map_call_result, request_, setup, server
<1>6. LockInv'
  BY <1>1, Releases DEF map_call_result, request_, setup, server
<1>7. LifeInv'
  BY <1>1, GotoMoves, PlacesAre DEF ConnectionInv, LifeInv, map_call_result, request_, setup, server
<1>8. \A u \in Threads : pc'[u] # "map"
  BY <1>1, NobodyMaps, PlacesAre DEF map_call_result, request_, setup, server
<1>9. AnswerInv'
  BY <1>1, <1>8, LineTypes DEF ConnectionInv, AnswerInv, map_call_result, request_, setup, server
<1> QED  BY <1>2, <1>3, <1>4, <1>5, <1>6, <1>7, <1>9 DEF ConnectionInv, TypeOK

\* The tools go first.
LEMMA disconnect_mcp_serverStep == ASSUME ConnectionInv, disconnect_mcp_server PROVE ConnectionInv'
<1>1. pc[Main] \notin Holding /\ pc[Main] = "on"
  BY DEF Holding, disconnect_mcp_server
<1>2. ConnectionOK'
  BY <1>1 DEF ConnectionInv, TypeOK, ConnectionOK, disconnect_mcp_server, request_, setup, server
<1>3. RequestOK'
  BY <1>1 DEF ConnectionInv, TypeOK, RequestOK, disconnect_mcp_server, request_, setup, server
<1>4. ThreadsOK'
  <2>1. pc' \in [Threads -> Places]
    BY GotoMoves, PlacesAre DEF disconnect_mcp_server, ConnectionInv
  <2>2. registered' \in BOOLEAN /\ UNCHANGED setup
    BY ZenonT(30) DEF disconnect_mcp_server
  <2> QED  BY <2>1, <2>2 DEF ConnectionInv, TypeOK, ThreadsOK, setup
<1>5. ServerOK'
  BY <1>1 DEF ConnectionInv, TypeOK, ServerOK, disconnect_mcp_server, request_, setup, server
<1>6. LockInv'
  BY <1>1, DoesWithout, PlacesAre DEF disconnect_mcp_server, request_, setup, server
<1>7. LifeInv'
  BY <1>1, GotoMoves, PlacesAre DEF ConnectionInv, LifeInv, disconnect_mcp_server, request_, setup, server
<1>8. AnswerInv'
  BY ZenonT(30), <1>1, GotoMoves, PlacesAre DEF ConnectionInv, AnswerInv, disconnect_mcp_server, request_, setup, server
<1> QED  BY <1>2, <1>3, <1>4, <1>5, <1>6, <1>7, <1>8 DEF ConnectionInv, TypeOK

\* A request that is under way is waited for.
LEMMA shutdownStep == ASSUME ConnectionInv, shutdown PROVE ConnectionInv'
<1>1. sending = None
  BY ZenonT(30) DEF ConnectionInv, LockInv, shutdown
<1>2. ConnectionOK'
  BY <1>1, PlacesAre DEF ConnectionInv, TypeOK, ConnectionOK, shutdown, request_, setup, server
<1>3. RequestOK'
  BY <1>1 DEF ConnectionInv, TypeOK, RequestOK, shutdown, request_, setup, server
<1>4. ThreadsOK'
  BY <1>1, GotoMoves, PlacesAre DEF ConnectionInv, TypeOK, ThreadsOK, shutdown, request_, setup, server
<1>5. ServerOK'
  BY <1>1 DEF ConnectionInv, TypeOK, ServerOK, shutdown, request_, setup, server
<1>6. LockInv'
  BY <1>1, Keeps, PlacesAre DEF shutdown, request_, setup, server
<1>7. LifeInv'
  BY <1>1, GotoMoves, PlacesAre DEF ConnectionInv, LifeInv, shutdown, request_, setup, server
<1>8. \A u \in Threads : pc'[u] # "map"
  BY <1>1, NobodyMaps, PlacesAre DEF shutdown, request_, setup, server
<1>9. AnswerInv'
  BY <1>1, <1>8, LineTypes DEF ConnectionInv, AnswerInv, shutdown, request_, setup, server
<1> QED  BY <1>2, <1>3, <1>4, <1>5, <1>6, <1>7, <1>9 DEF ConnectionInv, TypeOK

\* The server is gone.
LEMMA terminateStep == ASSUME ConnectionInv, terminate PROVE ConnectionInv'
<1>1. mutex = Main /\ sending = None
  BY ZenonT(30), PlacesAre DEF ConnectionInv, LockInv, WritesUnderMutex, Holding, terminate
<1>2. ConnectionOK'
  BY <1>1 DEF ConnectionInv, TypeOK, ConnectionOK, terminate, request_, setup, server
<1>3. RequestOK'
  BY <1>1 DEF ConnectionInv, TypeOK, RequestOK, terminate, request_, setup, server
<1>4. ThreadsOK'
  BY <1>1, GotoMoves, PlacesAre DEF ConnectionInv, TypeOK, ThreadsOK, terminate, request_, setup, server
<1>5. ServerOK'
  <2>1. toServer' \in Seq(ClientLines) /\ working' \subseteq Nat
    BY DEF terminate
  <2>2. running' \in BOOLEAN /\ UNCHANGED <<fromServer, stdout, stuck>>
    BY ZenonT(30) DEF terminate
  <2> QED  BY <2>1, <2>2 DEF ConnectionInv, TypeOK, ServerOK
<1>6. LockInv'
  BY <1>1, Keeps, PlacesAre DEF terminate, request_, setup, server
<1>7. LifeInv'
  BY <1>1, GotoMoves, PlacesAre DEF ConnectionInv, LifeInv, terminate, request_, setup, server
<1>8. \A u \in Threads : pc'[u] # "map"
  BY <1>1, NobodyMaps, PlacesAre DEF terminate, request_, setup, server
<1>9. AnswerInv'
  BY <1>1, <1>8, LineTypes DEF ConnectionInv, AnswerInv, terminate, request_, setup, server
<1> QED  BY <1>2, <1>3, <1>4, <1>5, <1>6, <1>7, <1>9 DEF ConnectionInv, TypeOK

\* The process goes after the thread that uses it.
LEMMA JoinReaderStep == ASSUME ConnectionInv, JoinReader PROVE ConnectionInv'
<1>1. mutex = Main /\ sending = None
  BY ZenonT(30), PlacesAre DEF ConnectionInv, LockInv, WritesUnderMutex, Holding, JoinReader
<1>2. ConnectionOK'
  BY ZenonT(30), <1>1 DEF ConnectionInv, TypeOK, ConnectionOK, JoinReader, request_, setup, server
<1>3. RequestOK'
  BY <1>1 DEF ConnectionInv, TypeOK, RequestOK, JoinReader, request_, setup, server
<1>4. ThreadsOK'
  BY <1>1, GotoMoves, PlacesAre DEF ConnectionInv, TypeOK, ThreadsOK, JoinReader, request_, setup, server
<1>5. ServerOK'
  BY <1>1 DEF ConnectionInv, TypeOK, ServerOK, JoinReader, request_, setup, server
<1>6. LockInv'
  BY <1>1, Releases, PlacesAre DEF JoinReader, request_, setup, server
<1>7. LifeInv'
  BY <1>1, GotoMoves, PlacesAre DEF ConnectionInv, LifeInv, JoinReader, request_, setup, server
<1>8. \A u \in Threads : pc'[u] # "map"
  BY <1>1, NobodyMaps, PlacesAre DEF JoinReader, request_, setup, server
<1>9. AnswerInv'
  BY ZenonT(30), <1>1, <1>8, LineTypes DEF ConnectionInv, AnswerInv, JoinReader, request_, setup, server
<1> QED  BY <1>2, <1>3, <1>4, <1>5, <1>6, <1>7, <1>9 DEF ConnectionInv, TypeOK

\* A connection that has ended leaves nothing.
LEMMA DestroyStep == ASSUME ConnectionInv, Destroy PROVE ConnectionInv'
<1>1. mutex = None /\ sending = None /\ pc[Main] = "erase" /\ pc[Main] \notin Holding
  BY ZenonT(30) DEF ConnectionInv, LockInv, Holding, Destroy
<1>2. ConnectionOK'
  <2>1. buf' \in Seq(ServerLines) /\ nextId' \in Nat /\ reader' = "none" /\ doc' = None
    BY DEF Destroy
  <2>2. object' \in BOOLEAN /\ dead' \in BOOLEAN /\ stop' \in BOOLEAN /\ UNCHANGED <<mutex, process>>
    BY ZenonT(30) DEF Destroy
  <2> QED  BY <2>1, <2>2 DEF ConnectionInv, TypeOK, ConnectionOK
<1>3. RequestOK'
  BY ZenonT(30), <1>1 DEF ConnectionInv, TypeOK, RequestOK, Destroy, request_, setup, server
<1>4. ThreadsOK'
  BY <1>1, GotoMoves, PlacesAre, ConstantsOK DEF ConnectionInv, TypeOK, ThreadsOK, Destroy, request_, setup, server
<1>5. ServerOK'
  <2>1. fromServer' \in Seq(ServerLines) /\ stdout' = "open"
    BY DEF Destroy
  <2>2. stuck' \in BOOLEAN /\ UNCHANGED <<running, toServer, working>>
    BY ZenonT(30) DEF Destroy
  <2> QED  BY <2>1, <2>2 DEF ConnectionInv, TypeOK, ServerOK
<1>6. LockInv'
  BY <1>1, DoesWithout, PlacesAre DEF Destroy, request_, setup, server
<1>7. LifeInv'
  BY <1>1, GotoMoves, PlacesAre DEF ConnectionInv, LifeInv, Destroy, request_, setup, server
<1>8. \A u \in Threads : pc'[u] # "map"
  BY <1>1, NobodyMaps, PlacesAre DEF Destroy, request_, setup, server
<1>9. AnswerInv'
  BY <1>1, <1>8, LineTypes DEF ConnectionInv, AnswerInv, Destroy, request_, setup, server
<1> QED  BY <1>2, <1>3, <1>4, <1>5, <1>6, <1>7, <1>9 DEF ConnectionInv, TypeOK

\* The clock.
LEMMA DeadlinePassesStep == ASSUME ConnectionInv, DeadlinePasses PROVE ConnectionInv'
<1>1. UNCHANGED <<object, mutex, process, dead, nextId, buf, doc, reader, stop, method, reqId, sending, pc,
                  advertised, page, seen, registered, running, toServer, fromServer, stdout, working, stuck>>
      /\ late' = TRUE
  BY DEF DeadlinePasses, setup, server
<1>2. TypeOK'
  BY <1>1 DEF ConnectionInv, TypeOK, ConnectionOK, RequestOK, ThreadsOK, ServerOK
<1>3. LockInv'
  BY <1>1, MutexKept
<1>4. LifeInv' /\ AnswerInv'
  BY <1>1 DEF ConnectionInv, LifeInv, AnswerInv
<1> QED  BY <1>2, <1>3, <1>4 DEF ConnectionInv

\* The stderr thread ends by itself.
LEMMA drain_stderrStep == ASSUME ConnectionInv, drain_stderr PROVE ConnectionInv'
<1>1. UNCHANGED <<object, mutex, process, dead, nextId, buf, doc, stop, method, reqId, sending, late, pc,
                  advertised, page, seen, registered, running, toServer, fromServer, stdout, working, stuck>>
      /\ reader = "running" /\ reader' = "done"
  BY DEF drain_stderr, request_, setup, server
<1>2. TypeOK'
  BY <1>1 DEF ConnectionInv, TypeOK, ConnectionOK, RequestOK, ThreadsOK, ServerOK
<1>3. LockInv'
  BY <1>1, MutexKept
<1>4. LifeInv'
  BY <1>1 DEF ConnectionInv, LifeInv
<1>5. AnswerInv'
  BY <1>1 DEF ConnectionInv, AnswerInv
<1> QED  BY <1>2, <1>3, <1>4, <1>5 DEF ConnectionInv

\* The server does as it likes with its ends of the pipes.
LEMMA ServerStep == ASSUME ConnectionInv, Server PROVE ConnectionInv'
<1>1. UNCHANGED <<object, mutex, process, dead, nextId, buf, doc, reader, stop, method, reqId, sending, late,
                  pc, advertised, page, seen, registered, stuck>>
  BY DEF Server, request_, setup
<1>2. running' \in BOOLEAN /\ (running' => running)
  BY ZenonT(30) DEF Server, ServerReads, ServerAnswers, ServerTalks, ServerFallsSilent,
     ServerExits, ConnectionInv, TypeOK, ServerOK
<1>3. /\ toServer' \in Seq(ClientLines) /\ fromServer' \in Seq(ServerLines) /\ working' \subseteq Nat
      /\ stdout' \in {"open", "closed", "endless"}
  <2>1. /\ stdout \in {"open", "closed", "endless"}
        /\ toServer \in Seq(ClientLines) /\ fromServer \in Seq(ServerLines) /\ working \subseteq Nat
    BY DEF ConnectionInv, TypeOK, ServerOK
  <2>2. CASE ServerReads
    <3>1. Head(toServer) \in ClientLines /\ Tail(toServer) \in Seq(ClientLines)
      BY <2>1, <2>2 DEF ServerReads
    <3>2. Head(toServer).id \in Nat
      BY <3>1, LineTypes
    <3> QED  BY ZenonT(30), <2>1, <2>2, <3>1, <3>2 DEF ServerReads
  <2>3. CASE ServerAnswers
    BY <2>1, <2>3, LineTypes DEF ServerAnswers
  <2>4. CASE ServerTalks
    <3>1. PICK kind \in Chatter : fromServer' = Append(fromServer, Line(kind, 0))
      BY <2>4 DEF ServerTalks
    <3>2. Line(kind, 0) \in ServerLines
      BY ZenonT(30), ConstantsOK, LineTypes
    <3> QED  BY <2>1, <2>4, <3>1, <3>2 DEF ServerTalks
  <2>5. CASE ServerExits
    BY <2>1, <2>5 DEF ServerExits
  <2>6. CASE ServerFallsSilent
    <3>1. fromServer' \in {fromServer, << >>} /\ << >> \in Seq(ServerLines)
      BY <2>6 DEF ServerFallsSilent
    <3> QED  BY ZenonT(30), <2>1, <2>6, <3>1 DEF ServerFallsSilent
  <2> QED  BY <2>2, <2>3, <2>4, <2>5, <2>6 DEF Server
<1>4. TypeOK'
  BY <1>1, <1>2, <1>3 DEF ConnectionInv, TypeOK, ConnectionOK, RequestOK, ThreadsOK, ServerOK
<1>5. LockInv'
  BY <1>1, MutexKept
<1>6. LifeInv'
  BY <1>1, <1>2 DEF ConnectionInv, LifeInv
<1>7. AnswerInv'
  BY <1>1 DEF ConnectionInv, AnswerInv
<1> QED  BY <1>4, <1>5, <1>6, <1>7 DEF ConnectionInv

\* Before the first connection there is nothing.
LEMMA InitConnectionInv == Init => ConnectionInv
<1> SUFFICES ASSUME Init PROVE ConnectionInv
  OBVIOUS
<1>1. ConnectionOK
  <2>1. buf \in Seq(ServerLines) /\ nextId \in Nat /\ reader = "none" /\ doc = None /\ mutex = None
    BY DEF Init
  <2>2. object \in BOOLEAN /\ process \in BOOLEAN /\ dead \in BOOLEAN /\ stop \in BOOLEAN
    BY ZenonT(30) DEF Init
  <2> QED  BY <2>1, <2>2 DEF ConnectionOK
<1>2. RequestOK
  BY ZenonT(30) DEF Init, RequestOK
<1>3. ThreadsOK
  <2>1. pc \in [Threads -> Places] /\ page \in 0 .. MaxPages /\ seen \subseteq Cursors
    BY ConstantsOK, PlacesAre DEF Init
  <2>2. registered \in BOOLEAN /\ advertised \in BOOLEAN
    BY ZenonT(30) DEF Init
  <2> QED  BY <2>1, <2>2 DEF ThreadsOK
<1>4. ServerOK
  <2>1. /\ toServer \in Seq(ClientLines) /\ fromServer \in Seq(ServerLines) /\ working \subseteq Nat
        /\ stdout = "open"
    BY DEF Init
  <2>2. running \in BOOLEAN /\ stuck \in BOOLEAN
    BY ZenonT(30) DEF Init
  <2> QED  BY <2>1, <2>2 DEF ServerOK
<1>5. LockInv
  BY ConstantsOK, PlacesAre DEF Init, LockInv, WritesUnderMutex, Holding
<1>6. LifeInv
  BY PlacesAre DEF Init, LifeInv
<1>7. AnswerInv
  BY DEF Init, AnswerInv
<1> QED  BY <1>1, <1>2, <1>3, <1>4, <1>5, <1>6, <1>7 DEF ConnectionInv, TypeOK

\* Every step of the client and of the server keeps the invariant.
LEMMA ConnectionStep == ConnectionInv /\ [Next]_vars => ConnectionInv'
<1> SUFFICES ASSUME ConnectionInv, [Next]_vars PROVE ConnectionInv'
  OBVIOUS
<1>1. ASSUME NEW t \in Threads, Exchange(t) PROVE ConnectionInv'
  BY <1>1, LineSentStep, LineNotSentStep, ReadDataStep, MarkDeadStep, TimesOutStep, ProcessLineStep
     DEF Exchange, ReadClosed, LineTooLong
<1>2. CASE start \/ disconnect_mcp_server
  BY <1>2, startStep, disconnect_mcp_serverStep
<1>3. CASE MainStep
  BY <1>1, <1>3, PlacesAre, InitializedStep, list_toolsStep, ListedStep, RegisterStep, shutdownStep,
     terminateStep, JoinReaderStep, DestroyStep DEF MainStep
<1>4. CASE \E t \in Callers : remote_tool_callback(t) \/ CallStep(t)
  BY <1>1, <1>4, PlacesAre, remote_tool_callbackStep, call_toolStep, map_call_resultStep DEF CallStep
<1>5. CASE DeadlinePasses \/ drain_stderr \/ Server
  BY <1>5, DeadlinePassesStep, drain_stderrStep, ServerStep
<1>6. CASE UNCHANGED vars
  <2>1. TypeOK'
    <3>1. ConnectionOK'
      BY <1>6 DEF vars, ConnectionInv, TypeOK, ConnectionOK
    <3>2. RequestOK'
      BY <1>6 DEF vars, request_, ConnectionInv, TypeOK, RequestOK
    <3>3. ThreadsOK'
      BY <1>6 DEF vars, setup, ConnectionInv, TypeOK, ThreadsOK
    <3>4. ServerOK'
      BY <1>6 DEF vars, server, ConnectionInv, TypeOK, ServerOK
    <3> QED  BY <3>1, <3>2, <3>3, <3>4 DEF TypeOK
  <2>2. LockInv'
    BY <1>6, MutexKept DEF vars, request_
  <2>3. LifeInv'
    BY <1>6 DEF vars, request_, setup, server, ConnectionInv, LifeInv
  <2>4. AnswerInv'
    BY <1>6 DEF vars, request_, setup, server, ConnectionInv, AnswerInv
  <2> QED  BY <2>1, <2>2, <2>3, <2>4 DEF ConnectionInv
<1> QED  BY <1>2, <1>3, <1>4, <1>5, <1>6 DEF Next

\* ConnectionInv holds in every state of the client.
THEOREM ConnectionInvariance == Spec => []ConnectionInv
  BY InitConnectionInv, ConnectionStep, PTL DEF Spec

\* A request goes on with the answer to itself, whatever the server sends and
\* however late, and whichever of the callers waits: map_call_result and
\* list_tools read the line that carries the id of their own request.
THEOREM RepliesAreTheirOwn == Spec => []RepliesAreOwn
<1>1. ConnectionInv => RepliesAreOwn
  <2>1. "map" \in Holding
    BY DEF Holding
  <2> QED  BY ZenonT(30), <2>1 DEF ConnectionInv, LockInv, AnswerInv, RepliesAreOwn
<1> QED  BY ConnectionInvariance, <1>1, PTL

\* Whatever way a connection ends, and a start that fails half way: the stderr
\* thread has its process, a tool that is offered has its server, and once Main is
\* back neither the process nor the thread nor a tool is left (~McpServer).
THEOREM LifetimesAreOrdered == Spec => []Lifetimes
<1>1. ConnectionInv => Lifetimes
  BY DEF ConnectionInv, TypeOK, ConnectionOK, ThreadsOK, ServerOK, LifeInv, Lifetimes, StderrHasProcess,
         NothingIsLeft, ToolsHaveServer
<1> QED  BY ConnectionInvariance, <1>1, PTL

\* Only send_line writes, and besides it only the end of a connection and a
\* closed pipe make it dead.
LEMMA OthersLeaveTheConnection ==
    ASSUME ConnectionInv, Next,
           \A t \in Threads : ~(LineSent(t) \/ LineNotSent(t) \/ ReadClosed(t) \/ LineTooLong(t))
    PROVE  Len(toServer') <= Len(toServer) /\ (dead' /\ process' => dead)
<1>1. toServer \in Seq(ClientLines)
  BY DEF ConnectionInv, TypeOK, ServerOK
<1>2. ASSUME NEW t \in Threads, \/ \E n \in 1 .. Backlog : ReadData(t, n)
                                \/ TimesOut(t) \/ ProcessLine(t)
      PROVE  UNCHANGED <<toServer, dead>>
  BY <1>2, Zenon DEF ReadData, TimesOut, ProcessLine, server
<1>3. ASSUME start \/ disconnect_mcp_server \/ Initialized \/ list_tools \/ Register \/ shutdown
             \/ \E cursor \in Cursors \cup {None} : Listed(cursor)
      PROVE  UNCHANGED <<toServer, dead>>
  BY <1>3, Zenon DEF start, disconnect_mcp_server, Initialized, list_tools, Register, shutdown, Listed, server
<1>4. ASSUME NEW t \in Callers, remote_tool_callback(t) \/ call_tool(t) \/ map_call_result(t)
      PROVE  UNCHANGED <<toServer, dead>>
  BY <1>4, Zenon DEF remote_tool_callback, call_tool, map_call_result, server
<1>5. ASSUME DeadlinePasses \/ drain_stderr
      PROVE  UNCHANGED <<toServer, dead>>
  BY <1>5, Zenon DEF DeadlinePasses, drain_stderr, server
<1>6. CASE terminate
  BY <1>1, <1>6 DEF terminate
<1>7. CASE JoinReader \/ Destroy
  BY <1>1, <1>7 DEF JoinReader, Destroy, server
<1>8. CASE Server
  BY <1>1, <1>8 DEF Server, ServerReads, ServerAnswers, ServerTalks, ServerFallsSilent, ServerExits
<1>9. CASE UNCHANGED <<toServer, dead>>
  BY <1>1, <1>9
<1> QED
  BY <1>2, <1>3, <1>4, <1>5, <1>6, <1>7, <1>8, <1>9, PlacesAre DEF Next, MainStep, CallStep, Exchange

\* What is written after a write that gave up is no request, and a connection is
\* given up only when the server has exited, took no line or can send none, with
\* no answer left unread that is waited for (send_line, request).
THEOREM ConnectionIsExact == Spec => ConnectionExact
<1>1. ConnectionInv /\ Next => RequestsStartOnNewLines /\ DiesForCause
  <2> SUFFICES ASSUME ConnectionInv, Next PROVE RequestsStartOnNewLines /\ DiesForCause
    OBVIOUS
  <2>0. toServer \in Seq(ClientLines)
    BY DEF ConnectionInv, TypeOK, ServerOK
  <2>1. CASE \A t \in Threads : ~(LineSent(t) \/ LineNotSent(t) \/ ReadClosed(t) \/ LineTooLong(t))
    <3>1. Len(toServer') <= Len(toServer) /\ (dead' /\ process' => dead)
      BY <2>1, OthersLeaveTheConnection
    <3>2. ~(Len(toServer') > Len(toServer))
      BY <2>0, <3>1
    <3> QED  BY <3>1, <3>2 DEF RequestsStartOnNewLines, DiesForCause
  <2>2. ASSUME NEW t \in Threads, LineSent(t) PROVE RequestsStartOnNewLines /\ DiesForCause
    <3>1. sending \in ClientLines /\ sending # None
      BY <2>2 DEF LineSent, ConnectionInv, TypeOK, RequestOK, LockInv, WritesUnderMutex
    <3>2. toServer'[Len(toServer')] = sending
      BY <2>0, <2>2, <3>1 DEF LineSent
    <3>3. UNCHANGED dead
      BY <2>2 DEF LineSent
    <3> QED  BY ZenonT(30), <3>1, <3>2, <3>3 DEF RequestsStartOnNewLines, DiesForCause, ConnectionInv, AnswerInv
  <2>3. ASSUME NEW t \in Threads, LineNotSent(t) PROVE RequestsStartOnNewLines /\ DiesForCause
    <3>1. mutex = t /\ \A u \in Threads : pc[u] # "wait"
      BY ZenonT(30), <2>3 DEF LineNotSent, ConnectionInv, LockInv, WritesUnderMutex, Holding
    <3>2. UNCHANGED toServer /\ (~running \/ stuck')
      BY ZenonT(30), <2>3 DEF LineNotSent, server
    <3>3. ~(Len(toServer') > Len(toServer))
      BY <2>0, <3>2
    <3> QED  BY ZenonT(30), <3>1, <3>2, <3>3 DEF RequestsStartOnNewLines, DiesForCause
  <2>4. ASSUME NEW t \in Threads, ReadClosed(t) \/ LineTooLong(t)
        PROVE  RequestsStartOnNewLines /\ DiesForCause
    <3>1. (~running \/ stdout # "open") /\ buf = << >> /\ fromServer = << >> /\ UNCHANGED toServer
      BY <2>4 DEF ReadClosed, LineTooLong, mark_dead, Waits, Closed, server
    <3> QED  BY <2>0, <3>1 DEF RequestsStartOnNewLines, DiesForCause
  <2> QED  BY <2>1, <2>2, <2>3, <2>4
<1> QED  BY ConnectionInvariance, <1>1, PTL DEF Spec, ConnectionExact
=============================================================================
