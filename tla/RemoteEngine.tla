---------------------------- MODULE RemoteEngine ----------------------------
(***************************************************************************)
(* The core's side of an out-of-process engine                             *)
(* (src/src/core/engines/engine_remote.cpp), composed with the host it     *)
(* talks to (EngineHost). Several callers share one host: each has a call  *)
(* slot, and one of the callers that wait, the reader, reads the pipe and  *)
(* hands the others their frames. The reader also forwards cancel requests *)
(* and kills a host that ignores one or misses a deadline; a host that     *)
(* goes down fails every call in flight on it and is restarted by the next *)
(* call.                                                                   *)
(*                                                                         *)
(* One action is one critical section of RemoteEngine::mutex, or one piece *)
(* of work between two of them (encoding and writing the request, reading  *)
(* the pipe, running the callbacks, copying the response out). A caller    *)
(* has one slot at a time, so slots are indexed by caller. Request         *)
(* segments, stderr forwarding and the texts of errors are left out.       *)
(***************************************************************************)
EXTENDS EngineHost

CONSTANTS
    Callers,      \* the threads that call the engine
    None,         \* no caller
    MaxRestarts,  \* RemoteOptions::max_restarts
    MaxDeaths     \* bound: a start fails only while fewer hosts went down

VARIABLES
    child,        \* the core has a host (child is not null)
    generation,   \* bumped whenever the host goes down
    reader,       \* the caller reading the pipe, or None (reader_active)
    pc,           \* where each caller is: see PC
    slot,         \* its RemoteCallSlot
    asked,        \* its request's cancel flag has been set
    serial,       \* the caller that holds serial_mutex, or None
    nextId,       \* next_id
    restarts,     \* restarts counted in the last minute
    skip,         \* skip_restart_count
    mapped        \* response_segments: names of the segments mapped here

coreVars == <<child, generation, reader, pc, slot, asked, serial, nextId, restarts,
              skip, mapped>>
vars == <<scene, hostVars, coreVars>>

\* "encode": the slot is taken and the request not written yet; "top": about
\* to take the mutex in wait(); "sleep": in cv.wait; "read": in the pipe read;
\* "process": in the callbacks; "map": has a final frame; "hold": remote_run
\* has returned, the response is being copied; "release": failed, in exchange.
PC == {"idle", "encode", "top", "sleep", "read", "process", "map", "hold", "release"}

NoSlot == [id |-> 0, gen |-> -1, kind |-> "none", cancel_sent |-> FALSE,
           final_queued |-> FALSE, failed |-> "no", late |-> FALSE, over |-> FALSE,
           inbox |-> << >>, work |-> << >>, got |-> << >>, seg |-> 0]

Finals == {"Response", "Error", "Count", "Done", "Garbled"}

Init ==
    /\ HostInit(TRUE)
    /\ child = TRUE
    /\ generation = 0
    /\ reader = None
    /\ pc = [c \in Callers |-> "idle"]
    /\ slot = [c \in Callers |-> NoSlot]
    /\ asked = [c \in Callers |-> FALSE]
    /\ serial = None
    /\ nextId = 1
    /\ restarts = 0
    /\ skip = FALSE
    /\ mapped = {}

hostRest == <<up, runq, ctlq, running, flagged, idle, loose, segments>>
lifeVars == <<child, generation, restarts, skip>>

-----------------------------------------------------------------------------
(* The host goes down. *)

InFlight(s) == s.id # 0 /\ s.gen = generation /\ ~s.final_queued /\ s.failed = "no"

\* fail_all: every call in flight on this host fails with EngineCrashed, the
\* one that made the core kill it (d) with `code`. The others keep their frame.
fail_all(sl, d, code) ==
    [e \in Callers |->
       IF InFlight(sl[e])
       THEN [sl[e] EXCEPT !.failed = IF e = d THEN code ELSE "crashed"]
       ELSE sl[e]]

\* wake_waiters.
Woken(p) == [e \in Callers |-> IF p[e] = "sleep" THEN "top" ELSE p[e]]

\* reap: the child is released, its segments are unmapped and swept.
reap ==
    /\ child' = FALSE
    /\ generation' = generation + 1
    /\ mapped' = {}
    /\ HostReset(FALSE)

-----------------------------------------------------------------------------
(* wait(). A record st holds what the critical section has changed so far. *)

Now == [slot |-> slot, pc |-> pc, reader |-> reader, toHost |-> toHost,
        toCore |-> toCore, mapped |-> mapped]

Write(st) ==
    /\ slot' = st.slot
    /\ pc' = st.pc
    /\ reader' = st.reader
    /\ toHost' = st.toHost
    /\ toCore' = st.toCore
    /\ mapped' = st.mapped
    /\ UNCHANGED <<hostRest, lifeVars>>

\* child->write_stdin: what is written to a dead process is lost.
Sent(th, frames) == IF child /\ up THEN th \o frames ELSE th

NeedsCancel(d, s) == InFlight(s) /\ asked[d] /\ ~s.cancel_sent

Ignored(s) == InFlight(s) /\ s.cancel_sent /\ s.over
Late(s) == InFlight(s) /\ s.late

\* What service_timers writes to the host: a Cancel for each call whose flag
\* is newly set.
Cancels(sl) ==
    LET ids == SetToSeq({sl[d].id : d \in {e \in Callers : NeedsCancel(e, sl[e])}})
    IN  [i \in DOMAIN ids |-> Frame("Cancel", ids[i])]

\* The reader's pass over the timers when no deadline has passed: cancels are
\* forwarded, then it blocks in the read.
Poll(c, st) ==
    /\ \A d \in Callers : ~Ignored(st.slot[d]) /\ ~Late(st.slot[d])
    /\ Write([st EXCEPT !.slot = [d \in Callers |->
                                   [@[d] EXCEPT !.cancel_sent = @ \/ NeedsCancel(d, st.slot[d])]],
                        !.toHost = Sent(@, Cancels(st.slot)),
                        !.pc[c] = "read",
                        !.reader = c])

\* kill_host by the reader c on behalf of call d; c then finds itself failed.
Kill(c, st, d, code) ==
    /\ slot' = fail_all(st.slot, d, code)
    /\ pc' = [Woken(st.pc) EXCEPT ![c] = "release"]
    /\ reader' = None

\* The reader finds a deadline passed: the cancel grace of d, whose restart is
\* not counted, or the watchdog of d.
KillIgnored(c, st) ==
    \E d \in Callers :
        /\ Ignored(st.slot[d])
        /\ Kill(c, st, d, "cancelled")
        /\ reap
        /\ skip' = TRUE
        /\ UNCHANGED restarts

KillLate(c, st) ==
    \E d \in Callers :
        /\ Late(st.slot[d]) /\ ~Ignored(st.slot[d])
        /\ Kill(c, st, d, "crashed")
        /\ reap
        /\ UNCHANGED <<skip, restarts>>

service_timers(c, st) == Poll(c, st) \/ KillIgnored(c, st) \/ KillLate(c, st)

\* The loop of wait() from its top, with the mutex held: take the frames that
\* are there, else fail, else sleep if someone reads, else become the reader.
Loop(c, st) ==
    LET s == st.slot[c] IN
    \/ /\ s.inbox # << >>
       /\ Write([st EXCEPT !.slot[c].work = s.inbox, !.slot[c].inbox = << >>,
                           !.pc[c] = "process"])
    \/ /\ s.inbox = << >> /\ s.failed # "no"
       /\ Write([st EXCEPT !.pc[c] = "release"])
    \/ /\ s.inbox = << >> /\ s.failed = "no" /\ st.reader # None
       /\ Write([st EXCEPT !.pc[c] = "sleep"])
    \/ /\ s.inbox = << >> /\ s.failed = "no" /\ st.reader = None
       /\ service_timers(c, st)

callVars == <<asked, serial, nextId>>

wait(c) ==
    /\ pc[c] = "top"
    /\ Loop(c, Now)
    /\ UNCHANGED callVars

-----------------------------------------------------------------------------
(* The reader. *)

Accepts(s, f) == s.id = f.id /\ s.gen = generation /\ s.failed = "no"

\* dispatch: each call gets its frames, in arrival order, and is woken. A
\* Response nobody waits for hands its segment back (drop_frame).
dispatch(frames) ==
    LET mine(d) == SelectSeq(frames, LAMBDA f : Accepts(slot[d], f))
        dropped == SelectSeq(frames, LAMBDA f :
                     f.type = "Response" /\ \A d \in Callers : ~Accepts(slot[d], f))
        held == SelectSeq(dropped, LAMBDA f : f.seg # 0)
    IN  [Now EXCEPT
           !.slot = [d \in Callers |->
                       [@[d] EXCEPT !.inbox = @ \o mine(d),
                                    !.final_queued = @ \/ \E f \in ToSet(mine(d)) : f.type \in Finals]],
           !.pc = [d \in Callers |->
                     IF @[d] = "sleep" /\ mine(d) # << >> THEN "top" ELSE @[d]],
           !.toHost = Sent(@, [i \in DOMAIN held |-> Frame("Release", held[i].id)]),
           !.mapped = @ \ {f.retire : f \in ToSet(dropped)},
           !.toCore = SubSeq(@, Len(frames) + 1, Len(@))]

LeaveQuietly(st) == [st EXCEPT !.reader = None]

\* Leaving the reader role: reader_active is cleared and every waiter woken.
Leave(st) == [st EXCEPT !.reader = None, !.pc = Woken(@)]

\* The read returned the first k frames in the pipe, or timed out (k = 0). The
\* caller stays the reader until it has frames of its own.
ReadFrames(c, k) ==
    LET st == dispatch(SubSeq(toCore, 1, k)) IN
    /\ pc[c] = "read"
    /\ k \in 0 .. Len(toCore)
    /\ IF st.slot[c].inbox = << >> THEN service_timers(c, st) ELSE Loop(c, Leave(st))
    /\ UNCHANGED callVars

\* The frames before a malformed one have been handed out, and the host is killed
\* for that one. Calls that have their final frame keep it.
ReadMalformed(c, k) ==
    LET st == dispatch(SubSeq(toCore, 1, k)) IN
    /\ pc[c] = "read"
    /\ "garble" \in Happens /\ up /\ k \in 0 .. Len(toCore)
    /\ slot' = fail_all(st.slot, None, "crashed")
    /\ pc' = [Woken(st.pc) EXCEPT ![c] = IF st.slot[c].inbox = << >> THEN "release" ELSE "top"]
    /\ reader' = None
    /\ reap
    /\ UNCHANGED <<skip, restarts, callVars>>

\* The read returned Closed: host_died.
ReadClosed(c) ==
    /\ pc[c] = "read"
    /\ ~up /\ toCore = << >>
    /\ Kill(c, Now, None, "crashed")
    /\ reap
    /\ UNCHANGED <<skip, restarts, callVars>>

-----------------------------------------------------------------------------
(* The life of a call. *)

\* acquire_slot.
Acquire(c, kind) ==
    /\ slot' = [slot EXCEPT ![c] = [NoSlot EXCEPT !.id = nextId, !.gen = generation,
                                                  !.kind = kind]]
    /\ asked' = [asked EXCEPT ![c] = FALSE]
    /\ nextId' = nextId + 1
    /\ pc' = [pc EXCEPT ![c] = "encode"]

\* remote_run takes serial_mutex unless the engine is CONCURRENT.
TakesSerial(c, kind) ==
    IF kind = "Run" /\ ~Concurrent THEN serial = None /\ serial' = c ELSE serial' = serial

\* exchange with a host that is there.
exchange(c, kind) ==
    /\ pc[c] = "idle" /\ nextId <= scene.calls
    /\ child
    /\ TakesSerial(c, kind)
    /\ Acquire(c, kind)
    /\ UNCHANGED <<hostVars, lifeVars, reader, mapped>>

\* ensure_running: a restart is counted unless the core itself killed the host
\* after a cancel.
CountRestart ==
    /\ skip \/ restarts < MaxRestarts
    /\ restarts' = IF skip THEN restarts ELSE restarts + 1
    /\ skip' = FALSE

\* exchange when the host is down: start() succeeds, with the mutex held. Also
\* for remote_reset_cache, when the host goes down after it looked.
ExchangeRestarts(c, kind) ==
    /\ pc[c] = "idle" /\ nextId <= scene.calls
    /\ ~child
    /\ TakesSerial(c, kind)
    /\ CountRestart
    /\ child' = TRUE
    /\ HostReset(TRUE)
    /\ Acquire(c, kind)
    /\ UNCHANGED <<generation, reader, mapped>>

\* start() fails: the host dies, cannot load the plugin or cannot create the
\* engine; it is reaped and the call returns the error.
StartFails(c, kind) ==
    /\ pc[c] = "idle" /\ nextId <= scene.calls
    /\ "start" \in Happens /\ generation < MaxDeaths
    /\ ~child
    /\ kind = "Run" /\ ~Concurrent => serial = None
    /\ CountRestart
    /\ reap
    /\ UNCHANGED <<reader, pc, slot, callVars>>

\* The rolling minute moves on and old restarts leave the count.
MinutePasses ==
    /\ restarts > 0
    /\ restarts' \in 0 .. restarts - 1
    /\ UNCHANGED <<hostVars, child, generation, skip, reader, pc, slot, callVars, mapped>>

\* encode, then write_frame to the host the slot was acquired for.
write_frame(c) ==
    /\ pc[c] = "encode"
    /\ toHost' = IF slot[c].gen = generation
                 THEN Sent(toHost, <<Frame(slot[c].kind, slot[c].id)>>) ELSE toHost
    /\ pc' = [pc EXCEPT ![c] = "top"]
    /\ UNCHANGED <<hostRest, toCore, lifeVars, mapped, reader, slot, callVars>>

\* The request exceeds the frame limit: nothing is sent.
EncodeFails(c) ==
    /\ pc[c] = "encode"
    /\ "encode" \in Happens /\ slot[c].kind = "Run"
    /\ pc' = [pc EXCEPT ![c] = "release"]
    /\ UNCHANGED <<hostVars, lifeVars, mapped, reader, slot, callVars>>

ProcessedFinalFirst(s) ==
    LET finals == SelectSeq(s.work, LAMBDA f : f.type \in Finals)
    IN  IF finals # << >> THEN [s EXCEPT !.work = finals]
        ELSE [s EXCEPT !.got = @ \o [i \in DOMAIN s.work |-> s.work[i].n], !.work = << >>]

\* process: the callbacks run for the frames taken from the inbox.
Processed(s) ==
    LET chunks == SelectSeq(s.work, LAMBDA f : f.type = "Chunk")
        finals == SelectSeq(s.work, LAMBDA f : f.type \in Finals)
    IN  [s EXCEPT !.got = @ \o [i \in DOMAIN chunks |-> chunks[i].n], !.work = finals]

\* The final frame was seen: exchange returns. A Run that has a Response goes
\* on to decode it; an Error or the answer to a control call is all there is.
ProcessFinal(c) ==
    LET s == Processed(slot[c]) IN
    /\ pc[c] = "process"
    /\ s.work # << >>
    /\ slot' = [slot EXCEPT ![c] = s]
    /\ IF s.work[1].type \in {"Response", "Garbled"}
       THEN pc' = [pc EXCEPT ![c] = "map"] /\ UNCHANGED serial
       ELSE /\ pc' = [pc EXCEPT ![c] = "hold"]
            /\ serial' = IF serial = c THEN None ELSE serial
    /\ UNCHANGED <<hostVars, lifeVars, mapped, reader, asked, nextId>>

ProcessMore(c) ==
    LET s == Processed(slot[c]) IN
    /\ pc[c] = "process"
    /\ s.work = << >>
    /\ Loop(c, [Now EXCEPT !.slot[c] = s])
    /\ UNCHANGED callVars

\* remote_run returns: serial_mutex is released, the slot is kept.
Return(c) ==
    /\ pc' = [pc EXCEPT ![c] = "hold"]
    /\ serial' = IF serial = c THEN None ELSE serial

\* A segment this core has not mapped yet can be opened only while its host
\* has not been reaped: reap sweeps the names.
Openable(c) == slot[c].gen = generation

\* remote_run maps the response's segment, after forgetting the retired one.
MapResponse(c) ==
    LET f == slot[c].work[1]
        kept == mapped \ {f.retire}
    IN
    /\ pc[c] = "map" /\ f.type = "Response"
    /\ f.seg = 0 \/ f.seg \in kept \/ Openable(c)
    /\ slot' = [slot EXCEPT ![c].seg = f.seg]
    /\ mapped' = kept \cup ({f.seg} \ {0})
    /\ Return(c)
    /\ UNCHANGED <<hostVars, lifeVars, reader, asked, nextId>>

\* Its host was reaped in the meantime: the response is lost (DecodeFailed).
MapFails(c) ==
    LET f == slot[c].work[1]
        kept == mapped \ {f.retire}
    IN
    /\ pc[c] = "map" /\ f.type = "Response"
    /\ f.seg # 0 /\ f.seg \notin kept /\ ~Openable(c)
    /\ slot' = [slot EXCEPT ![c].failed = "unmapped"]
    /\ mapped' = kept
    /\ Return(c)
    /\ UNCHANGED <<hostVars, lifeVars, reader, asked, nextId>>

\* malformed: kills the host that sent the frame, unless someone is reading.
MayKill(c) == child /\ slot[c].gen = generation /\ reader = None

malformed(c) ==
    /\ pc[c] = "map" /\ slot[c].work[1].type = "Garbled"
    /\ serial' = IF serial = c THEN None ELSE serial
    /\ IF MayKill(c)
       THEN /\ slot' = fail_all(slot, None, "crashed")
            /\ pc' = [Woken(pc) EXCEPT ![c] = "hold"]
            /\ reap
       ELSE /\ pc' = [pc EXCEPT ![c] = "hold"]
            /\ UNCHANGED <<slot, hostVars, child, generation, mapped>>
    /\ UNCHANGED <<restarts, skip, reader, asked, nextId>>

\* release_slot, from remote_release or a failed exchange: the host may reuse
\* the segment.
release_slot(c) ==
    /\ pc[c] \in {"hold", "release"}
    /\ toHost' = IF slot[c].seg # 0 /\ slot[c].gen = generation
                 THEN Sent(toHost, <<Frame("Release", slot[c].id)>>) ELSE toHost
    /\ slot' = [slot EXCEPT ![c] = NoSlot]
    /\ asked' = [asked EXCEPT ![c] = FALSE]
    /\ pc' = [pc EXCEPT ![c] = "idle"]
    /\ serial' = IF serial = c THEN None ELSE serial
    /\ UNCHANGED <<hostRest, toCore, lifeVars, mapped, reader, nextId>>

-----------------------------------------------------------------------------
(* Time and the user, as far as the reader looks: at calls in flight. *)

request_cancel(c) ==
    /\ "cancel" \in Happens
    /\ InFlight(slot[c]) /\ slot[c].kind = "Run" /\ ~asked[c]
    /\ asked' = [asked EXCEPT ![c] = TRUE]
    /\ UNCHANGED <<hostVars, lifeVars, mapped, reader, pc, slot, serial, nextId>>

DeadlinePasses(c) ==
    /\ "watchdog" \in Happens
    /\ InFlight(slot[c]) /\ ~slot[c].late
    /\ slot' = [slot EXCEPT ![c].late = TRUE]
    /\ UNCHANGED <<hostVars, lifeVars, mapped, reader, pc, callVars>>

GracePasses(c) ==
    /\ InFlight(slot[c]) /\ slot[c].cancel_sent /\ ~slot[c].over
    /\ slot' = [slot EXCEPT ![c].over = TRUE]
    /\ UNCHANGED <<hostVars, lifeVars, mapped, reader, pc, callVars>>

\* remote_stats: an idle engine is only looked at.
remote_stats ==
    /\ \A c \in Callers : pc[c] = "idle"
    /\ UNCHANGED vars

HostStep == HostNext /\ UNCHANGED coreVars

CallStep(c) ==
    \/ write_frame(c) \/ wait(c)
    \/ \E k \in 0 .. Len(toCore) : ReadFrames(c, k)
    \/ \E k \in 0 .. Len(toCore) : ReadMalformed(c, k)
    \/ ReadClosed(c)
    \/ ProcessFinal(c) \/ ProcessMore(c)
    \/ MapResponse(c) \/ MapFails(c) \/ malformed(c)
    \/ release_slot(c)

Next ==
    /\ \/ HostStep \/ MinutePasses \/ remote_stats
       \/ \E c \in Callers : \E kind \in scene.kinds :
             exchange(c, kind) \/ ExchangeRestarts(c, kind) \/ StartFails(c, kind)
       \/ \E c \in Callers :
             \/ CallStep(c) \/ EncodeFails(c) \/ request_cancel(c)
             \/ DeadlinePasses(c) \/ GracePasses(c)
    /\ UNCHANGED scene

Spec == Init /\ [][Next]_vars

-----------------------------------------------------------------------------
(* Properties. *)

FrameTypes == {"Run", "CountTokens", "ResetCache", "Cancel", "Release", "Chunk"} \cup Finals

TypeOK ==
    /\ scene \in Scenes
    /\ up \in BOOLEAN /\ child \in BOOLEAN /\ skip \in BOOLEAN
    /\ \A f \in ToSet(toHost) \cup ToSet(toCore) : f.type \in FrameTypes /\ f.id \in 1 .. scene.calls
    /\ ToSet(runq) \cup DOMAIN running \cup flagged \subseteq 1 .. scene.calls
    /\ idle \in Nat /\ loose \in Nat /\ generation \in Nat /\ nextId \in 1 .. scene.calls + 1
    /\ restarts \in 0 .. MaxRestarts
    /\ mapped \subseteq 1 .. scene.calls
    /\ reader \in Callers \cup {None} /\ serial \in Callers \cup {None}
    /\ pc \in [Callers -> PC]
    /\ asked \in [Callers -> BOOLEAN]
    /\ DOMAIN slot = Callers

\* The pipe is read by one caller at a time, and the host it reads from cannot
\* be released under it: child->read runs without the mutex, so whoever kills
\* the host must be the reader or know that there is none.
ReaderIsSafe ==
    \A c \in Callers :
        /\ pc[c] = "read" <=> reader = c
        /\ pc[c] = "read" => child /\ slot[c].gen = generation

\* Nobody sleeps on its condition variable while the pipe is unattended: a
\* caller that leaves the reader role wakes the others before it goes.
SleepersAreWatched ==
    (\E c \in Callers : pc[c] = "sleep") => reader # None

\* The reader role: safe while it is held, and held while anybody sleeps.
ReaderRole == TypeOK /\ ReaderIsSafe /\ SleepersAreWatched

\* Every frame in the pipe belongs to a call that is waiting for it: ids and
\* generations never let a frame of one call, or of an earlier host, reach
\* another call.
FramesHaveOwners ==
    \A f \in ToSet(toCore) : \E c \in Callers : Accepts(slot[c], f)

\* A run that gets its response has run its callback for every chunk the
\* engine streamed, in order, whoever was reading when they arrived.
StreamComplete ==
    \A c \in Callers :
        pc[c] = "map" /\ slot[c].work[1].type = "Response"
          => slot[c].got = [i \in 1 .. slot[c].work[1].n |-> i]

CancelledCall(s) ==
    \/ s.failed = "cancelled"
    \/ \E f \in ToSet(s.inbox \o s.work) : f.type = "Error" /\ f.status = "cancelled"

\* Cancelled is reported only to a call whose own cancel flag was set; calls
\* that go down with it get EngineCrashed.
CancelledIsOwn ==
    \A c \in Callers :
        CancelledCall(slot[c]) => asked[c]

\* Every frame reaches the call it is for, all of them do, and a call that ends
\* as cancelled was cancelled itself.
FramesReachTheirCall == FramesHaveOwners /\ StreamComplete /\ CancelledIsOwn

\* While a response in shared memory is being read its segment stays with its
\* call: the host neither reuses nor retires it before it is released.
HeldIsBusy ==
    \A c \in Callers :
        pc[c] = "hold" /\ slot[c].seg # 0 /\ slot[c].gen = generation /\ up
          => /\ slot[c].seg \in DOMAIN segments
             /\ segments[slot[c].seg].busy = slot[c].id
             /\ slot[c].seg \in mapped

\* Without AGENT_ENGINE_FLAG_CONCURRENT a run is sent only when no other run is
\* on the host, so its watchdog never counts time spent behind another run.
RunsAreSerial ==
    ~Concurrent =>
       Len(SelectSeq(toHost, LAMBDA f : f.type = "Run")) + Len(runq)
         + Cardinality(DOMAIN running) <= 1

\* The runs that are on the host: none is stuck in its queue, and a serial
\* engine has one.
RunsAreServed == QueuedRunsHaveWorkers /\ RunsAreSerial

\* What engine_remote.hpp says of remote_run: the response's views stay valid
\* (mapped) until remote_release.
HeldStaysMapped ==
    \A c \in Callers : pc[c] = "hold" /\ slot[c].seg # 0 => slot[c].seg \in mapped
=============================================================================
