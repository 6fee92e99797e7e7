----------------------------- MODULE EngineHost -----------------------------
(***************************************************************************)
(* The agent-engine-host process (src/tools/engine-host/engine_host.cpp):  *)
(* one engine plugin served over a pair of pipes. A reader thread takes    *)
(* frames off the input pipe: Run requests go to a pool of workers, the    *)
(* other commands to the main thread, Cancel and Release act at once. Each *)
(* critical section of g_mutex is one action. A frame is a record whose    *)
(* payload is reduced to what the protocol decides on: its type, the       *)
(* request's id and, for a Response, the shared-memory segment it lies in. *)
(*                                                                         *)
(* Create and Shutdown belong to the start and the end of a host, which    *)
(* RemoteEngine takes as one step.                                         *)
(***************************************************************************)
EXTENDS Integers, Sequences, SequencesExt, FiniteSets

CONSTANTS
    MaxWorkers,   \* kMaxConcurrentRuns
    Scenes        \* the engines, calls and mishaps considered: see Scene

VARIABLES
    scene,        \* the Scene of this behaviour, fixed at the start
    up,           \* the host process is running
    toHost,       \* frames written to its stdin and not read yet
    toCore,       \* frames it wrote to stdout and the core has not read yet
    runq,         \* g_run_queue: ids of the runs no worker has taken
    ctlq,         \* g_ctl_queue: frames for the main thread
    running,      \* g_running: id of a run -> chunks it has streamed
    flagged,      \* ids of the jobs whose cancel flag is set
    idle,         \* g_idle_workers
    loose,        \* workers started or done with a run, not waiting yet
    segments      \* g_response_segments: name -> [size, busy], busy 0 if free

hostVars == <<up, toHost, toCore, runq, ctlq, running, flagged, idle, loose, segments>>

\* A Scene has, in `happens`, the mishaps that may occur.
Mishaps == {"fail", "garble", "crash", "encode", "start", "cancel", "watchdog"}

Scene == [concurrent : BOOLEAN,           \* the plugin sets AGENT_ENGINE_FLAG_CONCURRENT
          kinds : SUBSET {"Run", "CountTokens", "ResetCache"},  \* the calls made
          calls : Nat,                    \* bound on the calls made
          chunks : Nat,                   \* bound on the chunks a run streams
          sizes : SUBSET Nat,             \* response sizes; 0 fits the pipe, others need a segment
          happens : SUBSET Mishaps]

Concurrent == scene.concurrent
Happens == scene.happens

\* g_max_workers.
Workers == IF Concurrent THEN MaxWorkers ELSE 1

\* g_workers: every worker waits, is about to, or runs a job.
NumWorkers == idle + loose + Cardinality(DOMAIN running)

Frame(type, id) == [type |-> type, id |-> id]

EmptyFunction == [x \in {} |-> 0]

\* A freshly started host that has answered Create; `alive` FALSE: no host.
HostInit(alive) ==
    /\ scene \in Scenes
    /\ up = alive
    /\ toHost = << >>
    /\ toCore = << >>
    /\ runq = << >>
    /\ ctlq = << >>
    /\ running = EmptyFunction
    /\ flagged = {}
    /\ idle = 0
    /\ loose = 0
    /\ segments = EmptyFunction

HostReset(alive) ==
    /\ up' = alive
    /\ toHost' = << >>
    /\ toCore' = << >>
    /\ runq' = << >>
    /\ ctlq' = << >>
    /\ running' = EmptyFunction
    /\ flagged' = {}
    /\ idle' = 0
    /\ loose' = 0
    /\ segments' = EmptyFunction

-----------------------------------------------------------------------------
(* The reader thread. *)

\* Cancel <id> sets the flag of a run that is queued or running; any other id
\* is ignored.
ReadCancel ==
    /\ up /\ toHost # << >> /\ Head(toHost).type = "Cancel"
    /\ toHost' = Tail(toHost)
    /\ flagged' = IF Head(toHost).id \in DOMAIN running \cup ToSet(runq)
                  THEN flagged \cup {Head(toHost).id}
                  ELSE flagged
    /\ UNCHANGED <<up, toCore, runq, ctlq, running, idle, loose, segments>>

ReadRelease ==
    /\ up /\ toHost # << >> /\ Head(toHost).type = "Release"
    /\ toHost' = Tail(toHost)
    /\ segments' = [n \in DOMAIN segments |->
                      IF segments[n].busy = Head(toHost).id
                      THEN [segments[n] EXCEPT !.busy = 0] ELSE segments[n]]
    /\ UNCHANGED <<up, toCore, runq, ctlq, running, flagged, idle, loose>>

SpawnsWhenNoneIdle == runq = << >> /\ idle = 0 /\ NumWorkers < Workers

\* A worker is started when there are more queued runs than waiting workers.
ReadRunSpawns == Len(runq) + 1 > idle /\ NumWorkers < Workers

ReadRun ==
    /\ up /\ toHost # << >> /\ Head(toHost).type = "Run"
    /\ toHost' = Tail(toHost)
    /\ runq' = Append(runq, Head(toHost).id)
    /\ flagged' = flagged \ {Head(toHost).id}
    /\ loose' = IF ReadRunSpawns THEN loose + 1 ELSE loose
    /\ UNCHANGED <<up, toCore, ctlq, running, idle, segments>>

ReadControl ==
    /\ up /\ toHost # << >> /\ Head(toHost).type \in {"CountTokens", "ResetCache"}
    /\ toHost' = Tail(toHost)
    /\ ctlq' = Append(ctlq, Head(toHost))
    /\ UNCHANGED <<up, toCore, runq, running, flagged, idle, loose, segments>>

-----------------------------------------------------------------------------
(* The workers. *)

Start(id) == id :> 0 @@ running

\* worker_main takes the oldest queued run.
WorkerTakes ==
    /\ up /\ runq # << >>
    /\ \/ loose > 0 /\ loose' = loose - 1 /\ UNCHANGED idle
       \/ idle > 0 /\ idle' = idle - 1 /\ UNCHANGED loose
    /\ running' = Start(Head(runq))
    /\ runq' = Tail(runq)
    /\ UNCHANGED <<up, toHost, toCore, ctlq, flagged, segments>>

WorkerWaits ==
    /\ up /\ runq = << >> /\ loose > 0
    /\ loose' = loose - 1
    /\ idle' = idle + 1
    /\ UNCHANGED <<up, toHost, toCore, runq, ctlq, running, flagged, segments>>

\* on_chunk: the engine streams a piece of its answer.
on_chunk(id) ==
    /\ up /\ id \in DOMAIN running /\ running[id] < scene.chunks
    /\ running' = [running EXCEPT ![id] = @ + 1]
    /\ toCore' = Append(toCore, Frame("Chunk", id) @@ [n |-> running[id] + 1])
    /\ UNCHANGED <<up, toHost, runq, ctlq, flagged, idle, loose, segments>>

AlwaysFree(n) == TRUE

Free(n) == segments[n].busy = 0

\* The segments and the retired name after run_job picked room for `size`
\* bytes for job id: the smallest free segment that is large enough; failing
\* that a fresh one (named after the job), in exchange for any free one.
Placements(id, size) ==
    LET fits == {n \in DOMAIN segments : Free(n) /\ segments[n].size >= size}
        free == {n \in DOMAIN segments : Free(n)}
        without(n) == [m \in DOMAIN segments \ {n} |-> segments[m]]
        fresh == id :> [size |-> size, busy |-> id]
    IN  IF size = 0 THEN {[seg |-> 0, retire |-> 0, all |-> segments]}
        ELSE IF fits # {}
        THEN {[seg |-> n, retire |-> 0, all |-> [segments EXCEPT ![n].busy = id]] :
                n \in {m \in fits : \A k \in fits : segments[m].size <= segments[k].size}}
        ELSE IF free # {}
        THEN {[seg |-> id, retire |-> n, all |-> fresh @@ without(n)] : n \in free}
        ELSE {[seg |-> id, retire |-> 0, all |-> fresh @@ segments]}

Response(id, p) ==
    Frame("Response", id) @@ [seg |-> p.seg, retire |-> p.retire, n |-> running[id]]

Finish(id) ==
    /\ running' = [i \in DOMAIN running \ {id} |-> running[i]]
    /\ flagged' = flagged \ {id}
    /\ loose' = loose + 1

\* run() returned AGENT_OK: its output goes out, large payloads in a segment.
RunSucceeds(id) ==
    /\ up /\ id \in DOMAIN running
    /\ \E size \in scene.sizes : \E p \in Placements(id, size) :
          /\ segments' = p.all
          /\ toCore' = Append(toCore, Response(id, p))
    /\ Finish(id)
    /\ UNCHANGED <<up, toHost, runq, ctlq, idle>>

\* run() failed, or stopped because its cancel flag is set.
RunFails(id) ==
    /\ up /\ id \in DOMAIN running
    /\ \/ id \in flagged
       \/ "fail" \in Happens
    /\ toCore' = Append(toCore, Frame("Error", id) @@
                          [status |-> IF id \in flagged THEN "cancelled" ELSE "failed"])
    /\ Finish(id)
    /\ UNCHANGED <<up, toHost, runq, ctlq, idle, segments>>

\* The answer is not one the core understands.
RunGarbles(id) ==
    /\ up /\ id \in DOMAIN running
    /\ "garble" \in Happens
    /\ toCore' = Append(toCore, Frame("Garbled", id))
    /\ Finish(id)
    /\ UNCHANGED <<up, toHost, runq, ctlq, idle, segments>>

-----------------------------------------------------------------------------
(* The main thread: CountTokens and ResetCache in arrival order. *)

serve ==
    /\ up /\ ctlq # << >>
    /\ ctlq' = Tail(ctlq)
    /\ toCore' = Append(toCore,
                   Frame(IF Head(ctlq).type = "CountTokens" THEN "Count" ELSE "Done",
                         Head(ctlq).id))
    /\ UNCHANGED <<up, toHost, runq, running, flagged, idle, loose, segments>>

\* The plugin crashes, aborts, exits or is killed by the system. What it wrote
\* stays in the pipe.
HostDies ==
    /\ up /\ "crash" \in Happens
    /\ up' = FALSE
    /\ toHost' = << >>
    /\ runq' = << >>
    /\ ctlq' = << >>
    /\ running' = EmptyFunction
    /\ flagged' = {}
    /\ idle' = 0
    /\ loose' = 0
    /\ segments' = EmptyFunction
    /\ UNCHANGED toCore

HostRuns ==
    \/ ReadCancel \/ ReadRelease \/ ReadRun \/ ReadControl
    \/ WorkerTakes \/ WorkerWaits
    \/ \E id \in DOMAIN running : on_chunk(id)
    \/ \E id \in DOMAIN running : RunSucceeds(id)
    \/ \E id \in DOMAIN running : RunFails(id)
    \/ \E id \in DOMAIN running : RunGarbles(id)
    \/ serve

HostNext == HostRuns \/ HostDies

-----------------------------------------------------------------------------

\* "Every queued run gets a worker, up to the engine's limit": a queued run
\* never has to wait for another run to finish while a worker could be
\* started, whatever order runs arrive and workers park in.
QueuedRunsHaveWorkers ==
    Len(runq) <= idle + loose \/ NumWorkers = Workers

=============================================================================
