----------------------------- MODULE RunEvents -----------------------------
(***************************************************************************)
(* The event log of one graph thread: how the events that run_graph and    *)
(* resume_graph append to run.events reach the checkpointer's log, one     *)
(* batch with every checkpoint write (write_checkpoint and finish in       *)
(* src/src/core/graph/graph_executor.cpp).  Events are numbered in the     *)
(* order in which they are logged; a checkpoint is only what may fail      *)
(* before the batch that goes with it.                                     *)
(***************************************************************************)
EXTENDS Naturals, Sequences, FiniteSets

CONSTANTS
    MaxEvents,  \* bound on the events of the thread
    Capacity,   \* jobs the Async writer can have outstanding
    Happens     \* what goes wrong in this model: a subset of {"put", "crash"}

VARIABLES
    logged,     \* events logged so far in run.events, over all calls
    persisted,  \* RunCtx::persisted_events
    pc,         \* where the call is: "idle", "run", "append" or "finish"
    dur,        \* run.durability
    queue,      \* jobs of the Async writer, oldest first: events, or none for a put
    log,        \* the thread's stored event log
    crashed,    \* history: events that a crash took with it
    written,    \* history: the last write_checkpoint on the calling thread succeeded
    refused     \* history: some write of the thread failed

vars == <<logged, persisted, pc, dur, queue, log, crashed, written, refused>>

Batch(first, last) == [i \in 1 .. (last + 1 - first) |-> first + i - 1]

Init ==
    /\ logged = 0 /\ persisted = 0
    /\ pc = "idle" /\ dur = "Exit"
    /\ queue = << >> /\ log = << >>
    /\ crashed = {} /\ written = TRUE /\ refused = FALSE

-----------------------------------------------------------------------------
\* run_graph, resume_graph: earlier calls have stored the events so far.
Call(d) ==
    /\ pc = "idle" /\ logged < MaxEvents
    /\ pc' = "run" /\ dur' = d
    /\ persisted' = logged
    /\ UNCHANGED <<logged, queue, log, crashed, written, refused>>

\* log_event, by drive or by a branch's chain after the join.
Emit ==
    /\ pc = "run" /\ logged < MaxEvents
    /\ logged' = logged + 1
    /\ UNCHANGED <<persisted, pc, dur, queue, log, crashed, written, refused>>

\* The run is over, in one way or another.
EndRun ==
    /\ pc = "run"
    /\ pc' = "finish"
    /\ UNCHANGED <<logged, persisted, dur, queue, log, crashed, written, refused>>

\* write_checkpoint logs its own Checkpoint event and takes the batch.
TakeBatch ==
    /\ logged' = logged + 1
    /\ persisted' = logged + 1

\* The events logged since the last batch, the Checkpoint event included.
Fresh == Batch(persisted + 1, logged + 1)

\* The checkpoint after a node, through the Async writer: two jobs, and the run
\* waits for room before each of them.
PutAsync ==
    /\ pc = "run" /\ dur = "Async" /\ logged < MaxEvents
    /\ Len(queue) < Capacity
    /\ queue' = Append(queue, << >>)
    /\ pc' = "append"
    /\ UNCHANGED <<logged, persisted, dur, log, crashed, written, refused>>

AppendAsync ==
    /\ pc = "append"
    /\ Len(queue) < Capacity
    /\ TakeBatch
    /\ queue' = Append(queue, Fresh)
    /\ pc' = "run"
    /\ UNCHANGED <<dur, log, crashed, written, refused>>

\* put, then append_events, on the calling thread.  Either can fail.
PutThenAppend(next) ==
    \/ /\ log' = log \o Fresh /\ written' = TRUE /\ pc' = next
       /\ UNCHANGED refused
    \/ /\ "put" \in Happens /\ log' = log /\ written' = FALSE /\ refused' = TRUE
       /\ pc' = IF next = "run" THEN "finish" ELSE next

WriteSync ==
    /\ pc = "run" /\ dur = "Sync" /\ logged < MaxEvents
    /\ TakeBatch
    /\ PutThenAppend("run")
    /\ UNCHANGED <<dur, queue, crashed>>

\* The writer thread runs its oldest job; a job that fails is not repeated.
Writer ==
    /\ queue # << >>
    /\ queue' = Tail(queue)
    /\ \/ log' = log \o Head(queue) /\ UNCHANGED refused
       \/ "put" \in Happens /\ log' = log /\ refused' = TRUE
    /\ UNCHANGED <<logged, persisted, pc, dur, crashed, written>>

\* finish: flush, then the final checkpoint and the rest of the events.
finish ==
    /\ pc = "finish"
    /\ queue = << >>
    /\ TakeBatch
    /\ PutThenAppend("idle")
    /\ UNCHANGED <<dur, queue, crashed>>

\* The process dies; the next call runs in another one.
Crash ==
    /\ "crash" \in Happens /\ pc # "idle"
    /\ pc' = "idle" /\ queue' = << >>
    /\ crashed' = {e \in 1 .. logged : \A i \in DOMAIN log : log[i] # e}
    /\ UNCHANGED <<logged, persisted, dur, log, written, refused>>

\* list_graph_events reads the log.
list_graph_events == pc = "idle" /\ UNCHANGED vars

Next ==
    \/ list_graph_events
    \/ \E d \in {"Exit", "Async", "Sync"} : Call(d)
    \/ Emit \/ EndRun \/ PutAsync \/ AppendAsync \/ WriteSync \/ Writer \/ finish \/ Crash

Spec == Init /\ [][Next]_vars

-----------------------------------------------------------------------------
(* Properties *)

TypeOK ==
    /\ logged \in Nat /\ persisted \in 0 .. logged
    /\ pc \in {"idle", "run", "append", "finish"} /\ dur \in {"Exit", "Async", "Sync"}
    /\ queue \in Seq(Seq(Nat)) /\ Len(queue) <= Capacity
    /\ log \in Seq(Nat)
    /\ crashed \subseteq 1 .. logged /\ written \in BOOLEAN /\ refused \in BOOLEAN

\* The stored log never repeats an event and never has two in the wrong order,
\* whatever fails: "in order" of graph.md:397.
LogInOrder == \A i, j \in DOMAIN log : i < j => log[i] < log[j]

\* "after run_graph / resume_graph / fork_graph_run returns, list_graph_events
\* returns every event of every call on the thread, in order" (graph.md:397),
\* less what a crash took, when the final write of the call succeeded.
LogComplete ==
    pc = "idle" /\ written => {log[i] : i \in DOMAIN log} = (1 .. logged) \ crashed

\* As long as no write of the thread was refused, that is so: neither a change
\* of durability, nor the two jobs of an Async checkpoint, nor a crash and a
\* resume make write_checkpoint skip an event or store one twice.
LogCompleteUnlessRefused == ~refused => LogComplete

\* The stored log is what was logged: in order, and complete unless refused.
LogExact == TypeOK /\ LogInOrder /\ LogCompleteUnlessRefused
=============================================================================
