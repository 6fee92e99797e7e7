----------------------------- MODULE AsyncWriter -----------------------------
(***************************************************************************)
(* The background writer behind GraphDurability::Async (class AsyncWriter, *)
(* src/src/core/graph/graph_checkpointer.cpp): graph runs that share one   *)
(* Checkpointer hand their checkpoints and event batches to a bounded FIFO *)
(* which one thread, started on first use, drains.                         *)
(*                                                                         *)
(* One action is one critical section of mutex_, or one step outside it:   *)
(* the notify_one after enqueue's unlock and the call into the             *)
(* checkpointer.  A thread in a condition variable's wait is in the wait   *)
(* set that its pc names; a notification moves it to the woken pc, from    *)
(* where it takes the mutex and tests its predicate again.                 *)
(***************************************************************************)
EXTENDS Naturals, Sequences, FiniteSets

CONSTANTS
    Runs,       \* graph runs that share the Checkpointer
    Capacity,   \* async_queue_capacity; open_checkpointer turns 0 into 1
    MaxWrites,  \* bound on the writes one run makes
    Refusable   \* the writes the checkpointer may refuse

ASSUME RunsFinite == IsFiniteSet(Runs)
ASSUME CapacityPositive == Capacity \in Nat \ {0}
ASSUME MaxWritesNatural == MaxWrites \in Nat

VARIABLES
    queue,      \* queue_
    inflight,   \* the job loop() popped, as a sequence of at most one
    queued,     \* queued_
    written,    \* written_
    error,      \* error_, as the set with the write it is about, or {}
    stop,       \* stop_
    wpc,        \* writer thread; "none" until started_
    pc,         \* where each run's thread is
    target,     \* flush's target, while the run waits in it
    dpc,        \* the destructor
    accepted,   \* history: writes pushed for each run
    attempted,  \* history: writes whose put returned, in that order
    failed      \* history: refused writes since the last flush that took error_

vars == <<queue, inflight, queued, written, error, stop, wpc, pc, target, dpc,
          accepted, attempted, failed>>

Job == Runs \X (1 .. MaxWrites)

Pending == inflight \o queue

Init ==
    /\ queue = << >> /\ inflight = << >>
    /\ queued = 0 /\ written = 0
    /\ error = {} /\ stop = FALSE
    /\ wpc = "none" /\ dpc = "alive"
    /\ pc = [r \in Runs |-> "idle"]
    /\ target = [r \in Runs |-> 0]
    /\ accepted = [r \in Runs |-> 0]
    /\ attempted = << >> /\ failed = {}

-----------------------------------------------------------------------------
(* Runs *)

\* The predicate of cv_space_.
HasSpace == Len(queue) < Capacity

\* enqueue up to its wait: the thread starts, the queue is full.
EnqueueFull(r) ==
    /\ pc[r] = "idle" /\ dpc = "alive"
    /\ accepted[r] < MaxWrites
    /\ ~HasSpace
    /\ pc' = [pc EXCEPT ![r] = "space"]
    /\ wpc' = IF wpc = "none" THEN "ready" ELSE wpc
    /\ UNCHANGED <<queue, inflight, queued, written, error, stop, target, dpc,
                   accepted, attempted, failed>>

\* A woken run finds the queue full again: another run took the slot.
EnqueueFullAgain(r) ==
    /\ pc[r] = "spaceWoken"
    /\ ~HasSpace
    /\ pc' = [pc EXCEPT ![r] = "space"]
    /\ UNCHANGED <<queue, inflight, queued, written, error, stop, wpc, target,
                   dpc, accepted, attempted, failed>>

\* enqueue's push, with the start of the thread when it did not wait.
Enqueue(r) ==
    /\ \/ pc[r] = "idle" /\ dpc = "alive" /\ accepted[r] < MaxWrites
       \/ pc[r] = "spaceWoken"
    /\ HasSpace
    /\ queue' = Append(queue, <<r, accepted[r] + 1>>)
    /\ queued' = queued + 1
    /\ accepted' = [accepted EXCEPT ![r] = @ + 1]
    /\ wpc' = IF wpc = "none" THEN "ready" ELSE wpc
    /\ pc' = [pc EXCEPT ![r] = "signal"]
    /\ UNCHANGED <<inflight, written, error, stop, target, dpc,
                   attempted, failed>>

\* Mutant of Signal: the notification is forgotten.
SignalNobody(r) ==
    /\ pc[r] = "signal"
    /\ pc' = [pc EXCEPT ![r] = "idle"]
    /\ UNCHANGED <<queue, inflight, queued, written, error, stop, wpc, target,
                   dpc, accepted, attempted, failed>>

\* cv_work_.notify_one, after the unlock.
Signal(r) ==
    /\ pc[r] = "signal"
    /\ pc' = [pc EXCEPT ![r] = "idle"]
    /\ wpc' = IF wpc = "sleep" THEN "ready" ELSE wpc
    /\ UNCHANGED <<queue, inflight, queued, written, error, stop, target, dpc,
                   accepted, attempted, failed>>

\* flush takes its target and has to wait for it.
FlushWait(r) ==
    /\ pc[r] = "idle" /\ dpc = "alive"
    /\ written < queued
    /\ target' = [target EXCEPT ![r] = queued]
    /\ pc' = [pc EXCEPT ![r] = "done"]
    /\ UNCHANGED <<queue, inflight, queued, written, error, stop, wpc, dpc,
                   accepted, attempted, failed>>

FlushWaitAgain(r) ==
    /\ pc[r] = "doneWoken"
    /\ written < target[r]
    /\ pc' = [pc EXCEPT ![r] = "done"]
    /\ UNCHANGED <<queue, inflight, queued, written, error, stop, wpc, target,
                   dpc, accepted, attempted, failed>>

\* Mutant of FlushReady: flush does not wait for the write in flight.
FlushReadyEarly(r) ==
    \/ pc[r] = "idle" /\ dpc = "alive" /\ written + 1 >= queued
    \/ pc[r] = "doneWoken" /\ written + 1 >= target[r]

FlushReady(r) ==
    \/ pc[r] = "idle" /\ dpc = "alive" /\ written >= queued
    \/ pc[r] = "doneWoken" /\ written >= target[r]

\* flush returns: the error, whoever's write it was, is handed to this caller
\* and cleared; without an error the call that flushed reports success.
FlushReturn(r) ==
    /\ FlushReady(r)
    /\ pc' = [pc EXCEPT ![r] = "idle"]
    /\ target' = [target EXCEPT ![r] = 0]
    /\ error' = {}
    /\ failed' = {}
    /\ UNCHANGED <<queue, inflight, queued, written, stop, wpc, dpc,
                   accepted, attempted>>

-----------------------------------------------------------------------------
(* The writer thread *)

\* loop waits in cv_work_.
WriterSleep ==
    /\ wpc = "ready"
    /\ queue = << >> /\ ~stop
    /\ wpc' = "sleep"
    /\ UNCHANGED <<queue, inflight, queued, written, error, stop, pc, target,
                   dpc, accepted, attempted, failed>>

WriterExit ==
    /\ wpc = "ready"
    /\ queue = << >> /\ stop
    /\ wpc' = "exited"
    /\ UNCHANGED <<queue, inflight, queued, written, error, stop, pc, target,
                   dpc, accepted, attempted, failed>>

\* cv_space_.notify_one: one of the runs that wait for space, if any.
NotifySpace(p) ==
    LET waiters == {r \in Runs : p[r] = "space"} IN
    IF waiters = {} THEN {p}
    ELSE {[p EXCEPT ![r] = "spaceWoken"] : r \in waiters}

\* loop pops the oldest job and drops the mutex to write it.
WriterTake ==
    /\ wpc = "ready"
    /\ queue # << >>
    /\ inflight' = <<Head(queue)>>
    /\ queue' = Tail(queue)
    /\ pc' \in NotifySpace(pc)
    /\ wpc' = "writing"
    /\ UNCHANGED <<queued, written, error, stop, target, dpc,
                   accepted, attempted, failed>>

\* cv_done_.notify_all.
NotifyDone(p) == [r \in Runs |-> IF p[r] = "done" THEN "doneWoken" ELSE p[r]]

\* Mutant of WriterDone: error_ is the result of the last write, not the first
\* failure.
LastResultKept ==
    /\ wpc = "writing"
    /\ attempted' = Append(attempted, Head(inflight))
    /\ inflight' = << >>
    /\ written' = written + 1
    /\ \/ error' = {} /\ UNCHANGED failed
       \/ LET job == Head(inflight) IN
          /\ job \in Refusable
          /\ error' = {job}
          /\ failed' = failed \cup {job}
    /\ pc' = NotifyDone(pc)
    /\ wpc' = "ready"
    /\ UNCHANGED <<queue, queued, stop, target, dpc, accepted>>

\* Mutant of WriterDone: a refused write is tried again, without end.
WriterRetries ==
    /\ wpc = "writing"
    /\ inflight' = << >>
    /\ \/ /\ attempted' = Append(attempted, Head(inflight))
          /\ written' = written + 1
          /\ UNCHANGED queue
       \/ queue' = inflight \o queue /\ UNCHANGED <<attempted, written>>
    /\ pc' = NotifyDone(pc)
    /\ wpc' = "ready"
    /\ UNCHANGED <<queued, error, stop, target, dpc, accepted, failed>>

\* put (or append_events) has returned, with success or not; the first error
\* since the last flush is kept, written_ advances, waiting flushes re-check.
WriterDone ==
    /\ wpc = "writing"
    /\ attempted' = Append(attempted, Head(inflight))
    /\ inflight' = << >>
    /\ written' = written + 1
    /\ \/ UNCHANGED <<error, failed>>
       \/ LET job == Head(inflight) IN
          /\ job \in Refusable
          /\ error' = IF error = {} THEN {job} ELSE error
          /\ failed' = failed \cup {job}
    /\ pc' = NotifyDone(pc)
    /\ wpc' = "ready"
    /\ UNCHANGED <<queue, queued, stop, target, dpc, accepted>>

-----------------------------------------------------------------------------
(* The destructor: runs when the last copy of the Checkpointer goes away,  *)
(* so when no run is inside the writer                                     *)

DestroyStop ==
    /\ dpc = "alive"
    /\ \A r \in Runs : pc[r] = "idle"
    /\ stop' = TRUE
    /\ dpc' = "notify"
    /\ UNCHANGED <<queue, inflight, queued, written, error, wpc, pc, target,
                   accepted, attempted, failed>>

\* cv_work_.notify_all, after the mutex is dropped.
DestroyNotify ==
    /\ dpc = "notify"
    /\ wpc' = IF wpc = "sleep" THEN "ready" ELSE wpc
    /\ dpc' = "join"
    /\ UNCHANGED <<queue, inflight, queued, written, error, stop, pc, target,
                   accepted, attempted, failed>>

\* join returns; a writer that was never used has no thread to join.
DestroyJoin ==
    /\ dpc = "join"
    /\ wpc \in {"none", "exited"}
    /\ dpc' = "gone"
    /\ UNCHANGED <<queue, inflight, queued, written, error, stop, wpc, pc,
                   target, accepted, attempted, failed>>

-----------------------------------------------------------------------------
Writer == WriterSleep \/ WriterExit \/ WriterTake \/ WriterDone
Destroy == DestroyStop \/ DestroyNotify \/ DestroyJoin

\* The steps with which a run continues a call it is in.
Continue(r) ==
    \/ pc[r] # "idle" /\ (Enqueue(r) \/ FlushReturn(r))
    \/ EnqueueFullAgain(r) \/ Signal(r) \/ FlushWaitAgain(r)

Run(r) ==
    \/ EnqueueFull(r) \/ EnqueueFullAgain(r) \/ Enqueue(r) \/ Signal(r)
    \/ FlushWait(r) \/ FlushWaitAgain(r) \/ FlushReturn(r)

\* Once the writer is gone nothing happens any more.
Done == dpc = "gone" /\ UNCHANGED vars

Next == Writer \/ Destroy \/ (\E r \in Runs : Run(r)) \/ Done

Spec == Init /\ [][Next]_vars

\* Threads keep running: a put returns, a thread that can take the mutex
\* does.  Runs need not start calls and the writer need not be destroyed.
FairSpec ==
    /\ Spec
    /\ WF_vars(Writer)
    /\ WF_vars(DestroyNotify \/ DestroyJoin)
    /\ \A r \in Runs : WF_vars(Continue(r))

-----------------------------------------------------------------------------
(* Properties *)

TypeOK ==
    /\ queue \in Seq(Job) /\ inflight \in Seq(Job) /\ attempted \in Seq(Job)
    /\ queued \in Nat /\ written \in Nat
    /\ error \subseteq Job /\ failed \subseteq Job
    /\ stop \in BOOLEAN
    /\ wpc \in {"none", "ready", "sleep", "writing", "exited"}
    /\ dpc \in {"alive", "notify", "join", "gone"}
    /\ pc \in [Runs -> {"idle", "space", "spaceWoken", "signal", "done", "doneWoken"}]
    /\ target \in [Runs -> Nat]
    /\ accepted \in [Runs -> 0 .. MaxWrites]

\* A crash loses the outstanding writes: never more than the queue's capacity
\* and the one that loop() has popped, and the counters flush compares agree
\* with what is really outstanding.
OutstandingBounded ==
    /\ Len(Pending) <= Capacity + 1
    /\ queued = written + Len(Pending)
    /\ (inflight # << >>) <=> (wpc = "writing")

\* No wake-up of the writer is lost: it sleeps beside a job, or through stop_,
\* only while the notification for it is still on its way.
WriterWakes ==
    wpc = "sleep" =>
        /\ queue # << >> => \E r \in Runs : pc[r] = "signal"
        /\ stop => dpc = "notify"

\* No wake-up of a blocked run is lost, although loop() notifies one run per
\* pop: while a run waits for space, every free slot has a woken run coming.
SpaceWakes ==
    (\E r \in Runs : pc[r] = "space") =>
        Capacity <= Len(queue) + Cardinality({r \in Runs : pc[r] = "spaceWoken"})

\* A run waits in flush only while something it waits for is outstanding, and
\* what is outstanding of its own is within the target it waits for.
FlushWaits ==
    \A r \in Runs :
        /\ pc[r] = "done" => written < target[r]
        /\ pc[r] \in {"done", "doneWoken"} =>
              /\ target[r] <= queued
              /\ \A i \in DOMAIN Pending :
                    Pending[i][1] = r => written + i <= target[r]

\* The destructor returns only when everything accepted was written (or
\* refused): "joined (after draining the queue)", graph_internal.hpp:78.
DestroyDrains ==
    /\ wpc = "exited" => Pending = << >>
    /\ dpc = "gone" => Len(attempted) = queued /\ wpc # "writing"

\* A failed write is remembered until a flush reports it: error_ is set
\* exactly when a write failed since the last flush that took it.
FailureKept == error \subseteq failed /\ (failed # {} => error # {})

\* No thread sleeps through the notification it waits for.
NoLostWakeup == TypeOK /\ WriterWakes /\ SpaceWakes /\ FlushWaits

\* Neither an accepted write nor the failure of one is forgotten.
NothingIsForgotten == OutstandingBounded /\ DestroyDrains /\ FailureKept

\* AsyncWriter keeps the promises of CheckpointQueue.
Queue == INSTANCE CheckpointQueue WITH
    Limit <- Capacity + 1, pending <- Pending
QueueSpec == Queue!Spec

\* Every call into the writer returns, and a destruction that began ends.
CallsReturn ==
    /\ \A r \in Runs : pc[r] # "idle" ~> pc[r] = "idle"
    /\ dpc = "notify" ~> dpc = "gone"
=============================================================================
