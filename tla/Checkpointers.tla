---------------------------- MODULE Checkpointers ----------------------------
(***************************************************************************)
(* The three built-in checkpointers behind CheckpointerOps.                *)
(*   "store"   the StoreOps adapter of graph_checkpointer.cpp, which keeps *)
(*             checkpoints and event batches in a key-value store that can *)
(*             neither list nor delete keys and has no transactions.  An   *)
(*             operation is the sequence of store_memory calls it makes;   *)
(*             each may fail, and the process may die between any two.     *)
(*             The store keeps the promise of KvStore: a crash goes back   *)
(*             to the content of one earlier moment.                       *)
(*   "sqlite"  store-sqlite/src/sqlite_checkpointer.cpp: rows, written in  *)
(*             transactions, that survive a crash.                         *)
(*   "memory"  maps under a mutex, gone with the process.                  *)
(*                                                                         *)
(* One thread id is modelled: the keys and rows of two threads are         *)
(* disjoint.  The runtime never has two operations on a thread id in       *)
(* progress: branches hold progress_mutex, and finish flushes the Async    *)
(* writer first.                                                           *)
(***************************************************************************)
EXTENDS Integers, Sequences

CONSTANTS
    MaxStep,    \* bound on the steps of the thread
    MaxPuts,    \* bound on put calls
    MaxBatches, \* bound on append_events calls
    MaxWrites,  \* bound on both together
    Backends    \* the checkpointers of this model

ASSUME BoundsOK ==
    /\ {MaxStep, MaxPuts, MaxBatches, MaxWrites} \subseteq Nat
    /\ Backends \subseteq {"store", "sqlite", "memory"}

VARIABLES
    backend,    \* the checkpointer the runs name
    blob,       \* checkpoint:<t>:<step>: the put that wrote it, 0 when missing or ""
    latest,     \* checkpoint:<t>:latest
    meta,       \* checkpoint_meta:<t>:<step>
    metaLatest, \* checkpoint_meta:<t>:latest
    batch,      \* graph_events:<t>:<n>: the append that wrote it
    count,      \* graph_events:<t>:count; 0 when missing or ""
    op,         \* the operation in progress, at its next store_memory call
    step,       \* run.step of the current run_graph / resume_graph call
    puts,       \* put calls so far
    batches,    \* append_events calls so far
    acked,      \* history: the last put that returned ok, 0 once deleted
    appended,   \* history: the batches whose append_events returned ok, in order
    deleted,    \* history: delete_thread returned ok and nothing was written since
    spoiled,    \* history: an append took a count it could not read for missing
    cut,        \* history: a call to the store failed or a crash hit an operation
    disk        \* what a crash leaves of "store": the content, and the
                \* history that goes with it, of an earlier moment

checkpointVars == <<blob, latest, meta, metaLatest>>
eventVars == <<batch, count>>
histVars == <<acked, appended, spoiled, deleted, cut>>
world == <<backend, disk>>
vars == <<backend, blob, latest, meta, metaLatest, batch, count, op, step, puts,
          batches, acked, appended, spoiled, deleted, cut, disk>>

Steps == 0 .. MaxStep
NoStep == -1
NoRun == -1
NoCheckpoint == [step |-> NoStep, put |-> 0]
Checkpoint == [step : Steps, put : 1 .. MaxPuts]

\* The next store_memory call: the key's kind, the step or batch number in
\* the key, and what is written.
Call(pc, at, value) == [pc |-> pc, at |-> at, value |-> value]
NoOp == Call("none", 0, 0)

\* What is stored now, and what the history says of it.
Stored ==
    [blob |-> blob, latest |-> latest, meta |-> meta, metaLatest |-> metaLatest,
     batch |-> batch, count |-> count, acked |-> acked, appended |-> appended,
     spoiled |-> spoiled, deleted |-> deleted, whole |-> op = NoOp]

Nothing ==
    [blob |-> [s \in Steps |-> 0], latest |-> NoCheckpoint,
     meta |-> [s \in Steps |-> 0], metaLatest |-> NoStep,
     batch |-> [n \in 0 .. MaxBatches - 1 |-> 0], count |-> 0,
     acked |-> 0, appended |-> << >>, spoiled |-> FALSE, deleted |-> FALSE, whole |-> TRUE]

Init ==
    /\ backend \in Backends /\ disk = Nothing
    /\ blob = [s \in Steps |-> 0] /\ latest = NoCheckpoint
    /\ meta = [s \in Steps |-> 0] /\ metaLatest = NoStep
    /\ batch = [n \in 0 .. MaxBatches - 1 |-> 0] /\ count = 0
    /\ op = NoOp /\ step = NoRun
    /\ puts = 0 /\ batches = 0
    /\ acked = 0 /\ appended = << >> /\ spoiled = FALSE /\ deleted = FALSE /\ cut = FALSE

Goto(pc) == op' = [op EXCEPT !.pc = pc]
ReturnOk == op' = NoOp

Rows == {s \in Steps : blob[s] # 0}

\* get_latest: the key "latest", or the row of the highest step.
Latest ==
    IF backend = "store" THEN latest
    ELSE IF Rows = {} THEN NoCheckpoint
    ELSE LET top == CHOOSE s \in Rows : \A t \in Rows : t <= s
         IN  [step |-> top, put |-> blob[top]]

\* run_graph / resume_graph: the run continues at the step of the checkpoint
\* that get_latest returns, or at 0.
get_latest ==
    /\ op = NoOp
    /\ step' = IF Latest = NoCheckpoint THEN 0 ELSE Latest.step
    /\ step' # step
    /\ UNCHANGED <<checkpointVars, eventVars, op, puts, batches, histVars, world>>

\* run_graph takes a "latest" that could not be read for missing and starts over.
MissesLatest ==
    /\ op = NoOp /\ backend = "store" /\ latest # NoCheckpoint
    /\ step' = 0 /\ step' # step
    /\ cut' = TRUE
    /\ UNCHANGED <<checkpointVars, eventVars, op, puts, batches, acked, appended, spoiled,
                   deleted, world>>

-----------------------------------------------------------------------------
(* put *)

\* put at the run's step or, once a node has completed, at the next one.
Put(s) ==
    /\ op = NoOp /\ step # NoRun /\ s \in {step, step + 1}
    /\ puts < MaxPuts /\ puts + batches < MaxWrites
    /\ puts' = puts + 1 /\ step' = s
    /\ op' = Call(IF backend = "store" THEN "put.blob" ELSE "put.row", s, puts + 1)
    /\ deleted' = FALSE
    /\ UNCHANGED <<checkpointVars, eventVars, batches, acked, appended, spoiled, cut, world>>

PutReturns ==
    /\ acked' = op.value
    /\ ReturnOk
    /\ UNCHANGED <<eventVars, step, puts, batches, appended, spoiled, deleted, cut, world>>

\* store_put: four calls.
PutBlob ==
    /\ op.pc = "put.blob"
    /\ blob' = [blob EXCEPT ![op.at] = op.value]
    /\ Goto("put.latest")
    /\ UNCHANGED <<latest, meta, metaLatest, eventVars, step, puts, batches, histVars, world>>

PutLatest ==
    /\ op.pc = "put.latest"
    /\ latest' = [step |-> op.at, put |-> op.value]
    /\ Goto("put.meta")
    /\ UNCHANGED <<blob, meta, metaLatest, eventVars, step, puts, batches, histVars, world>>

PutMeta ==
    /\ op.pc = "put.meta"
    /\ meta' = [meta EXCEPT ![op.at] = op.value]
    /\ Goto("put.metaLatest")
    /\ UNCHANGED <<blob, latest, metaLatest, eventVars, step, puts, batches, histVars, world>>

PutMetaLatest ==
    /\ op.pc = "put.metaLatest"
    /\ metaLatest' = op.at
    /\ PutReturns
    /\ UNCHANGED <<blob, latest, meta>>

\* mem_put, cp_put: blob and metadata at once.
PutRow ==
    /\ op.pc = "put.row"
    /\ blob' = [blob EXCEPT ![op.at] = op.value]
    /\ meta' = [meta EXCEPT ![op.at] = op.value]
    /\ PutReturns
    /\ UNCHANGED <<latest, metaLatest>>

-----------------------------------------------------------------------------
(* append_events *)

AppendAt(n) ==
    /\ op = NoOp /\ step # NoRun
    /\ batches < MaxBatches /\ puts + batches < MaxWrites
    /\ batches' = batches + 1
    /\ op' = Call(IF backend = "store" THEN "append.batch" ELSE "append.rows", n, batches + 1)
    /\ deleted' = FALSE
    /\ UNCHANGED <<checkpointVars, eventVars, step, puts, acked, appended, cut, world>>

\* The batch number is the count read at the start.  (A read that is reported
\* as failed ends the call, as StoreFails does.)
AppendEvents == AppendAt(count) /\ UNCHANGED spoiled

\* A SELECT of the SQLite store that fails is reported as a missing key, and a
\* missing count is 0: the log begins again, over the batches it has.
AppendMissesCount ==
    /\ backend = "store" /\ count # 0
    /\ AppendAt(0)
    /\ spoiled' = TRUE

AppendBatch ==
    /\ op.pc = "append.batch"
    /\ batch' = [batch EXCEPT ![op.at] = op.value]
    /\ Goto("append.count")
    /\ UNCHANGED <<checkpointVars, count, step, puts, batches, histVars, world>>

AppendReturns ==
    /\ count' = op.at + 1
    /\ appended' = Append(appended, op.value)
    /\ ReturnOk
    /\ UNCHANGED <<checkpointVars, step, puts, batches, acked, spoiled, deleted, cut, world>>

AppendCount == op.pc = "append.count" /\ AppendReturns /\ UNCHANGED batch

\* mem_append_events, cp_append_events: one transaction, after the last row.
AppendRows ==
    /\ op.pc = "append.rows"
    /\ batch' = [batch EXCEPT ![op.at] = op.value]
    /\ AppendReturns

-----------------------------------------------------------------------------
(* list and delete_thread *)

\* store_list probes 0 .. latest for metadata; the others list their rows.
Listed ==
    IF backend = "store" THEN {s \in Steps : s <= metaLatest /\ meta[s] # 0} ELSE Rows

\* The steps the loop of store_delete_thread has still to clear.
ToClear == {s \in Listed : op.at <= s}
FirstToClear == CHOOSE s \in ToClear : \A t \in ToClear : s <= t

DeleteThread ==
    /\ op = NoOp
    /\ op' = Call(CASE backend = "store" -> "delete.count"
                    [] backend = "sqlite" -> "delete.rows"
                    [] backend = "memory" -> "delete.all", 0, 0)
    /\ UNCHANGED <<checkpointVars, eventVars, step, puts, batches, histVars, world>>

AfterCount == IF metaLatest = NoStep THEN "delete.latest" ELSE "delete.meta"

\* The event log goes first; its batches stay and are overwritten later.
DeleteCount ==
    /\ op.pc = "delete.count"
    /\ count' = 0
    /\ appended' = << >> /\ spoiled' = FALSE
    /\ Goto(AfterCount)
    /\ UNCHANGED <<checkpointVars, batch, step, puts, batches, acked, deleted, cut, world>>

\* Mutant of DeleteMeta: the checkpoint goes before its metadata.
DeleteBlobFirst ==
    /\ op.pc = "delete.meta" /\ ToClear # {}
    /\ blob' = [blob EXCEPT ![FirstToClear] = 0]
    /\ op' = Call("delete.blob", FirstToClear, 0)
    /\ UNCHANGED <<latest, meta, metaLatest, eventVars, step, puts, batches, histVars, world>>

\* The loop over the steps, ascending: the metadata, then the checkpoint.
DeleteMeta ==
    /\ op.pc = "delete.meta" /\ ToClear # {}
    /\ meta' = [meta EXCEPT ![FirstToClear] = 0]
    /\ op' = Call("delete.blob", FirstToClear, 0)
    /\ UNCHANGED <<blob, latest, metaLatest, eventVars, step, puts, batches, histVars, world>>

DeleteBlob ==
    /\ op.pc = "delete.blob"
    /\ blob' = [blob EXCEPT ![op.at] = 0]
    /\ Goto("delete.meta")
    /\ UNCHANGED <<latest, meta, metaLatest, eventVars, step, puts, batches, histVars, world>>

DeleteMetaLatest ==
    /\ op.pc = "delete.meta" /\ ToClear = {}
    /\ metaLatest' = NoStep
    /\ Goto("delete.latest")
    /\ UNCHANGED <<blob, latest, meta, eventVars, step, puts, batches, histVars, world>>

DeleteReturns ==
    /\ step' = NoRun
    /\ acked' = 0
    /\ deleted' = TRUE
    /\ ReturnOk
    /\ UNCHANGED <<metaLatest, puts, batches, world>>

DeleteLatest ==
    /\ op.pc = "delete.latest"
    /\ latest' = NoCheckpoint
    /\ DeleteReturns
    /\ UNCHANGED <<blob, meta, eventVars, appended, spoiled, cut>>

\* A key whose read fails, for whatever reason, is passed over as if it were
\* missing: the event count, a step of the loop, or "latest".
DeletePassesOver ==
    /\ cut' = TRUE
    /\ UNCHANGED <<latest, blob, meta, eventVars, appended, spoiled>>
    /\ \/ /\ op.pc = "delete.count" /\ count # 0
          /\ Goto(AfterCount)
          /\ UNCHANGED <<metaLatest, step, puts, batches, acked, deleted, world>>
       \/ /\ op.pc = "delete.meta" /\ ToClear # {}
          /\ op' = Call("delete.meta", FirstToClear + 1, 0)
          /\ UNCHANGED <<metaLatest, step, puts, batches, acked, deleted, world>>
       \/ /\ op.pc = "delete.latest" /\ latest # NoCheckpoint
          /\ DeleteReturns

NoRows == blob' = Nothing.blob /\ meta' = Nothing.meta
NoEvents == batch' = Nothing.batch /\ count' = 0 /\ appended' = << >> /\ spoiled' = FALSE

\* cp_delete_thread: two statements, each its own transaction.
DeleteRows ==
    /\ op.pc = "delete.rows"
    /\ NoRows
    /\ Goto("delete.events")
    /\ acked' = 0
    /\ UNCHANGED <<latest, metaLatest, eventVars, step, puts, batches, appended, spoiled, deleted, cut, world>>

DeleteEvents ==
    /\ op.pc = "delete.events"
    /\ NoEvents
    /\ DeleteReturns
    /\ UNCHANGED <<blob, latest, meta, cut>>

\* mem_delete_thread: both under the mutex.
DeleteAll ==
    /\ op.pc = "delete.all"
    /\ NoRows /\ NoEvents
    /\ DeleteReturns
    /\ UNCHANGED <<latest, cut>>

-----------------------------------------------------------------------------
(* What goes wrong *)

\* A call to the store or a statement fails: the operation returns its error.
StoreFails ==
    /\ op # NoOp /\ backend # "memory"
    /\ op' = NoOp
    /\ cut' = TRUE
    /\ UNCHANGED <<checkpointVars, eventVars, step, puts, batches, acked, appended, spoiled, deleted, world>>

\* The store's writer brings the file up to date, in an operation or between
\* two.  (A flush that a crash cuts off has not happened; one that commits
\* late is the same as one that committed when its batch was collected.)
Flush ==
    /\ backend = "store"
    /\ disk # Stored
    /\ disk' = Stored
    /\ UNCHANGED <<backend, checkpointVars, eventVars, op, step, puts, batches, histVars>>

\* What the next process finds.
Survives ==
    CASE backend = "store" -> disk [] backend = "sqlite" -> Stored [] backend = "memory" -> Nothing

\* The process dies, in an operation or between two.
Crash ==
    /\ step # NoRun \/ op # NoOp
    /\ op' = NoOp
    /\ step' = NoRun
    /\ LET s == Survives
       IN  /\ blob' = s.blob /\ latest' = s.latest /\ meta' = s.meta
           /\ metaLatest' = s.metaLatest /\ batch' = s.batch /\ count' = s.count
           /\ acked' = s.acked /\ appended' = s.appended /\ deleted' = s.deleted
           /\ spoiled' = s.spoiled
           /\ cut' = (cut \/ ~s.whole)
    /\ UNCHANGED <<puts, batches, world>>

Next ==
    \/ get_latest \/ (\E s \in Steps : Put(s)) \/ AppendEvents \/ DeleteThread
    \/ MissesLatest \/ AppendMissesCount
    \/ PutBlob \/ PutLatest \/ PutMeta \/ PutMetaLatest \/ PutRow
    \/ AppendBatch \/ AppendCount \/ AppendRows
    \/ DeleteCount \/ DeleteMeta \/ DeleteBlob \/ DeleteMetaLatest \/ DeleteLatest
    \/ DeletePassesOver \/ DeleteRows \/ DeleteEvents \/ DeleteAll
    \/ StoreFails \/ Flush \/ Crash

Spec == Init /\ [][Next]_vars

-----------------------------------------------------------------------------
(* Properties *)

\* The calls that an operation on a store, and on rows, consists of.
StorePuts == {"put.blob", "put.latest", "put.meta", "put.metaLatest"}
StoreOps == StorePuts \cup {"append.batch", "append.count", "delete.count", "delete.meta",
                            "delete.blob", "delete.latest"}
RowOps == {"put.row", "append.rows", "delete.rows", "delete.events", "delete.all"}

TypeOK ==
    /\ backend \in Backends
    /\ blob \in [Steps -> 0 .. MaxPuts] /\ meta \in [Steps -> 0 .. MaxPuts]
    /\ latest \in Checkpoint \cup {NoCheckpoint}
    /\ metaLatest \in Steps \cup {NoStep}
    /\ batch \in [0 .. MaxBatches - 1 -> 0 .. MaxBatches] /\ count \in 0 .. MaxBatches
    /\ op \in [pc : StoreOps \cup RowOps \cup {"none"}, at : Nat, value : Nat]
    /\ step \in Steps \cup {NoRun}
    /\ puts \in 0 .. MaxPuts /\ batches \in 0 .. MaxBatches
    /\ acked \in 0 .. MaxPuts
    /\ spoiled \in BOOLEAN /\ deleted \in BOOLEAN /\ cut \in BOOLEAN

\* Every checkpoint that list shows can be read with get (and so forked), in
\* every state a crash or a concurrent reader can see: the blob is written
\* before its metadata and cleared after it, and a crash of the store's cache
\* goes back to one moment.
ListedCanBeRead == \A s \in Listed : blob[s] # 0

\* What resume_graph loads is never older than a put that returned ok and
\* reached the disk: a put writes "latest" before it returns, a delete clears
\* it last, and steps never go down, so that the highest row is the newest.
ResumeNotOlderThanAcked == acked # 0 => Latest.put >= acked

\* "delete_graph_thread overwrites them with empty values" (graph.md:279): no
\* checkpoint of a deleted thread can be read, as long as no operation on it
\* was ever cut short, by a failed call or by a crash.
UncutDeleteIsComplete ==
    deleted /\ ~cut => Latest = NoCheckpoint /\ \A s \in Steps : blob[s] = 0

\* What list, get and get_latest show can be relied on, whatever was cut short.
CheckpointsHold ==
    TypeOK /\ ListedCanBeRead /\ ResumeNotOlderThanAcked /\ UncutDeleteIsComplete

\* list_events returns exactly the batches whose append returned ok since the
\* thread was deleted, in order, whatever was cut short in between, unless an
\* append since then took the count, which it could not read, for missing.
EventLogExact ==
    ~spoiled => /\ count = Len(appended)
                /\ \A i \in 1 .. Len(appended) : batch[i - 1] = appended[i]

\* What a checkpointer reported as recorded can be read again, and nothing else
\* can (store_put, cp_put, mem_put, append_events and the three deletes).
RecordsHold == CheckpointsHold /\ EventLogExact
=============================================================================
