------------------------ MODULE CheckpointersProofs ------------------------
(***************************************************************************)
(* Proofs about Checkpointers, for every number of steps, puts and         *)
(* batches and for each of the three checkpointers: whatever fails or dies *)
(* between two calls to the store, list shows nothing that get cannot      *)
(* read, resume_graph starts at nothing older than what was acknowledged,  *)
(* a delete that nothing cut short leaves nothing, and the event log is    *)
(* what was appended.                                                      *)
(***************************************************************************)
EXTENDS Checkpointers, WellFoundedInduction, TLAPS

-----------------------------------------------------------------------------
(* The inductive invariant *)

\* Of a row backend: the row of the highest step is at least as new as a.
NewestIsTop(b, a) ==
    a # 0 => \E top \in Steps : b[top] >= a /\ \A s \in Steps : b[s] # 0 => s <= top

NoBlobs(b) == \A s \in Steps : b[s] = 0

\* Checkpoints that a reader can rely on: now, and after a crash.
CheckpointsOK(b, l, m, ml, a, d) ==
    /\ b \in [Steps -> 0 .. puts] /\ m \in [Steps -> 0 .. puts]
    /\ l \in Checkpoint \cup {NoCheckpoint} /\ l.put <= puts
    /\ ml \in Steps \cup {NoStep}
    /\ a \in 0 .. puts /\ d \in BOOLEAN
    /\ \A s \in Steps : m[s] # 0 => b[s] # 0
    /\ IF backend = "store" THEN a <= l.put ELSE l = NoCheckpoint /\ NewestIsTop(b, a)
    /\ d /\ ~cut => l = NoCheckpoint /\ NoBlobs(b)

\* An event log that is what was appended, as long as its count could be read.
EventsOK(bt, n, ap, sp) ==
    /\ bt \in [0 .. MaxBatches - 1 -> 0 .. MaxBatches]
    /\ n \in 0 .. MaxBatches /\ n <= batches
    /\ ap \in Seq(Nat) /\ sp \in BOOLEAN
    /\ ~sp => n = Len(ap) /\ \A i \in 1 .. n : bt[i - 1] = ap[i]

\* Nothing of the thread is hidden from list, and so from delete_thread.
AllListed(b, l, m, ml) ==
    /\ ml = l.step
    /\ \A s \in Steps : b[s] # 0 => m[s] # 0 /\ s <= ml

\* The operation in progress, and what it has done so far.
OpInv ==
    /\ op \in [pc : StoreOps \cup RowOps \cup {"none"}, at : Nat, value : Nat]
    /\ op.pc = "none" => op = NoOp
    /\ op.pc \in StoreOps => backend = "store"
    /\ op.pc \in RowOps => backend # "store"
    /\ op.pc \in StorePuts \cup {"put.row"} =>
        op.at \in Steps /\ op.at = step /\ op.value = puts /\ puts > 0 /\ ~deleted
    /\ op.pc \in {"put.latest", "put.meta", "put.metaLatest"} => blob[op.at] = puts
    /\ op.pc \in {"put.meta", "put.metaLatest"} => latest = [step |-> op.at, put |-> puts]
    /\ op.pc \in {"append.batch", "append.count", "append.rows"} =>
        /\ op.at <= count /\ op.value = batches /\ count < batches
        /\ ~spoiled => op.at = count
    /\ op.pc = "append.count" => batch[op.at] = op.value
    /\ op.pc = "delete.count" => op.at = 0
    /\ op.pc = "delete.blob" => op.at \in Steps /\ meta[op.at] = 0
    /\ op.pc = "delete.events" => NoBlobs(blob) /\ acked = 0

\* A run goes on at the highest step of the thread or above it.
StepInv ==
    /\ step \in Steps \cup {NoRun}
    /\ (backend # "store" \/ ~cut) /\ step # NoRun => \A s \in Steps : blob[s] # 0 => s <= step

\* The checkpoints of a store on which no operation was ever cut short.
UncutInv ==
    backend = "store" /\ ~cut =>
        /\ op.pc \in {"none", "put.blob", "append.batch", "append.count", "delete.count"} =>
            AllListed(blob, latest, meta, metaLatest)
        /\ op.pc \in {"put.latest", "put.meta"} =>
            \A s \in Steps \ {op.at} : blob[s] # 0 => meta[s] # 0
        /\ op.pc = "put.metaLatest" => \A s \in Steps : blob[s] # 0 => meta[s] # 0
        /\ op.pc = "delete.meta" =>
            \A s \in Steps : blob[s] # 0 => meta[s] # 0 /\ op.at <= s /\ s <= metaLatest
        /\ op.pc = "delete.blob" =>
            \A s \in Steps \ {op.at} : blob[s] # 0 => meta[s] # 0 /\ op.at <= s /\ s <= metaLatest
        /\ op.pc = "delete.latest" => NoBlobs(blob) /\ metaLatest = NoStep

\* What a crash would leave.
DiskInv ==
    /\ disk.whole \in BOOLEAN
    /\ CheckpointsOK(disk.blob, disk.latest, disk.meta, disk.metaLatest, disk.acked, disk.deleted)
    /\ EventsOK(disk.batch, disk.count, disk.appended, disk.spoiled)
    /\ backend = "store" /\ ~cut /\ disk.whole =>
        AllListed(disk.blob, disk.latest, disk.meta, disk.metaLatest)

CountsInv ==
    /\ backend \in Backends
    /\ puts \in 0 .. MaxPuts /\ batches \in 0 .. MaxBatches /\ cut \in BOOLEAN

NowInv ==
    /\ CheckpointsOK(blob, latest, meta, metaLatest, acked, deleted)
    /\ EventsOK(batch, count, appended, spoiled)

RecordsInv == CountsInv /\ NowInv /\ OpInv /\ StepInv /\ UncutInv /\ DiskInv

-----------------------------------------------------------------------------
(* What a step keeps *)

\* The bounds, and the steps a checkpoint can have.
LEMMA Bounds ==
    /\ MaxStep \in Nat /\ MaxPuts \in Nat /\ MaxBatches \in Nat
    /\ Steps = 0 .. MaxStep /\ Steps \subseteq Nat /\ 0 \in Steps
    /\ NoStep = -1 /\ NoRun = -1 /\ NoStep \notin Steps
    /\ NoCheckpoint.step = -1 /\ NoCheckpoint.put = 0
    /\ Backends \subseteq {"store", "sqlite", "memory"}
BY BoundsOK DEF Steps, NoStep, NoRun, NoCheckpoint

\* A set of steps has a lowest one: the loops over the steps of a thread, and the
\* highest row, are well defined.
LEMMA HasLeast == ASSUME NEW T, T \subseteq Nat, T # {} PROVE \E x \in T : \A y \in T : x <= y
<1> DEFINE R == OpToRel(<, Nat)
<1>1. IsWellFoundedOn(R, Nat)
  BY ZenonT(30), NatLessThanWellFounded
<1>2. \A x, y \in Nat : x < y => <<x, y>> \in R
  BY DEF OpToRel
<1> HIDE DEF R
<1>3. PICK x \in T : \A y \in T : ~(<<y, x>> \in R)
  BY ZenonT(30), <1>1, WFMin
<1>4. \A y \in T : x \in Nat /\ y \in Nat /\ ~(y < x)
  BY ZenonT(30), <1>2, <1>3
<1>5. \A y \in T : x <= y
  BY <1>4
<1> QED BY <1>5

\* and a highest one.
LEMMA HasHighest == ASSUME NEW T, T \subseteq Steps, T # {} PROVE \E x \in T : \A y \in T : y <= x
<1> DEFINE bounds == {n \in Nat : \A y \in T : y <= n}
<1>1. MaxStep \in bounds /\ \A y \in T : y \in Nat
  BY Bounds
<1>2. PICK n \in bounds : \A k \in bounds : n <= k
  BY ZenonT(30), <1>1, HasLeast
<1>3. n \in T
  <2> SUFFICES ASSUME n \notin T PROVE FALSE
    OBVIOUS
  <2>1. PICK y \in T : TRUE
    OBVIOUS
  <2>2. \A k \in T : k \in Nat /\ k <= n - 1
    BY <1>1, <1>2
  <2>3. n - 1 \in bounds
    BY <2>1, <2>2, <1>2
  <2> QED BY <2>3, <1>2
<1> QED BY <1>2, <1>3

\* One batch more.
LEMMA AppendIs ==
    ASSUME NEW S, NEW log \in Seq(S), NEW e \in S
    PROVE  /\ Append(log, e) \in Seq(S) /\ Len(Append(log, e)) = Len(log) + 1
           /\ \A i \in 1 .. Len(log) : Append(log, e)[i] = log[i]
           /\ Append(log, e)[Len(log) + 1] = e
OBVIOUS

LEMMA OneBatchMore ==
    ASSUME CountsInv, NEW bt, NEW n, NEW ap, NEW sp, EventsOK(bt, n, ap, sp),
           NEW at \in Nat, at <= n, n < batches, ~sp => at = n
    PROVE  EventsOK([bt EXCEPT ![at] = batches], at + 1, Append(ap, batches), sp)
<1> DEFINE b == [bt EXCEPT ![at] = batches]
           a == Append(ap, batches)
<1>1. /\ n \in Nat /\ batches \in 0 .. MaxBatches /\ batches \in Nat /\ at \in 0 .. MaxBatches - 1
      /\ bt \in [0 .. MaxBatches - 1 -> 0 .. MaxBatches] /\ ap \in Seq(Nat) /\ sp \in BOOLEAN
  BY Bounds DEF EventsOK, CountsInv
<1>2. /\ b \in [0 .. MaxBatches - 1 -> 0 .. MaxBatches] /\ b[at] = batches
      /\ \A k \in 0 .. MaxBatches - 1 : k # at => b[k] = bt[k]
  BY ZenonT(30), <1>1
<1>3. /\ a \in Seq(Nat) /\ Len(a) = Len(ap) + 1
      /\ \A i \in 1 .. Len(ap) : a[i] = ap[i]
      /\ a[Len(ap) + 1] = batches
  BY <1>1, AppendIs
<1> HIDE DEF a, b
<1>4. at + 1 \in 0 .. MaxBatches /\ at + 1 <= batches
  BY <1>1, Bounds
<1>5. ASSUME ~sp PROVE at + 1 = Len(a) /\ \A i \in 1 .. at + 1 : b[i - 1] = a[i]
  <2>1. at = n /\ n = Len(ap) /\ \A i \in 1 .. n : bt[i - 1] = ap[i]
    BY <1>5 DEF EventsOK
  <2>2. ASSUME NEW i \in 1 .. at PROVE b[i - 1] = a[i]
    BY <1>1, <1>2, <1>3, <2>1, <2>2, Bounds
  <2>3. b[(at + 1) - 1] = a[at + 1] /\ at + 1 = Len(a)
    <3>1. (at + 1) - 1 = at
      BY <1>1
    <3> QED BY <1>2, <1>3, <2>1, <3>1
  <2>4. \A i \in 1 .. at + 1 : i \in 1 .. at \/ i = at + 1
    BY <1>1
  <2> QED BY <2>2, <2>3, <2>4
<1> QED BY <1>1, <1>2, <1>3, <1>4, <1>5 DEF EventsOK, a, b

\* An event log without batches.
LEMMA EmptyLog ==
    ASSUME NEW bt \in [0 .. MaxBatches - 1 -> 0 .. MaxBatches], batches \in Nat
    PROVE  EventsOK(bt, 0, << >>, FALSE)
<1>1. << >> \in Seq(Nat) /\ Len(<< >>) = 0 /\ 0 \in 0 .. MaxBatches /\ 0 <= batches
  BY Bounds
<1>2. \A i \in 1 .. 0 : bt[i - 1] = << >>[i]
  OBVIOUS
<1> QED BY ZenonT(30), <1>1, <1>2 DEF EventsOK

\* The operation goes on with the same step or batch number and value.
LEMMA GotoMoves ==
    ASSUME OpInv, NEW pc, Goto(pc)
    PROVE  op' = [pc |-> pc, at |-> op.at, value |-> op.value]
BY DEF OpInv, Goto

\* No operation is in progress.
LEMMA IdleOp == ASSUME op' = NoOp PROVE OpInv'
BY DEF OpInv, NoOp, Call, StorePuts, StoreOps, RowOps

\* Checkpoints that can be relied on stay so, as puts go on and after a cut.
LEMMA CheckpointsKept ==
    ASSUME NEW b, NEW l, NEW m, NEW ml, NEW a, NEW d, CheckpointsOK(b, l, m, ml, a, d),
           CountsInv, backend' = backend, puts' \in Nat, puts <= puts', cut => cut'
    PROVE  CheckpointsOK(b, l, m, ml, a, d)'
<1>1. 0 .. puts \subseteq 0 .. puts' /\ puts \in Nat
  BY Bounds DEF CountsInv
<1>2. /\ b \in [Steps -> 0 .. puts'] /\ m \in [Steps -> 0 .. puts'] /\ a \in 0 .. puts'
      /\ l.put <= puts'
  BY <1>1, Bounds DEF CheckpointsOK, Checkpoint
<1> QED BY <1>2 DEF CheckpointsOK, NewestIsTop, NoBlobs

\* So does an event log, as batches go on.
LEMMA EventsKept ==
    ASSUME NEW bt, NEW n, NEW ap, NEW sp, EventsOK(bt, n, ap, sp),
           CountsInv, batches' \in Nat, batches <= batches'
    PROVE  EventsOK(bt, n, ap, sp)'
BY DEF EventsOK, CountsInv

\* The file is as good as it was.
LEMMA DiskKept ==
    ASSUME DiskInv, CountsInv, disk' = disk, backend' = backend, cut => cut',
           puts' \in Nat, puts <= puts', batches' \in Nat, batches <= batches'
    PROVE  DiskInv'
<1>1. CheckpointsOK(disk.blob, disk.latest, disk.meta, disk.metaLatest, disk.acked, disk.deleted)'
  BY CheckpointsKept DEF DiskInv
<1>2. EventsOK(disk.batch, disk.count, disk.appended, disk.spoiled)'
  BY EventsKept DEF DiskInv
<1> QED BY <1>1, <1>2 DEF DiskInv

\* The run stays where it is, and no checkpoint comes in.
LEMMA StepKept ==
    ASSUME StepInv, blob' = blob, step' = step, backend' = backend, cut => cut'
    PROVE  StepInv'
BY DEF StepInv

\* A step of a delete is one that list shows.
LEMMA FirstIsListed ==
    ASSUME NowInv, OpInv, backend = "store", ToClear # {}
    PROVE  /\ FirstToClear \in Steps /\ meta[FirstToClear] # 0 /\ op.at <= FirstToClear
           /\ \A s \in Steps : s <= metaLatest /\ meta[s] # 0 /\ op.at <= s => FirstToClear <= s
<1>1. ToClear \subseteq Nat /\ ToClear = {s \in Steps : s <= metaLatest /\ meta[s] # 0 /\ op.at <= s}
  BY Bounds DEF ToClear, Listed
<1>2. \E s \in ToClear : \A t \in ToClear : s <= t
  BY <1>1, HasLeast
<1>3. FirstToClear \in ToClear /\ \A t \in ToClear : FirstToClear <= t
  BY <1>2 DEF FirstToClear
<1> QED BY <1>1, <1>3

\* A new store.
LEMMA NothingOK ==
    ASSUME CountsInv
    PROVE  /\ Nothing.whole \in BOOLEAN
           /\ CheckpointsOK(Nothing.blob, Nothing.latest, Nothing.meta, Nothing.metaLatest,
                            Nothing.acked, Nothing.deleted)
           /\ EventsOK(Nothing.batch, Nothing.count, Nothing.appended, Nothing.spoiled)
           /\ AllListed(Nothing.blob, Nothing.latest, Nothing.meta, Nothing.metaLatest)
<1>2. /\ Nothing.blob = [s \in Steps |-> 0] /\ Nothing.latest = NoCheckpoint
      /\ Nothing.meta = [s \in Steps |-> 0] /\ Nothing.metaLatest = NoStep
      /\ Nothing.batch = [n \in 0 .. MaxBatches - 1 |-> 0] /\ Nothing.count = 0
      /\ Nothing.acked = 0 /\ Nothing.appended = << >> /\ Nothing.deleted = FALSE
      /\ Nothing.spoiled = FALSE
      /\ Nothing.whole = TRUE
  BY DEF Nothing
<1>3. puts \in Nat /\ batches \in Nat
  BY Bounds DEF CountsInv
<1>4. EventsOK(Nothing.batch, Nothing.count, Nothing.appended, Nothing.spoiled)
  <2>1. Nothing.batch \in [0 .. MaxBatches - 1 -> 0 .. MaxBatches]
    BY <1>2, Bounds
  <2>2. EventsOK(Nothing.batch, 0, << >>, FALSE)
    BY <1>3, <2>1, EmptyLog
  <2> QED BY ZenonT(30), <1>2, <2>2
<1>5. CheckpointsOK(Nothing.blob, Nothing.latest, Nothing.meta, Nothing.metaLatest,
                    Nothing.acked, Nothing.deleted)
  <2> DEFINE none == [s \in Steps |-> 0]
  <2>1. none \in [Steps -> 0 .. puts] /\ 0 \in 0 .. puts /\ 0 <= puts
    BY <1>3
  <2>2. NewestIsTop(none, 0) /\ NoBlobs(none) /\ \A s \in Steps : none[s] = 0
    BY DEF NewestIsTop, NoBlobs
  <2> HIDE DEF none
  <2>3. CheckpointsOK(none, NoCheckpoint, none, NoStep, 0, FALSE)
    BY <2>1, <2>2, Bounds DEF CheckpointsOK
  <2> QED BY ZenonT(30), <1>2, <2>3 DEF none
<1>6. AllListed(Nothing.blob, Nothing.latest, Nothing.meta, Nothing.metaLatest)
  BY <1>2, Bounds DEF AllListed
<1> QED BY ZenonT(30), <1>2, <1>4, <1>5, <1>6

\* The same, as a write begins on a thread that may have been deleted.
LEMMA UndeletedKept ==
    ASSUME CountsInv, CheckpointsOK(blob, latest, meta, metaLatest, acked, deleted),
           UNCHANGED <<blob, latest, meta, metaLatest, acked, cut, backend>>, deleted' = FALSE,
           puts' \in Nat, puts <= puts'
    PROVE  CheckpointsOK(blob, latest, meta, metaLatest, acked, deleted)'
<1>1. 0 .. puts \subseteq 0 .. puts' /\ puts \in Nat
  BY Bounds DEF CountsInv
<1>2. /\ blob \in [Steps -> 0 .. puts'] /\ meta \in [Steps -> 0 .. puts'] /\ acked \in 0 .. puts'
      /\ latest.put <= puts'
  BY <1>1, Bounds DEF CheckpointsOK, Checkpoint
<1> QED BY ZenonT(30), <1>2 DEF CheckpointsOK, NewestIsTop, NoBlobs

\* get_latest returns the newest of the rows, or nothing.
LEMMA LatestRow ==
    ASSUME NowInv, CountsInv, backend # "store"
    PROVE  /\ NoBlobs(blob) => Latest = NoCheckpoint
           /\ ~NoBlobs(blob) => /\ Latest.step \in Steps /\ Latest.put = blob[Latest.step]
                                /\ Latest.put # 0 /\ Latest # NoCheckpoint
                                /\ \A s \in Steps : blob[s] # 0 => s <= Latest.step
<1>1. CASE NoBlobs(blob)
  BY <1>1 DEF Latest, Rows, NoBlobs
<1>2. CASE ~NoBlobs(blob)
  <2> DEFINE top == CHOOSE s \in Rows : \A t \in Rows : t <= s
  <2>1. Rows \subseteq Steps /\ Rows # {}
    BY <1>2 DEF Rows, NoBlobs
  <2>2. top \in Rows /\ \A t \in Rows : t <= top
    BY <2>1, HasHighest
  <2>3. Latest = [step |-> top, put |-> blob[top]]
    BY <2>1 DEF Latest
  <2> HIDE DEF top
  <2>4. top \in Steps /\ blob[top] # 0 /\ \A s \in Steps : blob[s] # 0 => s <= top
    BY <2>2 DEF Rows
  <2> QED BY <1>2, <2>3, <2>4, Bounds
<1> QED BY <1>1, <1>2

-----------------------------------------------------------------------------
(* The steps *)

\* get_latest: the run goes on at the top of what is stored.
LEMMA GetLatestKeeps == ASSUME RecordsInv, get_latest PROVE RecordsInv'
<1>0. CountsInv /\ NowInv /\ OpInv /\ StepInv /\ UncutInv /\ DiskInv
  BY DEF RecordsInv
<1>1. CountsInv'
  BY <1>0, Bounds DEF CountsInv, get_latest, world, histVars
<1>2. CheckpointsOK(blob, latest, meta, metaLatest, acked, deleted)'
  BY <1>0, <1>1, Bounds, CheckpointsKept DEF NowInv, CountsInv, get_latest, checkpointVars,
     eventVars, histVars, world, ReturnOk
<1>3. EventsOK(batch, count, appended, spoiled)'
  BY <1>0, <1>1, EventsKept DEF NowInv, CountsInv, get_latest, checkpointVars, eventVars,
     histVars, world, ReturnOk
<1>4. OpInv'
  BY IdleOp DEF get_latest, ReturnOk
<1>5. StepInv'
  <2>1. step' = (IF Latest = NoCheckpoint THEN 0 ELSE Latest.step) /\ blob' = blob /\ cut' = cut
        /\ backend' = backend /\ op = NoOp
    BY DEF get_latest, checkpointVars, eventVars, histVars, world, ReturnOk
  <2>2. CASE backend = "store"
    <3>1. Latest = latest /\ latest \in Checkpoint \cup {NoCheckpoint}
      BY <2>2, <1>0 DEF Latest, NowInv, CheckpointsOK
    <3>2. step' \in Steps
      BY <2>1, <3>1, Bounds DEF Checkpoint
    <3>3. ~cut => \A s \in Steps : blob[s] # 0 => s <= latest.step
      BY <2>1, <2>2, <1>0 DEF UncutInv, AllListed, NoOp, Call
    <3>4. ~cut => \A s \in Steps : blob[s] # 0 => s <= step'
      BY <2>1, <3>1, <3>3, Bounds
    <3> QED BY <2>1, <2>2, <3>2, <3>4 DEF StepInv
  <2>3. CASE backend # "store"
    <3>1. step' \in Steps /\ \A s \in Steps : blob[s] # 0 => s <= step'
      BY <2>1, <2>3, <1>0, LatestRow, Bounds DEF NoBlobs
    <3> QED BY <2>1, <2>3, <3>1 DEF StepInv
  <2> QED BY <2>2, <2>3
<1>6. UncutInv'
  BY <1>0, <1>1, Bounds, GotoMoves DEF NowInv, CheckpointsOK, OpInv, StepInv, UncutInv,
     CountsInv, NoBlobs, AllListed, StorePuts, StoreOps, RowOps, Call, NoOp, get_latest,
     checkpointVars, eventVars, histVars, world, ReturnOk
<1>7. DiskInv'
  BY <1>0, <1>1, DiskKept DEF CountsInv, get_latest, world, histVars
<1> QED BY <1>1, <1>2, <1>3, <1>4, <1>5, <1>6, <1>7 DEF RecordsInv, NowInv

\* put begins at the run's step or the next one.
LEMMA PutKeeps == ASSUME RecordsInv, NEW s \in Steps, Put(s) PROVE RecordsInv'
<1>0. CountsInv /\ NowInv /\ OpInv /\ StepInv /\ UncutInv /\ DiskInv
  BY DEF RecordsInv
<1>1. CountsInv'
  BY <1>0, Bounds DEF CountsInv, Put, world, histVars
<1>2. CheckpointsOK(blob, latest, meta, metaLatest, acked, deleted)'
  <2>1. /\ UNCHANGED <<blob, latest, meta, metaLatest, acked, cut, backend>> /\ deleted' = FALSE
        /\ puts' \in Nat /\ puts <= puts'
    BY <1>0, Bounds DEF CountsInv, Put, checkpointVars, eventVars, histVars, world, ReturnOk
  <2> QED BY ZenonT(30), <2>1, <1>0, UndeletedKept DEF NowInv
<1>3. EventsOK(batch, count, appended, spoiled)'
  BY <1>0, <1>1, EventsKept DEF NowInv, CountsInv, Put, checkpointVars, eventVars, histVars,
     world, ReturnOk
<1>4. OpInv'
  BY <1>0, <1>1, Bounds, GotoMoves DEF NowInv, CheckpointsOK, OpInv, StepInv, CountsInv,
     NoBlobs, StorePuts, StoreOps, RowOps, Call, NoOp, Put, checkpointVars, eventVars, histVars,
     world, ReturnOk
<1>5. StepInv'
  BY SMTT(20), <1>0, <1>1, Bounds DEF NowInv, CheckpointsOK, OpInv, StepInv, CountsInv, NoBlobs,
     StorePuts, Put, checkpointVars, eventVars, histVars, world, ReturnOk
<1>6. UncutInv'
  BY ZenonT(30), <1>0, <1>1, Bounds, GotoMoves DEF NowInv, CheckpointsOK, OpInv, StepInv, UncutInv,
     CountsInv, NoBlobs, AllListed, StorePuts, StoreOps, RowOps, Call, NoOp, Put,
     checkpointVars, eventVars, histVars, world, ReturnOk
<1>7. DiskInv'
  BY <1>0, <1>1, DiskKept DEF CountsInv, Put, world, histVars
<1> QED BY <1>1, <1>2, <1>3, <1>4, <1>5, <1>6, <1>7 DEF RecordsInv, NowInv

\* append_events begins: with the count it read, or at 0 when it took the count
\* for missing.
LEMMA AppendBegins ==
    ASSUME RecordsInv, NEW n \in Nat, AppendAt(n), n <= count, spoiled' \in BOOLEAN,
           spoiled => spoiled', ~spoiled' => n = count
    PROVE  RecordsInv'
<1>0. CountsInv /\ NowInv /\ OpInv /\ StepInv /\ UncutInv /\ DiskInv
  BY DEF RecordsInv
<1>1. CountsInv'
  BY <1>0, Bounds DEF CountsInv, AppendAt, world, histVars
<1>2. CheckpointsOK(blob, latest, meta, metaLatest, acked, deleted)'
  <2>1. /\ UNCHANGED <<blob, latest, meta, metaLatest, acked, cut, backend>> /\ deleted' = FALSE
        /\ puts' \in Nat /\ puts <= puts'
    BY <1>0, Bounds DEF CountsInv, AppendAt, checkpointVars, eventVars, world
  <2> QED BY ZenonT(30), <2>1, <1>0, UndeletedKept DEF NowInv
<1>3. EventsOK(batch, count, appended, spoiled)'
  <2>1. UNCHANGED <<batch, count, appended>> /\ batches \in Nat /\ batches' = batches + 1
    BY <1>0, Bounds DEF CountsInv, AppendAt, eventVars
  <2>2. EventsOK(batch, count, appended, spoiled)
    BY <1>0 DEF NowInv
  <2>3. count <= batches'
    BY <2>1, <2>2, Bounds DEF EventsOK
  <2> QED BY ZenonT(30), <2>1, <2>2, <2>3 DEF EventsOK
<1>4. OpInv'
  <2>1. op'.at = n /\ op'.value = batches' /\ op' \in [pc : {op'.pc}, at : Nat, value : Nat]
        /\ op'.pc = (IF backend = "store" THEN "append.batch" ELSE "append.rows")
        /\ count' = count /\ backend' = backend
    BY <1>0, Bounds DEF CountsInv, Call, AppendAt, eventVars, world
  <2>2. count < batches'
    BY <1>0, Bounds DEF CountsInv, NowInv, EventsOK, AppendAt
  <2> QED BY <2>1, <2>2 DEF OpInv, StorePuts, StoreOps, RowOps
<1>5. StepInv'
  BY <1>0, StepKept DEF AppendAt, checkpointVars, world
<1>6. UncutInv'
  BY <1>0, <1>1, Bounds, GotoMoves DEF NowInv, CheckpointsOK, OpInv, StepInv, UncutInv,
     CountsInv, NoBlobs, AllListed, StorePuts, StoreOps, RowOps, Call, NoOp, AppendAt,
     checkpointVars, eventVars, world
<1>7. DiskInv'
  BY <1>0, <1>1, DiskKept DEF CountsInv, AppendAt, world
<1> QED BY <1>1, <1>2, <1>3, <1>4, <1>5, <1>6, <1>7 DEF RecordsInv, NowInv

LEMMA AppendEventsKeeps ==
    ASSUME RecordsInv, AppendEvents \/ AppendMissesCount PROVE RecordsInv'
<1>1. count \in Nat /\ 0 <= count /\ count <= count /\ spoiled \in BOOLEAN
  BY Bounds DEF RecordsInv, NowInv, EventsOK
<1>2. CASE AppendEvents
  BY <1>1, <1>2, AppendBegins DEF AppendEvents
<1>3. CASE AppendMissesCount
  BY <1>1, <1>3, AppendBegins DEF AppendMissesCount
<1> QED BY <1>2, <1>3

\* run_graph starts over.
LEMMA MissesLatestKeeps == ASSUME RecordsInv, MissesLatest PROVE RecordsInv'
<1>0. CountsInv /\ NowInv /\ OpInv /\ StepInv /\ UncutInv /\ DiskInv
  BY DEF RecordsInv
<1>1. /\ op = NoOp /\ backend = "store" /\ step' = 0 /\ cut' = TRUE
      /\ UNCHANGED <<blob, latest, meta, metaLatest, batch, count, op, puts, batches, acked,
                     appended, spoiled, deleted, backend, disk>>
  BY ZenonT(30) DEF MissesLatest, checkpointVars, eventVars, world
<1>2. CountsInv' /\ puts \in Nat /\ batches \in Nat
  BY <1>0, <1>1, Bounds DEF CountsInv
<1>3. CheckpointsOK(blob, latest, meta, metaLatest, acked, deleted)'
  BY ZenonT(30), <1>0, <1>1 DEF NowInv, CheckpointsOK, NewestIsTop, NoBlobs
<1>4. EventsOK(batch, count, appended, spoiled)'
  BY ZenonT(30), <1>0, <1>1 DEF NowInv, EventsOK
<1>5. OpInv' /\ UncutInv'
  BY <1>1, IdleOp DEF UncutInv
<1>6. StepInv'
  BY <1>1, Bounds DEF StepInv
<1>7. DiskInv'
  BY <1>0, <1>1, <1>2, DiskKept
<1> QED BY <1>2, <1>3, <1>4, <1>5, <1>6, <1>7 DEF RecordsInv, NowInv

\* delete_thread begins.
LEMMA DeleteThreadKeeps == ASSUME RecordsInv, DeleteThread PROVE RecordsInv'
<1>0. CountsInv /\ NowInv /\ OpInv /\ StepInv /\ UncutInv /\ DiskInv
  BY DEF RecordsInv
<1>1. CountsInv'
  BY <1>0, Bounds DEF CountsInv, DeleteThread, world, histVars
<1>2. CheckpointsOK(blob, latest, meta, metaLatest, acked, deleted)'
  BY <1>0, <1>1, Bounds, CheckpointsKept DEF NowInv, CountsInv, DeleteThread, checkpointVars,
     eventVars, histVars, world, ReturnOk
<1>3. EventsOK(batch, count, appended, spoiled)'
  BY <1>0, <1>1, EventsKept DEF NowInv, CountsInv, DeleteThread, checkpointVars, eventVars,
     histVars, world, ReturnOk
<1>4. OpInv'
  BY <1>0, <1>1, Bounds, GotoMoves DEF NowInv, CheckpointsOK, OpInv, StepInv, CountsInv,
     NoBlobs, StorePuts, StoreOps, RowOps, Call, NoOp, DeleteThread, checkpointVars, eventVars,
     histVars, world, ReturnOk
<1>5. StepInv'
  BY <1>0, StepKept DEF DeleteThread, checkpointVars, eventVars, histVars, world, ReturnOk
<1>6. UncutInv'
  BY <1>0, <1>1, Bounds, GotoMoves DEF NowInv, CheckpointsOK, OpInv, StepInv, UncutInv,
     CountsInv, NoBlobs, AllListed, StorePuts, StoreOps, RowOps, Call, NoOp, DeleteThread,
     checkpointVars, eventVars, histVars, world, ReturnOk
<1>7. DiskInv'
  BY <1>0, <1>1, DiskKept DEF CountsInv, DeleteThread, world, histVars
<1> QED BY <1>1, <1>2, <1>3, <1>4, <1>5, <1>6, <1>7 DEF RecordsInv, NowInv

\* store_put writes the checkpoint first.
LEMMA PutBlobKeeps == ASSUME RecordsInv, PutBlob PROVE RecordsInv'
<1>0. CountsInv /\ NowInv /\ OpInv /\ StepInv /\ UncutInv /\ DiskInv
  BY DEF RecordsInv
<1>1. CountsInv'
  BY <1>0, Bounds DEF CountsInv, PutBlob, world, histVars
<1>2. CheckpointsOK(blob, latest, meta, metaLatest, acked, deleted)'
  BY SMTT(20), <1>0, <1>1, Bounds, GotoMoves DEF NowInv, CheckpointsOK, OpInv, CountsInv, NewestIsTop,
     NoBlobs, StorePuts, StoreOps, RowOps, PutBlob, checkpointVars, eventVars, histVars, world,
     ReturnOk
<1>3. EventsOK(batch, count, appended, spoiled)'
  BY <1>0, <1>1, EventsKept DEF NowInv, CountsInv, PutBlob, checkpointVars, eventVars, histVars,
     world, ReturnOk
<1>4. OpInv'
  BY <1>0, <1>1, Bounds, GotoMoves DEF NowInv, CheckpointsOK, OpInv, StepInv, CountsInv,
     NoBlobs, StorePuts, StoreOps, RowOps, Call, NoOp, PutBlob, checkpointVars, eventVars,
     histVars, world, ReturnOk
<1>5. StepInv'
  BY <1>0, <1>1, Bounds DEF NowInv, CheckpointsOK, OpInv, StepInv, CountsInv, NoBlobs,
     StorePuts, PutBlob, checkpointVars, eventVars, histVars, world, ReturnOk
<1>6. UncutInv'
  <2>1. /\ op.pc = "put.blob" /\ op'.pc = "put.latest" /\ op'.at = op.at
        /\ blob' = [blob EXCEPT ![op.at] = op.value]
    BY <1>0, GotoMoves DEF PutBlob
  <2>2. UNCHANGED <<meta, backend, cut>>
    BY ZenonT(30) DEF PutBlob, histVars, world
  <2>3. \A s \in Steps \ {op.at} : blob'[s] = blob[s]
    BY <1>0, <2>1 DEF NowInv, CheckpointsOK
  <2>4. ASSUME backend = "store", ~cut PROVE \A s \in Steps \ {op.at} : blob'[s] # 0 => meta[s] # 0
    BY ZenonT(30), <1>0, <2>1, <2>3, <2>4 DEF UncutInv, AllListed
  <2> QED BY ZenonT(30), <2>1, <2>2, <2>4 DEF UncutInv
<1>7. DiskInv'
  BY <1>0, <1>1, DiskKept DEF CountsInv, PutBlob, world, histVars
<1> QED BY <1>1, <1>2, <1>3, <1>4, <1>5, <1>6, <1>7 DEF RecordsInv, NowInv

\* store_put: what resume_graph will load is the newest put.
LEMMA PutLatestKeeps == ASSUME RecordsInv, PutLatest PROVE RecordsInv'
<1>0. CountsInv /\ NowInv /\ OpInv /\ StepInv /\ UncutInv /\ DiskInv
  BY DEF RecordsInv
<1>1. CountsInv'
  BY <1>0, Bounds DEF CountsInv, PutLatest, world, histVars
<1>2. CheckpointsOK(blob, latest, meta, metaLatest, acked, deleted)'
  <2>1. op.at \in Steps /\ op.value = puts /\ puts \in 1 .. MaxPuts /\ ~deleted /\ backend = "store"
    BY <1>0 DEF OpInv, CountsInv, StorePuts, StoreOps, PutLatest
  <2>2. latest' \in Checkpoint /\ latest'.put = puts
    BY <2>1 DEF Checkpoint, PutLatest
  <2> QED BY <1>0, <2>1, <2>2 DEF NowInv, CheckpointsOK, PutLatest, checkpointVars, eventVars,
     histVars, world, ReturnOk
<1>3. EventsOK(batch, count, appended, spoiled)'
  BY <1>0, <1>1, EventsKept DEF NowInv, CountsInv, PutLatest, checkpointVars, eventVars,
     histVars, world, ReturnOk
<1>4. OpInv'
  BY <1>0, <1>1, Bounds, GotoMoves DEF NowInv, CheckpointsOK, OpInv, StepInv, CountsInv,
     NoBlobs, StorePuts, StoreOps, RowOps, Call, NoOp, PutLatest, checkpointVars, eventVars,
     histVars, world, ReturnOk
<1>5. StepInv'
  BY <1>0, StepKept DEF PutLatest, checkpointVars, eventVars, histVars, world, ReturnOk
<1>6. UncutInv'
  BY <1>0, <1>1, Bounds, GotoMoves DEF NowInv, CheckpointsOK, OpInv, StepInv, UncutInv,
     CountsInv, NoBlobs, AllListed, StorePuts, StoreOps, RowOps, Call, NoOp, PutLatest,
     checkpointVars, eventVars, histVars, world, ReturnOk
<1>7. DiskInv'
  BY <1>0, <1>1, DiskKept DEF CountsInv, PutLatest, world, histVars
<1> QED BY <1>1, <1>2, <1>3, <1>4, <1>5, <1>6, <1>7 DEF RecordsInv, NowInv

\* store_put: the metadata of a checkpoint that is there.
LEMMA PutMetaKeeps == ASSUME RecordsInv, PutMeta PROVE RecordsInv'
<1>0. CountsInv /\ NowInv /\ OpInv /\ StepInv /\ UncutInv /\ DiskInv
  BY DEF RecordsInv
<1>1. CountsInv'
  BY <1>0, Bounds DEF CountsInv, PutMeta, world, histVars
<1>2. CheckpointsOK(blob, latest, meta, metaLatest, acked, deleted)'
  BY <1>0, <1>1, Bounds, GotoMoves DEF NowInv, CheckpointsOK, OpInv, CountsInv, NewestIsTop,
     NoBlobs, StorePuts, StoreOps, RowOps, PutMeta, checkpointVars, eventVars, histVars, world,
     ReturnOk
<1>3. EventsOK(batch, count, appended, spoiled)'
  BY <1>0, <1>1, EventsKept DEF NowInv, CountsInv, PutMeta, checkpointVars, eventVars, histVars,
     world, ReturnOk
<1>4. OpInv'
  BY <1>0, <1>1, Bounds, GotoMoves DEF NowInv, CheckpointsOK, OpInv, StepInv, CountsInv,
     NoBlobs, StorePuts, StoreOps, RowOps, Call, NoOp, PutMeta, checkpointVars, eventVars,
     histVars, world, ReturnOk
<1>5. StepInv'
  BY <1>0, StepKept DEF PutMeta, checkpointVars, eventVars, histVars, world, ReturnOk
<1>6. UncutInv'
  BY <1>0, <1>1, Bounds, GotoMoves DEF NowInv, CheckpointsOK, OpInv, StepInv, UncutInv,
     CountsInv, NoBlobs, AllListed, StorePuts, StoreOps, RowOps, Call, NoOp, PutMeta,
     checkpointVars, eventVars, histVars, world, ReturnOk
<1>7. DiskInv'
  BY <1>0, <1>1, DiskKept DEF CountsInv, PutMeta, world, histVars
<1> QED BY <1>1, <1>2, <1>3, <1>4, <1>5, <1>6, <1>7 DEF RecordsInv, NowInv

\* store_put: list sees the checkpoint, and the put returns.
LEMMA PutMetaLatestKeeps == ASSUME RecordsInv, PutMetaLatest PROVE RecordsInv'
<1>0. CountsInv /\ NowInv /\ OpInv /\ StepInv /\ UncutInv /\ DiskInv
  BY DEF RecordsInv
<1>1. CountsInv'
  BY <1>0, Bounds DEF CountsInv, PutMetaLatest, PutReturns, world, histVars
<1>2. CheckpointsOK(blob, latest, meta, metaLatest, acked, deleted)'
  BY <1>0, <1>1, Bounds, GotoMoves DEF NowInv, CheckpointsOK, OpInv, CountsInv, NewestIsTop,
     NoBlobs, StorePuts, StoreOps, RowOps, PutMetaLatest, PutReturns, checkpointVars, eventVars,
     histVars, world, ReturnOk
<1>3. EventsOK(batch, count, appended, spoiled)'
  BY <1>0, <1>1, EventsKept DEF NowInv, CountsInv, PutMetaLatest, PutReturns, checkpointVars,
     eventVars, histVars, world, ReturnOk
<1>4. OpInv'
  BY IdleOp DEF PutMetaLatest, PutReturns, ReturnOk
<1>5. StepInv'
  BY <1>0, StepKept DEF PutMetaLatest, PutReturns, checkpointVars, eventVars, histVars, world,
     ReturnOk
<1>6. UncutInv'
  <2>1. /\ op.pc = "put.metaLatest" /\ op' = NoOp /\ metaLatest' = op.at
        /\ UNCHANGED <<blob, latest, meta, step, backend, cut>>
    BY ZenonT(30) DEF PutMetaLatest, PutReturns, ReturnOk, world
  <2>2. /\ op.at = step /\ latest = [step |-> op.at, put |-> puts] /\ op.at \in Steps
    BY ZenonT(30), <1>0, <2>1 DEF OpInv, StorePuts
  <2>3. ASSUME backend = "store", ~cut PROVE AllListed(blob, latest, meta, metaLatest)'
    <3>1. \A s \in Steps : blob[s] # 0 => meta[s] # 0 /\ s <= op.at
      BY ZenonT(30), <1>0, <2>1, <2>2, <2>3, Bounds DEF UncutInv, StepInv
    <3>2. metaLatest' = latest'.step
      BY <2>1, <2>2
    <3> QED BY ZenonT(30), <2>1, <3>1, <3>2 DEF AllListed
  <2>4. op'.pc = "none"
    BY <2>1 DEF NoOp, Call
  <2> QED BY ZenonT(30), <2>1, <2>3, <2>4 DEF UncutInv
<1>7. DiskInv'
  BY <1>0, <1>1, DiskKept DEF CountsInv, PutMetaLatest, PutReturns, world, histVars
<1> QED BY <1>1, <1>2, <1>3, <1>4, <1>5, <1>6, <1>7 DEF RecordsInv, NowInv

\* mem_put, cp_put: the row is the highest one and the newest.
LEMMA PutRowKeeps == ASSUME RecordsInv, PutRow PROVE RecordsInv'
<1>0. CountsInv /\ NowInv /\ OpInv /\ StepInv /\ UncutInv /\ DiskInv
  BY DEF RecordsInv
<1>1. CountsInv'
  BY <1>0, Bounds DEF CountsInv, PutRow, PutReturns, world, histVars
<1>2. CheckpointsOK(blob, latest, meta, metaLatest, acked, deleted)'
  <2>1. op.at \in Steps /\ op.at = step /\ op.value = puts /\ puts \in Nat /\ puts > 0 /\ ~deleted
        /\ backend # "store" /\ step # NoRun
    BY <1>0, Bounds DEF OpInv, CountsInv, RowOps, StepInv, PutRow, PutReturns
  <2>2. /\ blob' = [blob EXCEPT ![step] = puts] /\ meta' = [meta EXCEPT ![step] = puts]
        /\ acked' = puts /\ UNCHANGED <<latest, metaLatest, deleted, puts, backend, cut>>
    BY <2>1 DEF PutRow, PutReturns, checkpointVars, eventVars, histVars, world, ReturnOk
  <2>3. blob'[step] = puts /\ \A s \in Steps : blob'[s] # 0 => s <= step
    <3>1. blob \in [Steps -> 0 .. puts] /\ step \in Nat
      BY <1>0, <2>1, Bounds DEF NowInv, CheckpointsOK
    <3>2. \A s \in Steps : blob[s] # 0 => s <= step
      BY <1>0, <2>1 DEF StepInv
    <3> QED BY <2>1, <2>2, <3>1, <3>2
  <2>4. NewestIsTop(blob', puts)
    BY <2>1, <2>3 DEF NewestIsTop
  <2> QED BY <1>0, <2>1, <2>2, <2>4 DEF NowInv, CheckpointsOK
<1>3. EventsOK(batch, count, appended, spoiled)'
  BY <1>0, <1>1, EventsKept DEF NowInv, CountsInv, PutRow, PutReturns, checkpointVars,
     eventVars, histVars, world, ReturnOk
<1>4. OpInv'
  BY IdleOp DEF PutRow, PutReturns, ReturnOk
<1>5. StepInv'
  BY <1>0, <1>1, Bounds DEF NowInv, CheckpointsOK, OpInv, StepInv, CountsInv, NoBlobs,
     StorePuts, PutRow, PutReturns, checkpointVars, eventVars, histVars, world, ReturnOk
<1>6. UncutInv'
  BY ZenonT(30), <1>0, <1>1, Bounds, GotoMoves DEF NowInv, CheckpointsOK, OpInv, StepInv, UncutInv,
     CountsInv, NoBlobs, AllListed, StorePuts, StoreOps, RowOps, Call, NoOp, PutRow, PutReturns,
     checkpointVars, eventVars, histVars, world, ReturnOk
<1>7. DiskInv'
  BY <1>0, <1>1, DiskKept DEF CountsInv, PutRow, PutReturns, world, histVars
<1> QED BY <1>1, <1>2, <1>3, <1>4, <1>5, <1>6, <1>7 DEF RecordsInv, NowInv

\* store_append_events writes a batch behind those that count.
LEMMA AppendBatchKeeps == ASSUME RecordsInv, AppendBatch PROVE RecordsInv'
<1>0. CountsInv /\ NowInv /\ OpInv /\ StepInv /\ UncutInv /\ DiskInv
  BY DEF RecordsInv
<1>1. CountsInv'
  BY <1>0, Bounds DEF CountsInv, AppendBatch, world, histVars
<1>2. CheckpointsOK(blob, latest, meta, metaLatest, acked, deleted)'
  BY <1>0, <1>1, Bounds, CheckpointsKept DEF NowInv, CountsInv, AppendBatch, checkpointVars,
     eventVars, histVars, world, ReturnOk
<1>3. EventsOK(batch, count, appended, spoiled)'
  BY <1>0, <1>1, Bounds, GotoMoves DEF NowInv, EventsOK, OpInv, CountsInv, AppendBatch,
     checkpointVars, eventVars, histVars, world, ReturnOk
<1>4. OpInv'
  <2>1. op' = [pc |-> "append.count", at |-> op.at, value |-> op.value] /\ op.pc = "append.batch"
        /\ UNCHANGED <<backend, count, batches, spoiled>> /\ batch' = [batch EXCEPT ![op.at] = op.value]
    BY <1>0, GotoMoves DEF AppendBatch, checkpointVars, eventVars, histVars, world, ReturnOk
  <2>2. backend = "store" /\ op.at <= count /\ op.value = batches /\ count < batches
        /\ (~spoiled => op.at = count) /\ op.at \in Nat /\ op.value \in Nat
    BY <1>0, <2>1 DEF OpInv, StoreOps
  <2>3. batch'[op.at] = op.value
    BY <1>0, <2>1, <2>2, Bounds DEF NowInv, EventsOK, CountsInv
  <2> QED BY <2>1, <2>2, <2>3 DEF OpInv, StorePuts, StoreOps, RowOps
<1>5. StepInv'
  BY <1>0, StepKept DEF AppendBatch, checkpointVars, eventVars, histVars, world, ReturnOk
<1>6. UncutInv'
  <2>1. op.pc = "append.batch" /\ op'.pc = "append.count"
    BY <1>0, GotoMoves DEF AppendBatch
  <2>2. UNCHANGED <<blob, latest, meta, metaLatest, backend, cut>>
    BY ZenonT(30) DEF AppendBatch, checkpointVars, histVars, world
  <2>3. ASSUME backend = "store", ~cut PROVE AllListed(blob, latest, meta, metaLatest)'
    BY ZenonT(30), <1>0, <2>1, <2>2, <2>3 DEF UncutInv, AllListed
  <2> QED BY ZenonT(30), <2>1, <2>2, <2>3 DEF UncutInv
<1>7. DiskInv'
  BY <1>0, <1>1, DiskKept DEF CountsInv, AppendBatch, world, histVars
<1> QED BY <1>1, <1>2, <1>3, <1>4, <1>5, <1>6, <1>7 DEF RecordsInv, NowInv

\* store_append_events: the batch counts.
LEMMA AppendCountKeeps == ASSUME RecordsInv, AppendCount PROVE RecordsInv'
<1>0. CountsInv /\ NowInv /\ OpInv /\ StepInv /\ UncutInv /\ DiskInv
  BY DEF RecordsInv
<1>1. CountsInv'
  BY <1>0, Bounds DEF CountsInv, AppendCount, AppendReturns, world, histVars
<1>2. CheckpointsOK(blob, latest, meta, metaLatest, acked, deleted)'
  BY <1>0, <1>1, Bounds, CheckpointsKept DEF NowInv, CountsInv, AppendCount, AppendReturns,
     checkpointVars, eventVars, histVars, world, ReturnOk
<1>3. EventsOK(batch, count, appended, spoiled)'
  <2>1. op.at \in Nat /\ op.at <= count /\ op.value = batches /\ count < batches
        /\ (~spoiled => op.at = count)
    BY <1>0 DEF OpInv, AppendCount
  <2>2. /\ count' = op.at + 1 /\ batches' = batches /\ appended' = Append(appended, batches)
        /\ batch' = [batch EXCEPT ![op.at] = batches] /\ spoiled' = spoiled
    <3>1. batch' = batch /\ batch[op.at] = batches /\ batch = [batch EXCEPT ![op.at] = batches]
      BY <2>1, <1>0 DEF OpInv, NowInv, EventsOK, AppendCount
    <3> QED BY <2>1, <3>1 DEF AppendCount, AppendReturns
  <2>3. EventsOK([batch EXCEPT ![op.at] = batches], op.at + 1, Append(appended, batches), spoiled)
    BY <1>0, <2>1, OneBatchMore DEF NowInv
  <2> QED BY ZenonT(30), <2>2, <2>3 DEF EventsOK
<1>4. OpInv'
  BY IdleOp DEF AppendCount, AppendReturns, ReturnOk
<1>5. StepInv'
  BY <1>0, StepKept DEF AppendCount, AppendReturns, checkpointVars, eventVars, histVars, world,
     ReturnOk
<1>6. UncutInv'
  BY ZenonT(30), <1>0, <1>1, Bounds, GotoMoves DEF NowInv, CheckpointsOK, OpInv, StepInv, UncutInv,
     CountsInv, NoBlobs, AllListed, StorePuts, StoreOps, RowOps, Call, NoOp, AppendCount,
     AppendReturns, checkpointVars, eventVars, histVars, world, ReturnOk
<1>7. DiskInv'
  BY <1>0, <1>1, DiskKept DEF CountsInv, AppendCount, AppendReturns, world, histVars
<1> QED BY <1>1, <1>2, <1>3, <1>4, <1>5, <1>6, <1>7 DEF RecordsInv, NowInv

\* mem_append_events, cp_append_events: one batch more.
LEMMA AppendRowsKeeps == ASSUME RecordsInv, AppendRows PROVE RecordsInv'
<1>0. CountsInv /\ NowInv /\ OpInv /\ StepInv /\ UncutInv /\ DiskInv
  BY DEF RecordsInv
<1>1. CountsInv'
  BY <1>0, Bounds DEF CountsInv, AppendRows, AppendReturns, world, histVars
<1>2. CheckpointsOK(blob, latest, meta, metaLatest, acked, deleted)'
  BY <1>0, <1>1, Bounds, CheckpointsKept DEF NowInv, CountsInv, AppendRows, AppendReturns,
     checkpointVars, eventVars, histVars, world, ReturnOk
<1>3. EventsOK(batch, count, appended, spoiled)'
  <2>1. op.at \in Nat /\ op.at <= count /\ op.value = batches /\ count < batches
        /\ (~spoiled => op.at = count)
    BY <1>0 DEF OpInv, AppendRows
  <2>2. /\ count' = op.at + 1 /\ batches' = batches /\ appended' = Append(appended, batches)
        /\ batch' = [batch EXCEPT ![op.at] = batches] /\ spoiled' = spoiled
    BY <2>1 DEF AppendRows, AppendReturns
  <2>3. EventsOK([batch EXCEPT ![op.at] = batches], op.at + 1, Append(appended, batches), spoiled)
    BY <1>0, <2>1, OneBatchMore DEF NowInv
  <2> QED BY ZenonT(30), <2>2, <2>3 DEF EventsOK
<1>4. OpInv'
  BY IdleOp DEF AppendRows, AppendReturns, ReturnOk
<1>5. StepInv'
  BY <1>0, StepKept DEF AppendRows, AppendReturns, checkpointVars, eventVars, histVars, world,
     ReturnOk
<1>6. UncutInv'
  BY ZenonT(30), <1>0, <1>1, Bounds, GotoMoves DEF NowInv, CheckpointsOK, OpInv, StepInv, UncutInv,
     CountsInv, NoBlobs, AllListed, StorePuts, StoreOps, RowOps, Call, NoOp, AppendRows,
     AppendReturns, checkpointVars, eventVars, histVars, world, ReturnOk
<1>7. DiskInv'
  BY <1>0, <1>1, DiskKept DEF CountsInv, AppendRows, AppendReturns, world, histVars
<1> QED BY <1>1, <1>2, <1>3, <1>4, <1>5, <1>6, <1>7 DEF RecordsInv, NowInv

\* store_delete_thread: the event log is empty.
LEMMA DeleteCountKeeps == ASSUME RecordsInv, DeleteCount PROVE RecordsInv'
<1>0. CountsInv /\ NowInv /\ OpInv /\ StepInv /\ UncutInv /\ DiskInv
  BY DEF RecordsInv
<1>1. CountsInv'
  BY <1>0, Bounds DEF CountsInv, DeleteCount, world, histVars
<1>2. CheckpointsOK(blob, latest, meta, metaLatest, acked, deleted)'
  BY <1>0, <1>1, Bounds, CheckpointsKept DEF NowInv, CountsInv, DeleteCount, checkpointVars,
     eventVars, histVars, world, ReturnOk
<1>3. EventsOK(batch, count, appended, spoiled)'
  <2>1. /\ batch' = batch /\ count' = 0 /\ appended' = << >> /\ spoiled' = FALSE
        /\ batches' = batches
    BY DEF DeleteCount
  <2>2. batch \in [0 .. MaxBatches - 1 -> 0 .. MaxBatches] /\ batches \in Nat
    BY <1>0, Bounds DEF NowInv, EventsOK, CountsInv
  <2>3. EventsOK(batch, 0, << >>, FALSE)
    BY <2>2, EmptyLog
  <2> QED BY ZenonT(30), <2>1, <2>3 DEF EventsOK
<1>4. OpInv'
  <2>1. op' = [pc |-> AfterCount, at |-> 0, value |-> op.value] /\ op.value \in Nat
        /\ backend = "store" /\ backend' = backend
    BY <1>0, GotoMoves DEF OpInv, StoreOps, DeleteCount, checkpointVars, eventVars, histVars,
       world, ReturnOk
  <2>2. AfterCount \in {"delete.latest", "delete.meta"}
    BY DEF AfterCount
  <2> QED BY <2>1, <2>2 DEF OpInv, StorePuts, StoreOps, RowOps
<1>5. StepInv'
  BY <1>0, StepKept DEF DeleteCount, checkpointVars, eventVars, histVars, world, ReturnOk
<1>6. UncutInv'
  <2>1. op' = [pc |-> AfterCount, at |-> 0, value |-> op.value] /\ op.pc = "delete.count"
        /\ UNCHANGED <<blob, latest, meta, metaLatest, backend, cut>>
    BY <1>0, GotoMoves DEF OpInv, DeleteCount, checkpointVars, eventVars, histVars, world,
       ReturnOk
  <2>2. AfterCount = IF metaLatest = NoStep THEN "delete.latest" ELSE "delete.meta"
    BY DEF AfterCount
  <2>3. backend = "store" /\ ~cut => \A s \in Steps : blob[s] # 0 => meta[s] # 0 /\ 0 <= s /\ s <= metaLatest
    BY <1>0, <2>1, Bounds DEF UncutInv, AllListed
  <2>4. backend = "store" /\ ~cut /\ metaLatest = NoStep => NoBlobs(blob)
    BY <2>3, Bounds DEF NoBlobs
  <2> QED BY <2>1, <2>2, <2>3, <2>4 DEF UncutInv
<1>7. DiskInv'
  BY <1>0, <1>1, DiskKept DEF CountsInv, DeleteCount, world, histVars
<1> QED BY <1>1, <1>2, <1>3, <1>4, <1>5, <1>6, <1>7 DEF RecordsInv, NowInv

\* store_delete_thread: a checkpoint is hidden from list.
LEMMA DeleteMetaKeeps == ASSUME RecordsInv, DeleteMeta PROVE RecordsInv'
<1>0. CountsInv /\ NowInv /\ OpInv /\ StepInv /\ UncutInv /\ DiskInv
  BY DEF RecordsInv
<1>1. CountsInv'
  BY <1>0, Bounds DEF CountsInv, DeleteMeta, world, histVars
<1>2. CheckpointsOK(blob, latest, meta, metaLatest, acked, deleted)'
  <2>1. op.pc = "delete.meta" /\ backend = "store" /\ ToClear # {}
    BY <1>0 DEF OpInv, StoreOps, DeleteMeta
  <2>2. FirstToClear \in Steps /\ meta[FirstToClear] # 0 /\ op.at <= FirstToClear
        /\ \A s \in Steps : s <= metaLatest /\ meta[s] # 0 /\ op.at <= s => FirstToClear <= s
    BY <1>0, <2>1, FirstIsListed
  <2> QED BY SMTT(20), <1>0, <2>1, <2>2, Bounds DEF NowInv, CountsInv, CheckpointsOK, DeleteMeta,
     checkpointVars, eventVars, histVars, world, ReturnOk
<1>3. EventsOK(batch, count, appended, spoiled)'
  BY <1>0, <1>1, EventsKept DEF NowInv, CountsInv, DeleteMeta, checkpointVars, eventVars,
     histVars, world, ReturnOk
<1>4. OpInv'
  <2>1. op.pc = "delete.meta" /\ backend = "store" /\ ToClear # {}
    BY <1>0 DEF OpInv, StoreOps, DeleteMeta
  <2>2. FirstToClear \in Steps /\ meta[FirstToClear] # 0 /\ op.at <= FirstToClear
        /\ \A s \in Steps : s <= metaLatest /\ meta[s] # 0 /\ op.at <= s => FirstToClear <= s
    BY <1>0, <2>1, FirstIsListed
  <2>3. op' = [pc |-> "delete.blob", at |-> FirstToClear, value |-> 0] /\ meta'[FirstToClear] = 0
        /\ backend' = backend
    BY <1>0, <2>2 DEF NowInv, CheckpointsOK, Call, DeleteMeta, checkpointVars, eventVars,
       histVars, world, ReturnOk
  <2> QED BY <2>1, <2>2, <2>3, Bounds DEF OpInv, StorePuts, StoreOps, RowOps
<1>5. StepInv'
  BY <1>0, StepKept DEF DeleteMeta, checkpointVars, eventVars, histVars, world, ReturnOk
<1>6. UncutInv'
  <2>1. op.pc = "delete.meta" /\ backend = "store" /\ ToClear # {}
    BY <1>0 DEF OpInv, StoreOps, DeleteMeta
  <2>2. FirstToClear \in Steps /\ meta[FirstToClear] # 0 /\ op.at <= FirstToClear
        /\ \A s \in Steps : s <= metaLatest /\ meta[s] # 0 /\ op.at <= s => FirstToClear <= s
    BY <1>0, <2>1, FirstIsListed
  <2>3. op' = [pc |-> "delete.blob", at |-> FirstToClear, value |-> 0]
        /\ UNCHANGED <<blob, metaLatest, backend, cut>>
        /\ \A s \in Steps \ {FirstToClear} : meta'[s] = meta[s]
    BY <1>0, <2>2 DEF NowInv, CheckpointsOK, Call, DeleteMeta, checkpointVars, eventVars,
       histVars, world, ReturnOk
  <2>4. ~cut => \A s \in Steps : blob[s] # 0 => meta[s] # 0 /\ op.at <= s /\ s <= metaLatest
    BY <1>0, <2>1 DEF UncutInv
  <2>5. ~cut => \A s \in Steps \ {FirstToClear} :
                    blob[s] # 0 => meta'[s] # 0 /\ FirstToClear <= s /\ s <= metaLatest
    BY <2>2, <2>3, <2>4
  <2> QED BY <2>3, <2>5 DEF UncutInv
<1>7. DiskInv'
  BY <1>0, <1>1, DiskKept DEF CountsInv, DeleteMeta, world, histVars
<1> QED BY <1>1, <1>2, <1>3, <1>4, <1>5, <1>6, <1>7 DEF RecordsInv, NowInv

\* store_delete_thread: a checkpoint that list does not show goes.
LEMMA DeleteBlobKeeps == ASSUME RecordsInv, DeleteBlob PROVE RecordsInv'
<1>0. CountsInv /\ NowInv /\ OpInv /\ StepInv /\ UncutInv /\ DiskInv
  BY DEF RecordsInv
<1>1. CountsInv'
  BY <1>0, Bounds DEF CountsInv, DeleteBlob, world, histVars
<1>2. CheckpointsOK(blob, latest, meta, metaLatest, acked, deleted)'
  BY ZenonT(30), <1>0, <1>1, Bounds, GotoMoves DEF NowInv, CheckpointsOK, OpInv, CountsInv, NewestIsTop,
     NoBlobs, StorePuts, StoreOps, RowOps, DeleteBlob, checkpointVars, eventVars, histVars,
     world, ReturnOk
<1>3. EventsOK(batch, count, appended, spoiled)'
  BY <1>0, <1>1, EventsKept DEF NowInv, CountsInv, DeleteBlob, checkpointVars, eventVars,
     histVars, world, ReturnOk
<1>4. OpInv'
  <2>1. op' = [pc |-> "delete.meta", at |-> op.at, value |-> op.value] /\ op.pc = "delete.blob"
        /\ backend' = backend
    BY <1>0, GotoMoves DEF DeleteBlob, checkpointVars, eventVars, histVars, world, ReturnOk
  <2>2. op.at \in Nat /\ op.value \in Nat /\ backend = "store"
    BY <1>0, <2>1 DEF OpInv, StoreOps, RowOps
  <2> QED BY <2>1, <2>2 DEF OpInv, StorePuts, StoreOps, RowOps
<1>5. StepInv'
  BY <1>0, <1>1, Bounds DEF NowInv, CheckpointsOK, OpInv, StepInv, CountsInv, NoBlobs,
     StorePuts, DeleteBlob, checkpointVars, eventVars, histVars, world, ReturnOk
<1>6. UncutInv'
  <2>1. op' = [pc |-> "delete.meta", at |-> op.at, value |-> op.value] /\ op.pc = "delete.blob"
        /\ UNCHANGED <<meta, metaLatest, backend, cut>> /\ blob' = [blob EXCEPT ![op.at] = 0]
    BY <1>0, GotoMoves DEF DeleteBlob, checkpointVars, eventVars, histVars, world, ReturnOk
  <2>2. op.at \in Steps /\ blob \in [Steps -> 0 .. puts]
    BY <1>0, <2>1 DEF OpInv, NowInv, CheckpointsOK
  <2>3. backend = "store" /\ ~cut => \A s \in Steps : blob'[s] # 0 => meta[s] # 0 /\ op.at <= s /\ s <= metaLatest
    BY <1>0, <2>1, <2>2 DEF UncutInv
  <2> QED BY <2>1, <2>3 DEF UncutInv
<1>7. DiskInv'
  BY <1>0, <1>1, DiskKept DEF CountsInv, DeleteBlob, world, histVars
<1> QED BY <1>1, <1>2, <1>3, <1>4, <1>5, <1>6, <1>7 DEF RecordsInv, NowInv

\* store_delete_thread: every step that list showed is cleared.
LEMMA DeleteMetaLatestKeeps == ASSUME RecordsInv, DeleteMetaLatest PROVE RecordsInv'
<1>0. CountsInv /\ NowInv /\ OpInv /\ StepInv /\ UncutInv /\ DiskInv
  BY DEF RecordsInv
<1>1. CountsInv'
  BY <1>0, Bounds DEF CountsInv, DeleteMetaLatest, world, histVars
<1>2. CheckpointsOK(blob, latest, meta, metaLatest, acked, deleted)'
  BY ZenonT(30), <1>0, <1>1, Bounds, GotoMoves DEF NowInv, CheckpointsOK, OpInv, CountsInv, NewestIsTop,
     NoBlobs, StorePuts, StoreOps, RowOps, DeleteMetaLatest, checkpointVars, eventVars,
     histVars, world, ReturnOk
<1>3. EventsOK(batch, count, appended, spoiled)'
  BY <1>0, <1>1, EventsKept DEF NowInv, CountsInv, DeleteMetaLatest, checkpointVars, eventVars,
     histVars, world, ReturnOk
<1>4. OpInv'
  <2>1. op' = [pc |-> "delete.latest", at |-> op.at, value |-> op.value] /\ op.pc = "delete.meta"
        /\ backend' = backend
    BY <1>0, GotoMoves DEF DeleteMetaLatest, checkpointVars, eventVars, histVars, world, ReturnOk
  <2>2. op.at \in Nat /\ op.value \in Nat /\ backend = "store"
    BY <1>0, <2>1 DEF OpInv, StoreOps, RowOps
  <2> QED BY ZenonT(30), <2>1, <2>2 DEF OpInv, StorePuts, StoreOps, RowOps
<1>5. StepInv'
  BY <1>0, StepKept DEF DeleteMetaLatest, checkpointVars, eventVars, histVars, world, ReturnOk
<1>6. UncutInv'
  <2>1. op' = [pc |-> "delete.latest", at |-> op.at, value |-> op.value]
        /\ op.pc = "delete.meta" /\ ToClear = {} /\ backend = "store"
        /\ UNCHANGED <<blob, backend, cut>> /\ metaLatest' = NoStep
    BY ZenonT(30), <1>0, GotoMoves DEF OpInv, StoreOps, DeleteMetaLatest, checkpointVars, eventVars,
       histVars, world, ReturnOk
  <2>2. ~cut => \A s \in Steps : blob[s] # 0 => s \in ToClear
    BY <1>0, <2>1 DEF UncutInv, ToClear, Listed
  <2>3. ~cut => NoBlobs(blob)
    BY <2>1, <2>2 DEF NoBlobs
  <2> QED BY <2>1, <2>3 DEF UncutInv
<1>7. DiskInv'
  BY <1>0, <1>1, DiskKept DEF CountsInv, DeleteMetaLatest, world, histVars
<1> QED BY <1>1, <1>2, <1>3, <1>4, <1>5, <1>6, <1>7 DEF RecordsInv, NowInv

\* store_delete_thread: nothing is left to resume from.
LEMMA DeleteLatestKeeps == ASSUME RecordsInv, DeleteLatest PROVE RecordsInv'
<1>0. CountsInv /\ NowInv /\ OpInv /\ StepInv /\ UncutInv /\ DiskInv
  BY DEF RecordsInv
<1>1. CountsInv'
  BY <1>0, Bounds DEF CountsInv, DeleteLatest, DeleteReturns, world, histVars
<1>2. CheckpointsOK(blob, latest, meta, metaLatest, acked, deleted)'
  <2>1. backend = "store" /\ (~cut => NoBlobs(blob))
    BY <1>0 DEF OpInv, StoreOps, UncutInv, DeleteLatest, DeleteReturns
  <2>2. /\ latest' = NoCheckpoint /\ acked' = 0 /\ deleted' = TRUE
        /\ UNCHANGED <<blob, meta, metaLatest, puts, backend, cut>>
    BY DEF DeleteLatest, DeleteReturns, checkpointVars, eventVars, histVars, world, ReturnOk
  <2> QED BY <1>0, <2>1, <2>2, Bounds DEF NowInv, CountsInv, CheckpointsOK
<1>3. EventsOK(batch, count, appended, spoiled)'
  BY <1>0, <1>1, EventsKept DEF NowInv, CountsInv, DeleteLatest, DeleteReturns, checkpointVars,
     eventVars, histVars, world, ReturnOk
<1>4. OpInv'
  BY IdleOp DEF DeleteLatest, DeleteReturns, ReturnOk
<1>5. StepInv'
  BY <1>0, <1>1, Bounds DEF NowInv, CheckpointsOK, OpInv, StepInv, CountsInv, NoBlobs,
     StorePuts, DeleteLatest, DeleteReturns, checkpointVars, eventVars, histVars, world,
     ReturnOk
<1>6. UncutInv'
  BY ZenonT(30), <1>0, <1>1, Bounds, GotoMoves DEF NowInv, CheckpointsOK, OpInv, StepInv, UncutInv,
     CountsInv, NoBlobs, AllListed, StorePuts, StoreOps, RowOps, Call, NoOp, DeleteLatest,
     DeleteReturns, checkpointVars, eventVars, histVars, world, ReturnOk
<1>7. DiskInv'
  BY <1>0, <1>1, DiskKept DEF CountsInv, DeleteLatest, DeleteReturns, world, histVars
<1> QED BY <1>1, <1>2, <1>3, <1>4, <1>5, <1>6, <1>7 DEF RecordsInv, NowInv

\* store_delete_thread passes over a key that it could not read.
LEMMA DeletePassesOverKeeps == ASSUME RecordsInv, DeletePassesOver PROVE RecordsInv'
<1>0. CountsInv /\ NowInv /\ OpInv /\ StepInv /\ UncutInv /\ DiskInv
  BY DEF RecordsInv
<1>1. CountsInv'
  BY <1>0, Bounds DEF CountsInv, DeletePassesOver, DeleteReturns, world, histVars
<1>2. CheckpointsOK(blob, latest, meta, metaLatest, acked, deleted)'
  <2>1. /\ UNCHANGED <<blob, latest, meta, metaLatest, puts, backend>> /\ cut' = TRUE
        /\ acked' \in {acked, 0} /\ deleted' \in BOOLEAN /\ backend = "store"
    <3>1. op.pc \in StoreOps
      BY DEF StoreOps, DeletePassesOver
    <3>2. backend = "store" /\ deleted \in BOOLEAN
      BY <1>0, <3>1 DEF OpInv, NowInv, CheckpointsOK
    <3> QED BY ZenonT(30), <3>2 DEF DeletePassesOver, DeleteReturns, checkpointVars, eventVars, histVars,
       world, ReturnOk
  <2>2. acked' <= latest.put /\ acked' \in 0 .. puts
    BY <2>1, <1>0, Bounds DEF NowInv, CountsInv, CheckpointsOK, Checkpoint
  <2> QED BY <1>0, <2>1, <2>2 DEF NowInv, CheckpointsOK
<1>3. EventsOK(batch, count, appended, spoiled)'
  BY <1>0, <1>1, EventsKept DEF NowInv, CountsInv, DeletePassesOver, DeleteReturns,
     checkpointVars, eventVars, histVars, world, ReturnOk
<1>4. OpInv'
  <2>1. CASE op.pc = "delete.count" /\ Goto(AfterCount) /\ UNCHANGED backend
    <3>1. op' = [pc |-> AfterCount, at |-> 0, value |-> op.value] /\ op.value \in Nat
          /\ backend = "store"
      BY ZenonT(30), <1>0, <2>1, GotoMoves DEF OpInv, StoreOps
    <3>2. AfterCount \in {"delete.latest", "delete.meta"}
      BY DEF AfterCount
    <3> QED BY <2>1, <3>1, <3>2 DEF OpInv, StorePuts, StoreOps, RowOps
  <2>2. CASE /\ op.pc = "delete.meta" /\ ToClear # {} /\ UNCHANGED backend
             /\ op' = Call("delete.meta", FirstToClear + 1, 0)
    <3>1. FirstToClear \in Steps /\ backend = "store"
      BY <1>0, <2>2, FirstIsListed DEF OpInv, StoreOps
    <3>2. op' = [pc |-> "delete.meta", at |-> FirstToClear + 1, value |-> 0] /\ FirstToClear + 1 \in Nat
      BY <2>2, <3>1, Bounds DEF Call
    <3> QED BY <2>2, <3>1, <3>2 DEF OpInv, StorePuts, StoreOps, RowOps
  <2>3. CASE op' = NoOp
    BY <2>3, IdleOp
  <2> QED BY <2>1, <2>2, <2>3 DEF DeletePassesOver, DeleteReturns, world, ReturnOk
<1>5. StepInv'
  <2>1. step' \in {step, NoRun} /\ blob' = blob /\ backend' = backend /\ backend = "store" /\ cut'
    BY <1>0 DEF OpInv, StoreOps, DeletePassesOver, DeleteReturns, checkpointVars, eventVars,
       histVars, world, ReturnOk
  <2> QED BY <1>0, <2>1 DEF StepInv
<1>6. UncutInv'
  BY DEF UncutInv, DeletePassesOver
<1>7. DiskInv'
  BY <1>0, <1>1, DiskKept DEF CountsInv, DeletePassesOver, DeleteReturns, world, histVars
<1> QED BY <1>1, <1>2, <1>3, <1>4, <1>5, <1>6, <1>7 DEF RecordsInv, NowInv

\* cp_delete_thread: the rows go.
LEMMA DeleteRowsKeeps == ASSUME RecordsInv, DeleteRows PROVE RecordsInv'
<1>0. CountsInv /\ NowInv /\ OpInv /\ StepInv /\ UncutInv /\ DiskInv
  BY DEF RecordsInv
<1>1. CountsInv'
  BY <1>0, Bounds DEF CountsInv, DeleteRows, NoRows, Nothing, world, histVars
<1>2. CheckpointsOK(blob, latest, meta, metaLatest, acked, deleted)'
  <2>1. /\ blob' = [s \in Steps |-> 0] /\ meta' = [s \in Steps |-> 0] /\ acked' = 0
        /\ deleted' \in BOOLEAN /\ UNCHANGED <<latest, metaLatest, puts, backend>>
    BY ZenonT(30), <1>0 DEF NowInv, CheckpointsOK, DeleteRows, NoRows, Nothing, checkpointVars, eventVars,
       histVars, world, ReturnOk
  <2>2. latest = NoCheckpoint /\ puts \in Nat /\ metaLatest \in Steps \cup {NoStep} /\ backend # "store"
    <3>1. op.pc \in RowOps
      BY DEF RowOps, DeleteRows
    <3>2. backend # "store"
      BY <1>0, <3>1 DEF OpInv
    <3>3. puts \in Nat
      BY <1>0, Bounds DEF CountsInv
    <3> QED BY <1>0, <3>2, <3>3 DEF NowInv, CheckpointsOK
  <2> QED BY <2>1, <2>2, Bounds DEF CheckpointsOK, NewestIsTop, NoBlobs
<1>3. EventsOK(batch, count, appended, spoiled)'
  BY <1>0, <1>1, EventsKept DEF NowInv, CountsInv, DeleteRows, NoRows, Nothing, checkpointVars,
     eventVars, histVars, world, ReturnOk
<1>4. OpInv'
  <2>1. op' = [pc |-> "delete.events", at |-> op.at, value |-> op.value] /\ op.pc = "delete.rows"
        /\ backend' = backend /\ acked' = 0 /\ blob' = [s \in Steps |-> 0]
    BY <1>0, GotoMoves DEF DeleteRows, NoRows, Nothing, checkpointVars, eventVars, histVars,
       world, ReturnOk
  <2>2. op.at \in Nat /\ op.value \in Nat /\ backend # "store"
    BY <1>0, <2>1 DEF OpInv, StoreOps, RowOps
  <2> QED BY ZenonT(30), <2>1, <2>2 DEF OpInv, StorePuts, StoreOps, RowOps, NoBlobs
<1>5. StepInv'
  BY ZenonT(30), <1>0, <1>1, Bounds DEF NowInv, CheckpointsOK, OpInv, StepInv, CountsInv, NoBlobs,
     StorePuts, DeleteRows, NoRows, Nothing, checkpointVars, eventVars, histVars, world,
     ReturnOk
<1>6. UncutInv'
  BY ZenonT(30), <1>0, <1>1, Bounds, GotoMoves DEF NowInv, CheckpointsOK, OpInv, StepInv, UncutInv,
     CountsInv, NoBlobs, AllListed, StorePuts, StoreOps, RowOps, Call, NoOp, DeleteRows, NoRows,
     Nothing, checkpointVars, eventVars, histVars, world, ReturnOk
<1>7. DiskInv'
  BY <1>0, <1>1, DiskKept DEF CountsInv, DeleteRows, NoRows, Nothing, world, histVars
<1> QED BY <1>1, <1>2, <1>3, <1>4, <1>5, <1>6, <1>7 DEF RecordsInv, NowInv

\* cp_delete_thread: the events go.
LEMMA DeleteEventsKeeps == ASSUME RecordsInv, DeleteEvents PROVE RecordsInv'
<1>0. CountsInv /\ NowInv /\ OpInv /\ StepInv /\ UncutInv /\ DiskInv
  BY DEF RecordsInv
<1>1. CountsInv'
  BY <1>0, Bounds DEF CountsInv, DeleteEvents, DeleteReturns, NoEvents, Nothing, world, histVars
<1>2. CheckpointsOK(blob, latest, meta, metaLatest, acked, deleted)'
  BY ZenonT(30), <1>0, <1>1, Bounds, GotoMoves DEF NowInv, CheckpointsOK, OpInv, CountsInv, NewestIsTop,
     NoBlobs, StorePuts, StoreOps, RowOps, DeleteEvents, DeleteReturns, NoEvents, Nothing,
     checkpointVars, eventVars, histVars, world, ReturnOk
<1>3. EventsOK(batch, count, appended, spoiled)'
  <2>1. Nothing.batch \in [0 .. MaxBatches - 1 -> 0 .. MaxBatches]
    BY Bounds DEF Nothing
  <2>2. /\ batch' = Nothing.batch /\ count' = 0 /\ appended' = << >> /\ spoiled' = FALSE
        /\ batches' = batches /\ batches \in Nat
    BY <1>0, Bounds DEF CountsInv, DeleteEvents, DeleteReturns, NoEvents
  <2>3. EventsOK(Nothing.batch, 0, << >>, FALSE)
    BY <2>1, <2>2, EmptyLog
  <2> QED BY ZenonT(30), <2>2, <2>3 DEF EventsOK
<1>4. OpInv'
  BY IdleOp DEF DeleteEvents, DeleteReturns, NoEvents, Nothing, ReturnOk
<1>5. StepInv'
  BY <1>0, <1>1, Bounds, ZenonT(30) DEF NowInv, CheckpointsOK, OpInv, StepInv, CountsInv, NoBlobs,
     StorePuts, DeleteEvents, DeleteReturns, NoEvents, Nothing, checkpointVars, eventVars,
     histVars, world, ReturnOk
<1>6. UncutInv'
  BY ZenonT(30), <1>0, <1>1, Bounds, GotoMoves DEF NowInv, CheckpointsOK, OpInv, StepInv, UncutInv,
     CountsInv, NoBlobs, AllListed, StorePuts, StoreOps, RowOps, Call, NoOp, DeleteEvents,
     DeleteReturns, NoEvents, Nothing, checkpointVars, eventVars, histVars, world, ReturnOk
<1>7. DiskInv'
  BY <1>0, <1>1, DiskKept DEF CountsInv, DeleteEvents, DeleteReturns, NoEvents, Nothing, world,
     histVars
<1> QED BY <1>1, <1>2, <1>3, <1>4, <1>5, <1>6, <1>7 DEF RecordsInv, NowInv

\* mem_delete_thread: rows and events go together.
LEMMA DeleteAllKeeps == ASSUME RecordsInv, DeleteAll PROVE RecordsInv'
<1>0. CountsInv /\ NowInv /\ OpInv /\ StepInv /\ UncutInv /\ DiskInv
  BY DEF RecordsInv
<1>1. CountsInv'
  BY <1>0, Bounds DEF CountsInv, DeleteAll, DeleteReturns, NoRows, NoEvents, Nothing, world,
     histVars
<1>2. CheckpointsOK(blob, latest, meta, metaLatest, acked, deleted)'
  <2>1. /\ blob' = [s \in Steps |-> 0] /\ meta' = [s \in Steps |-> 0] /\ acked' = 0
        /\ deleted' \in BOOLEAN /\ UNCHANGED <<latest, metaLatest, puts, backend>>
    BY ZenonT(30), <1>0 DEF NowInv, CheckpointsOK, DeleteAll, DeleteReturns, NoRows, NoEvents, Nothing,
       checkpointVars, eventVars, histVars, world, ReturnOk
  <2>2. latest = NoCheckpoint /\ puts \in Nat /\ metaLatest \in Steps \cup {NoStep} /\ backend # "store"
    <3>1. op.pc \in RowOps
      BY DEF RowOps, DeleteAll
    <3>2. backend # "store"
      BY <1>0, <3>1 DEF OpInv
    <3>3. puts \in Nat
      BY <1>0, Bounds DEF CountsInv
    <3> QED BY <1>0, <3>2, <3>3 DEF NowInv, CheckpointsOK
  <2> QED BY <2>1, <2>2, Bounds DEF CheckpointsOK, NewestIsTop, NoBlobs
<1>3. EventsOK(batch, count, appended, spoiled)'
  <2>1. Nothing.batch \in [0 .. MaxBatches - 1 -> 0 .. MaxBatches]
    BY Bounds DEF Nothing
  <2>2. /\ batch' = Nothing.batch /\ count' = 0 /\ appended' = << >> /\ spoiled' = FALSE
        /\ batches' = batches /\ batches \in Nat
    BY <1>0, Bounds DEF CountsInv, DeleteAll, DeleteReturns, NoEvents
  <2>3. EventsOK(Nothing.batch, 0, << >>, FALSE)
    BY <2>1, <2>2, EmptyLog
  <2> QED BY ZenonT(30), <2>2, <2>3 DEF EventsOK
<1>4. OpInv'
  BY IdleOp DEF DeleteAll, DeleteReturns, NoRows, NoEvents, Nothing, ReturnOk
<1>5. StepInv'
  BY ZenonT(30), <1>0, <1>1, Bounds DEF NowInv, CheckpointsOK, OpInv, StepInv, CountsInv, NoBlobs,
     StorePuts, DeleteAll, DeleteReturns, NoRows, NoEvents, Nothing, checkpointVars, eventVars,
     histVars, world, ReturnOk
<1>6. UncutInv'
  BY ZenonT(30), <1>0, <1>1, Bounds, GotoMoves DEF NowInv, CheckpointsOK, OpInv, StepInv, UncutInv,
     CountsInv, NoBlobs, AllListed, StorePuts, StoreOps, RowOps, Call, NoOp, DeleteAll,
     DeleteReturns, NoRows, NoEvents, Nothing, checkpointVars, eventVars, histVars, world,
     ReturnOk
<1>7. DiskInv'
  BY <1>0, <1>1, DiskKept DEF CountsInv, DeleteAll, DeleteReturns, NoRows, NoEvents, Nothing,
     world, histVars
<1> QED BY <1>1, <1>2, <1>3, <1>4, <1>5, <1>6, <1>7 DEF RecordsInv, NowInv

\* A call fails: what the operation has done so far stays.
LEMMA StoreFailsKeeps == ASSUME RecordsInv, StoreFails PROVE RecordsInv'
<1>0. CountsInv /\ NowInv /\ OpInv /\ StepInv /\ UncutInv /\ DiskInv
  BY DEF RecordsInv
<1>1. CountsInv'
  BY <1>0, Bounds DEF CountsInv, StoreFails, world, histVars
<1>2. CheckpointsOK(blob, latest, meta, metaLatest, acked, deleted)'
  BY <1>0, <1>1, Bounds, CheckpointsKept DEF NowInv, CountsInv, StoreFails, checkpointVars,
     eventVars, histVars, world, ReturnOk
<1>3. EventsOK(batch, count, appended, spoiled)'
  BY <1>0, <1>1, EventsKept DEF NowInv, CountsInv, StoreFails, checkpointVars, eventVars,
     histVars, world, ReturnOk
<1>4. OpInv'
  BY IdleOp DEF StoreFails, ReturnOk
<1>5. StepInv'
  BY <1>0, StepKept DEF StoreFails, checkpointVars, eventVars, histVars, world, ReturnOk
<1>6. UncutInv'
  BY DEF UncutInv, StoreFails
<1>7. DiskInv'
  BY <1>0, <1>1, DiskKept DEF CountsInv, StoreFails, world, histVars
<1> QED BY <1>1, <1>2, <1>3, <1>4, <1>5, <1>6, <1>7 DEF RecordsInv, NowInv

\* The store's writer: the file holds what is stored now.
LEMMA FlushKeeps == ASSUME RecordsInv, Flush PROVE RecordsInv'
<1>0. CountsInv /\ NowInv /\ OpInv /\ StepInv /\ UncutInv /\ DiskInv
  BY DEF RecordsInv
<1>1. CountsInv'
  BY <1>0, Bounds DEF CountsInv, Flush, Stored, world, histVars
<1>2. CheckpointsOK(blob, latest, meta, metaLatest, acked, deleted)'
  <2>1. /\ UNCHANGED <<blob, latest, meta, metaLatest, acked, deleted>>
        /\ UNCHANGED <<puts, backend, cut>>
    BY ZenonT(30) DEF Flush, checkpointVars, histVars, world
  <2> QED BY ZenonT(30), <1>0, <2>1 DEF NowInv, CheckpointsOK, NewestIsTop, NoBlobs
<1>3. EventsOK(batch, count, appended, spoiled)'
  <2>1. UNCHANGED <<batch, count, appended, spoiled, batches>>
    BY ZenonT(30) DEF Flush, eventVars, histVars
  <2> QED BY ZenonT(30), <1>0, <2>1 DEF NowInv, EventsOK
<1>4. OpInv'
  BY ZenonT(30), <1>0, <1>1, Bounds, GotoMoves DEF NowInv, CheckpointsOK, OpInv, StepInv, CountsInv,
     NoBlobs, StorePuts, StoreOps, RowOps, Call, NoOp, Flush, Stored, checkpointVars, eventVars,
     histVars, world, ReturnOk
<1>5. StepInv'
  BY <1>0, StepKept DEF Flush, Stored, checkpointVars, eventVars, histVars, world, ReturnOk
<1>6. UncutInv'
  BY ZenonT(30), <1>0, <1>1, Bounds, GotoMoves DEF NowInv, CheckpointsOK, OpInv, StepInv, UncutInv,
     CountsInv, NoBlobs, AllListed, StorePuts, StoreOps, RowOps, Call, NoOp, Flush, Stored,
     checkpointVars, eventVars, histVars, world, ReturnOk
<1>7. DiskInv'
  <2>1. UNCHANGED <<backend, puts, batches, cut>>
    BY DEF Flush, Stored, checkpointVars, eventVars, histVars, world, ReturnOk
  <2>2. /\ disk'.blob = blob /\ disk'.latest = latest /\ disk'.meta = meta
        /\ disk'.metaLatest = metaLatest /\ disk'.acked = acked /\ disk'.deleted = deleted
        /\ disk'.batch = batch /\ disk'.count = count /\ disk'.appended = appended
        /\ disk'.whole = (op = NoOp) /\ disk'.spoiled = spoiled
    BY DEF Flush, Stored
  <2>3. CheckpointsOK(disk.blob, disk.latest, disk.meta, disk.metaLatest, disk.acked, disk.deleted)'
    BY ZenonT(30), <1>0, <2>1, <2>2 DEF NowInv, CheckpointsOK, NewestIsTop, NoBlobs
  <2>4. EventsOK(disk.batch, disk.count, disk.appended, disk.spoiled)'
    BY ZenonT(30), <1>0, <2>1, <2>2 DEF NowInv, EventsOK
  <2>5. backend = "store" /\ ~cut /\ op = NoOp => AllListed(blob, latest, meta, metaLatest)
    BY <1>0 DEF UncutInv, NoOp, Call
  <2> QED BY ZenonT(30), <2>1, <2>2, <2>3, <2>4, <2>5 DEF DiskInv, AllListed
<1> QED BY <1>1, <1>2, <1>3, <1>4, <1>5, <1>6, <1>7 DEF RecordsInv, NowInv

\* The next process finds what the file, or the database, holds.
LEMMA CrashKeeps == ASSUME RecordsInv, Crash PROVE RecordsInv'
<1>0. CountsInv /\ NowInv /\ OpInv /\ StepInv /\ UncutInv /\ DiskInv
  BY DEF RecordsInv
<1>1. UNCHANGED <<backend, disk, puts, batches>> /\ op' = NoOp /\ step' = NoRun
  BY DEF Crash, world
<1>2. /\ blob' = Survives.blob /\ latest' = Survives.latest /\ meta' = Survives.meta
      /\ metaLatest' = Survives.metaLatest /\ acked' = Survives.acked
      /\ deleted' = Survives.deleted /\ batch' = Survives.batch /\ count' = Survives.count
      /\ appended' = Survives.appended /\ spoiled' = Survives.spoiled /\ cut' = (cut \/ ~Survives.whole)
  BY DEF Crash
<1>3. backend \in {"store", "sqlite", "memory"}
  BY <1>0, Bounds DEF CountsInv
<1>4. /\ Survives.whole \in BOOLEAN
      /\ CheckpointsOK(Survives.blob, Survives.latest, Survives.meta, Survives.metaLatest,
                       Survives.acked, Survives.deleted)
      /\ EventsOK(Survives.batch, Survives.count, Survives.appended, Survives.spoiled)
      /\ backend = "store" /\ ~cut /\ Survives.whole =>
            AllListed(Survives.blob, Survives.latest, Survives.meta, Survives.metaLatest)
  <2>1. CASE backend = "store"
    <3>1. Survives = disk
      BY <2>1 DEF Survives
    <3> QED BY <1>0, <3>1 DEF DiskInv
  <2>2. CASE backend = "sqlite"
    <3>1. Survives = Stored
      BY <2>2 DEF Survives
    <3>2. /\ Stored.blob = blob /\ Stored.latest = latest /\ Stored.meta = meta
          /\ Stored.metaLatest = metaLatest /\ Stored.acked = acked /\ Stored.deleted = deleted
          /\ Stored.batch = batch /\ Stored.count = count /\ Stored.appended = appended
          /\ Stored.whole \in BOOLEAN /\ Stored.spoiled = spoiled
      BY ZenonT(30) DEF Stored
    <3> QED BY <1>0, <2>2, <3>1, <3>2 DEF NowInv
  <2>3. CASE backend = "memory"
    <3>1. Survives = Nothing
      BY <2>3 DEF Survives
    <3> QED BY <1>0, <2>3, <3>1, NothingOK
  <2> QED BY <1>3, <2>1, <2>2, <2>3
<1>5. CountsInv' /\ cut' \in BOOLEAN /\ (cut => cut')
  BY <1>0, <1>1, <1>2, <1>4 DEF CountsInv
<1>6. puts' \in Nat /\ puts <= puts' /\ batches' \in Nat /\ batches <= batches'
  BY <1>0, <1>1, Bounds DEF CountsInv
<1>7. CheckpointsOK(blob, latest, meta, metaLatest, acked, deleted)'
  <2>1. \A b, l, m, ml, a, d : CheckpointsOK(b, l, m, ml, a, d) =>
            CheckpointsOK(b, l, m, ml, a, d)'
    BY <1>0, <1>1, <1>5, <1>6, CheckpointsKept
  <2> QED BY ZenonT(30), <1>1, <1>2, <1>4, <1>5 DEF CheckpointsOK, NewestIsTop, NoBlobs
<1>8. EventsOK(batch, count, appended, spoiled)'
  BY ZenonT(30), <1>1, <1>2, <1>4 DEF EventsOK
<1>9. OpInv'
  BY <1>1, IdleOp
<1>10. StepInv'
  BY <1>1 DEF StepInv
<1>11. UncutInv'
  BY ZenonT(30), <1>1, <1>2, <1>4 DEF UncutInv, AllListed, NoOp, Call
<1>12. DiskInv'
  BY <1>0, <1>1, <1>5, <1>6, DiskKept
<1> QED BY <1>5, <1>7, <1>8, <1>9, <1>10, <1>11, <1>12 DEF RecordsInv, NowInv

-----------------------------------------------------------------------------
(* The theorems *)

\* A new thread.
LEMMA InitRecords == Init => RecordsInv
<1> SUFFICES ASSUME Init PROVE RecordsInv
  OBVIOUS
<1>1. CountsInv
  BY Bounds DEF Init, CountsInv
<1>2. /\ Nothing.blob = blob /\ Nothing.latest = latest /\ Nothing.meta = meta
      /\ Nothing.metaLatest = metaLatest /\ Nothing.acked = acked /\ Nothing.deleted = deleted
      /\ Nothing.batch = batch /\ Nothing.count = count /\ Nothing.appended = appended
      /\ Nothing.spoiled = spoiled
      /\ disk = Nothing /\ op = NoOp /\ step = NoRun
  BY ZenonT(30) DEF Init, Nothing
<1>3. NowInv /\ DiskInv
  BY <1>1, <1>2, NothingOK DEF NowInv, DiskInv
<1>4. OpInv
  BY ZenonT(30), <1>2 DEF OpInv, NoOp, Call, StorePuts, StoreOps, RowOps
<1>5. UncutInv
  BY ZenonT(30), <1>1, <1>2, NothingOK DEF UncutInv, NoOp, Call
<1>6. StepInv
  BY <1>2 DEF StepInv
<1> QED BY <1>1, <1>3, <1>4, <1>5, <1>6 DEF RecordsInv

\* Every call to the store, every failure and every crash keeps the invariant.
LEMMA NextKeepsRecords == RecordsInv /\ [Next]_vars => RecordsInv'
<1> SUFFICES ASSUME RecordsInv, [Next]_vars PROVE RecordsInv'
  OBVIOUS
<1>1. CASE UNCHANGED vars
  <2>1. CountsInv' /\ NowInv'
    BY ZenonT(30), <1>1 DEF vars, RecordsInv, CountsInv, NowInv, CheckpointsOK, EventsOK, NewestIsTop, NoBlobs
  <2>2. OpInv' /\ StepInv' /\ UncutInv'
    <3>1. OpInv'
      BY ZenonT(30), <1>1 DEF vars, RecordsInv, OpInv, NoBlobs
    <3>2. StepInv'
      BY <1>1 DEF vars, RecordsInv, StepInv
    <3>3. UncutInv'
      BY ZenonT(30), <1>1 DEF vars, RecordsInv, UncutInv, AllListed, NoBlobs
    <3> QED BY <3>1, <3>2, <3>3
  <2>3. DiskInv'
    <3>1. puts \in Nat /\ batches \in Nat
      BY Bounds DEF RecordsInv, CountsInv
    <3> QED BY <1>1, <3>1, DiskKept DEF vars, RecordsInv
  <2> QED BY <2>1, <2>2, <2>3 DEF RecordsInv
<1>2. CASE Next
  BY <1>2, GetLatestKeeps, PutKeeps, MissesLatestKeeps, AppendEventsKeeps, DeleteThreadKeeps,
     PutBlobKeeps,
     PutLatestKeeps, PutMetaKeeps, PutMetaLatestKeeps, PutRowKeeps, AppendBatchKeeps,
     AppendCountKeeps, AppendRowsKeeps, DeleteCountKeeps, DeleteMetaKeeps, DeleteBlobKeeps,
     DeleteMetaLatestKeeps, DeleteLatestKeeps, DeletePassesOverKeeps, DeleteRowsKeeps,
     DeleteEventsKeeps, DeleteAllKeeps, StoreFailsKeeps, FlushKeeps, CrashKeeps DEF Next
<1> QED BY <1>1, <1>2

\* What a checkpointer holds, what a crash would leave of it, and what the
\* operation in progress has done so far agree.
THEOREM RecordsInvariance == Spec => []RecordsInv
BY InitRecords, NextKeepsRecords, PTL DEF Spec

\* What is asked of a checkpointer follows from the invariant.
LEMMA RecordsInvSuffices == RecordsInv => RecordsHold
<1> SUFFICES ASSUME RecordsInv PROVE RecordsHold
  OBVIOUS
<1>1. CountsInv /\ NowInv /\ OpInv /\ StepInv
  BY DEF RecordsInv
<1>2. TypeOK
  <2>1. 0 .. puts \subseteq 0 .. MaxPuts /\ puts \in Nat
    BY <1>1, Bounds DEF CountsInv
  <2>2. blob \in [Steps -> 0 .. MaxPuts] /\ meta \in [Steps -> 0 .. MaxPuts] /\ acked \in 0 .. MaxPuts
    BY <1>1, <2>1 DEF NowInv, CheckpointsOK
  <2> QED BY ZenonT(30), <1>1, <2>2 DEF TypeOK, OpInv, CountsInv, NowInv, CheckpointsOK, EventsOK, StepInv
<1>3. ListedCanBeRead
  BY <1>1 DEF ListedCanBeRead, Listed, Rows, NowInv, CheckpointsOK
<1>4. ResumeNotOlderThanAcked /\ UncutDeleteIsComplete
  <2>1. CASE backend = "store"
    BY ZenonT(30), <1>1, <2>1 DEF ResumeNotOlderThanAcked, UncutDeleteIsComplete, Latest, NowInv, CheckpointsOK, NoBlobs
  <2>2. CASE backend # "store"
    <3>1. UncutDeleteIsComplete
      BY <1>1, <2>2, LatestRow DEF UncutDeleteIsComplete, NowInv, CheckpointsOK, NoBlobs
    <3>2. ASSUME acked # 0 PROVE Latest.put >= acked
      <4>1. PICK top \in Steps : blob[top] >= acked /\ \A s \in Steps : blob[s] # 0 => s <= top
        BY <1>1, <2>2, <3>2 DEF NowInv, CheckpointsOK, NewestIsTop
      <4>2. acked > 0 /\ blob[top] # 0 /\ ~NoBlobs(blob)
        BY <1>1, <3>2, <4>1, Bounds DEF NowInv, CountsInv, CheckpointsOK, NoBlobs
      <4>3. Latest.step \in Steps /\ Latest.put = blob[Latest.step] /\ Latest.put # 0
            /\ \A s \in Steps : blob[s] # 0 => s <= Latest.step
        BY <1>1, <2>2, <4>2, LatestRow
      <4>4. Latest.step = top
        BY <4>1, <4>2, <4>3, Bounds
      <4> QED BY <4>1, <4>3, <4>4
    <3> QED BY <3>1, <3>2 DEF ResumeNotOlderThanAcked
  <2> QED BY <2>1, <2>2
<1>5. EventLogExact
  BY <1>1 DEF EventLogExact, NowInv, EventsOK
<1> QED BY <1>2, <1>3, <1>4, <1>5 DEF RecordsHold, CheckpointsHold

\* Whatever fails or dies, every checkpoint that list shows can be read, what
\* get_latest returns is not older than a put that returned ok and reached the
\* disk, a delete that nothing cut short is complete, and list_events returns
\* what append_events was given.
THEOREM RecordsAreKept == Spec => []RecordsHold
BY RecordsInvSuffices, RecordsInvariance, PTL
=============================================================================
