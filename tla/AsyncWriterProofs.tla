-------------------------- MODULE AsyncWriterProofs --------------------------
(***************************************************************************)
(* Proofs about AsyncWriter, for every number of runs and every capacity:  *)
(* the inductive invariant behind its safety properties, and that it       *)
(* implements CheckpointQueue.                                             *)
(***************************************************************************)
EXTENDS AsyncWriter, FiniteSetTheorems, SequenceTheorems, TLAPS

\* What the safety properties need to be inductive: which thread is where
\* when the queue is in which state.
Shape ==
    /\ Len(queue) <= Capacity
    /\ Len(inflight) = IF wpc = "writing" THEN 1 ELSE 0
    /\ Len(attempted) = written
    /\ queued = written + Len(inflight) + Len(queue)
    /\ stop <=> dpc # "alive"
    /\ stop => \A r \in Runs : pc[r] = "idle"
    /\ wpc = "none" => Len(queue) = 0
    /\ wpc = "exited" => Len(queue) = 0 /\ stop
    /\ dpc = "gone" => wpc \in {"none", "exited"}
    /\ \A r \in Runs : pc[r] \in {"space", "spaceWoken"} => accepted[r] < MaxWrites

IInv == TypeOK /\ Shape /\ WriterWakes /\ SpaceWakes /\ FlushWaits /\ FailureKept

\* Pushing a job behind the one in flight.
LEMMA PendingPush ==
    ASSUME NEW S, NEW a \in Seq(S), NEW q \in Seq(S), NEW j \in S
    PROVE  /\ a \o Append(q, j) = Append(a \o q, j)
           /\ Append(q, j) \in Seq(S)
           /\ Len(Append(q, j)) = Len(q) + 1
<1>1. Append(q, j) = q \o <<j>> /\ Append(a \o q, j) = (a \o q) \o <<j>>
  BY AppendIsConcat, ConcatProperties
<1>2. <<j>> \in Seq(S)
  OBVIOUS
<1>3. (a \o q) \o <<j>> = a \o (q \o <<j>>)
  BY <1>2, ConcatAssociative
<1> QED  BY <1>1, <1>3, AppendProperties

\* Popping the oldest job into flight leaves the same jobs outstanding.
LEMMA PendingTake ==
    ASSUME NEW S, NEW a \in Seq(S), NEW q \in Seq(S), Len(a) = 0, q # << >>
    PROVE  /\ <<Head(q)>> \o Tail(q) = a \o q
           /\ Head(q) \in S /\ Tail(q) \in Seq(S)
           /\ Len(Tail(q)) = Len(q) - 1
<1>1. Head(q) \in S /\ Tail(q) \in Seq(S) /\ Len(Tail(q)) = Len(q) - 1
  BY HeadTailProperties
<1>2. a = << >>
  BY EmptySeq
<1>3. a \o q = q
  BY <1>2, ConcatEmptySeq
<1>4. <<Head(q)>> \o Tail(q) = q
  BY ConcatSimplifications
<1> QED  BY <1>1, <1>3, <1>4

\* Finishing the job in flight removes the oldest outstanding job.
LEMMA PendingDone ==
    ASSUME NEW S, NEW a \in Seq(S), NEW q \in Seq(S), Len(a) = 1
    PROVE  /\ Head(a) \in S
           /\ a \o q # << >>
           /\ Head(a \o q) = Head(a)
           /\ Tail(a \o q) = << >> \o q
           /\ \A i \in 1 .. Len(q) : (<< >> \o q)[i] = (a \o q)[i + 1]
<1>1. a # << >>
  BY EmptySeq
<1>2. Head(a) \in S
  BY <1>1, HeadTailProperties
<1>3. Head(a) = a[1]
  BY <1>1
<1>4. a # << >> /\ Head(a) \in S /\ Head(a) = a[1]
  BY <1>1, <1>2, <1>3
<1>5. /\ a \o q \in Seq(S) /\ Len(a \o q) = Len(a) + Len(q)
      /\ \A i \in 1 .. Len(a) + Len(q) : (a \o q)[i] = IF i <= Len(a) THEN a[i] ELSE q[i - Len(a)]
  BY ConcatProperties, Zenon
<1>6. /\ a \o q \in Seq(S) /\ Len(a \o q) = 1 + Len(q)
      /\ \A i \in 1 .. 1 + Len(q) : (a \o q)[i] = IF i <= 1 THEN a[i] ELSE q[i - 1]
  BY <1>5
<1>7. a \o q # << >> /\ Head(a \o q) = Head(a)
  BY <1>4, <1>6
<1>8. /\ Tail(a \o q) \in Seq(S) /\ Len(Tail(a \o q)) = Len(q)
      /\ \A i \in 1 .. Len(q) : Tail(a \o q)[i] = q[i]
  BY <1>6, <1>7, HeadTailProperties
<1>9. Tail(a \o q) = q
  BY <1>8, SeqEqual
<1>10. << >> \o q = q
  BY ConcatEmptySeq
<1>11. \A i \in 1 .. Len(q) : q[i] = (a \o q)[i + 1]
  BY <1>6
<1> QED  BY <1>4, <1>7, <1>9, <1>10, <1>11

-----------------------------------------------------------------------------
(* The inductive invariant *)

woken == {r \in Runs : pc[r] = "spaceWoken"}

\* The woken runs are finitely many, so they can be counted.
LEMMA WokenFinite ==
    /\ IsFiniteSet(woken) /\ Cardinality(woken) \in Nat
    /\ IsFiniteSet(woken') /\ Cardinality(woken') \in Nat
<1>1. woken \subseteq Runs /\ woken' \subseteq Runs
  BY DEF woken
<1> QED  BY <1>1, RunsFinite, FS_Subset, FS_CardinalityType

\* The writer starts idle, with an empty queue.
LEMMA InitIInv == Init => IInv
<1> SUFFICES ASSUME Init PROVE IInv
  OBVIOUS
<1>1. TypeOK
  <2>1. << >> \in Seq(Job)
    OBVIOUS
  <2>2. accepted \in [Runs -> 0 .. MaxWrites] /\ target \in [Runs -> Nat]
    BY MaxWritesNatural DEF Init
  <2> QED  BY ZenonT(30), <2>1, <2>2 DEF Init, TypeOK
<1>2. Shape
  BY CapacityPositive DEF Init, Shape
<1>3. WriterWakes /\ SpaceWakes /\ FlushWaits /\ FailureKept
  BY DEF Init, WriterWakes, SpaceWakes, FlushWaits, FailureKept
<1> QED  BY <1>1, <1>2, <1>3 DEF IInv

\* A run that goes to wait for space: the queue is full, so no slot is free.
LEMMA FullStep ==
    ASSUME IInv, NEW r \in Runs, EnqueueFull(r) \/ EnqueueFullAgain(r)
    PROVE  IInv'
<1>1. /\ Len(queue) >= Capacity
      /\ pc[r] \in {"idle", "spaceWoken"} /\ accepted[r] < MaxWrites /\ ~stop
      /\ pc' = [pc EXCEPT ![r] = "space"]
      /\ wpc' = IF wpc = "none" THEN "ready" ELSE wpc
      /\ UNCHANGED <<queue, inflight, queued, written, error, stop, target,
                     dpc, accepted, attempted, failed>>
  BY CapacityPositive DEF EnqueueFull, EnqueueFullAgain, HasSpace, IInv, TypeOK, Shape
<1>2. wpc # "none" /\ wpc' = wpc
  BY <1>1, CapacityPositive DEF IInv, TypeOK, Shape
<1>3. TypeOK'
  BY <1>1, <1>2 DEF IInv, TypeOK
<1>4. Shape'
  BY ZenonT(30), <1>1, <1>2 DEF IInv, TypeOK, Shape
<1>5. WriterWakes'
  BY <1>1, <1>2 DEF IInv, TypeOK, WriterWakes
<1>6. SpaceWakes'
  <2>1. Capacity <= Len(queue') + Cardinality(woken')
    BY <1>1, WokenFinite, CapacityPositive DEF IInv, TypeOK
  <2> QED  BY <2>1, <1>1 DEF SpaceWakes, woken
<1>7. FlushWaits' /\ FailureKept'
  BY <1>1 DEF IInv, TypeOK, FlushWaits, FailureKept, Pending
<1> QED  BY <1>3, <1>4, <1>5, <1>6, <1>7 DEF IInv

\* A push: it uses the slot of the run that was woken for it, if it was.
LEMMA EnqueueStep ==
    ASSUME IInv, NEW r \in Runs, Enqueue(r)
    PROVE  IInv'
<1> DEFINE j == <<r, accepted[r] + 1>>
<1>1. /\ pc[r] \in {"idle", "spaceWoken"} /\ accepted[r] < MaxWrites /\ ~stop
      /\ Len(queue) < Capacity
      /\ queue' = Append(queue, j)
      /\ queued' = queued + 1
      /\ accepted' = [accepted EXCEPT ![r] = @ + 1]
      /\ wpc' = IF wpc = "none" THEN "ready" ELSE wpc
      /\ pc' = [pc EXCEPT ![r] = "signal"]
      /\ UNCHANGED <<inflight, written, error, stop, target, dpc,
                     attempted, failed>>
  BY DEF Enqueue, HasSpace, IInv, TypeOK, Shape
<1>2. j \in Job
  BY <1>1, MaxWritesNatural DEF IInv, TypeOK, Job
<1>3. /\ queue' \in Seq(Job) /\ Len(queue') = Len(queue) + 1
      /\ inflight \o queue' = Append(inflight \o queue, j)
  BY <1>1, <1>2, PendingPush DEF IInv, TypeOK
<1>4. TypeOK'
  <2>1. accepted' \in [Runs -> 0 .. MaxWrites]
    BY <1>1, MaxWritesNatural DEF IInv, TypeOK
  <2> QED  BY <1>1, <1>3, <2>1 DEF IInv, TypeOK
<1>5. Shape'
  <2>1. \A q \in Runs : pc'[q] \in {"space", "spaceWoken"} => accepted'[q] < MaxWrites
    BY <1>1 DEF IInv, TypeOK, Shape
  <2>2. /\ Len(queue') <= Capacity
        /\ Len(inflight') = IF wpc' = "writing" THEN 1 ELSE 0
        /\ Len(attempted') = written'
        /\ queued' = written' + Len(inflight') + Len(queue')
    <3>1. Len(queue) \in Nat /\ Len(inflight) \in Nat
      BY LenProperties DEF IInv, TypeOK
    <3>2. /\ inflight' = inflight /\ attempted' = attempted /\ written' = written
          /\ Len(queue) < Capacity /\ queued' = queued + 1
          /\ wpc' = "writing" <=> wpc = "writing"
      BY <1>1
    <3>3. /\ Len(inflight) = IF wpc = "writing" THEN 1 ELSE 0
          /\ Len(attempted) = written
          /\ queued = written + Len(inflight) + Len(queue)
      BY DEF IInv, Shape
    <3>4. Len(inflight') = IF wpc' = "writing" THEN 1 ELSE 0
      BY <3>2, <3>3
    <3>5. queued \in Nat /\ written \in Nat
      BY DEF IInv, TypeOK
    <3>6. Len(queue') <= Capacity
      BY <1>3, <3>1, <3>2, CapacityPositive
    <3>7. queued' = written' + Len(inflight') + Len(queue')
      <4>1. Len(queue') = Len(queue) + 1 /\ Len(inflight') = Len(inflight)
        BY <1>3, <3>2
      <4>2. queued' = queued + 1 /\ written' = written
        BY <3>2
      <4> QED  BY <4>1, <4>2, <3>1, <3>3, <3>5
    <3> QED  BY <3>2, <3>3, <3>4, <3>6, <3>7
  <2>3. ~stop' /\ dpc' = "alive"
    <3>1. stop' = stop /\ dpc' = dpc /\ ~stop
      BY <1>1
    <3> QED  BY <3>1, Zenon DEF IInv, Shape
  <2>4. wpc' \notin {"none", "exited"}
    BY <1>1 DEF IInv, TypeOK, Shape
  <2> QED  BY <2>1, <2>2, <2>3, <2>4 DEF Shape
<1>6. WriterWakes'
  <2>1. pc'[r] = "signal"
    BY <1>1 DEF IInv, TypeOK
  <2> QED  BY <1>1, <2>1 DEF IInv, TypeOK, WriterWakes
<1>7. SpaceWakes'
  <2> SUFFICES ASSUME \E q \in Runs : pc'[q] = "space"
               PROVE  Capacity <= Len(queue') + Cardinality(woken')
    BY DEF SpaceWakes, woken
  <2>1. Capacity <= Len(queue) + Cardinality(woken)
    BY <1>1 DEF IInv, TypeOK, SpaceWakes, woken
  <2>2. woken' = woken \ {r}
    BY <1>1 DEF IInv, TypeOK, woken
  <2>3. Cardinality(woken') >= Cardinality(woken) - 1
    BY <2>2, WokenFinite, FS_RemoveElement
  <2> QED  BY <2>1, <2>3, <1>3, WokenFinite, CapacityPositive DEF IInv, TypeOK
<1>8. FlushWaits'
  <2> SUFFICES ASSUME NEW q \in Runs
               PROVE  /\ pc'[q] = "done" => written' < target'[q]
                      /\ pc'[q] \in {"done", "doneWoken"} =>
                            /\ target'[q] <= queued'
                            /\ \A i \in DOMAIN Pending' :
                                  Pending'[i][1] = q => written' + i <= target'[q]
    BY DEF FlushWaits
  <2>1. CASE q = r
    BY <2>1, <1>1 DEF IInv, TypeOK
  <2>2. CASE q # r
    <3>1. pc'[q] = pc[q] /\ target' = target /\ written' = written
      BY <2>2, <1>1 DEF IInv, TypeOK
    <3>2. Pending \in Seq(Job) /\ Pending' = Append(Pending, j)
      BY ZenonT(30), <1>1, <1>3, ConcatProperties DEF IInv, TypeOK, Pending
    <3>3. /\ Len(Pending') = Len(Pending) + 1
          /\ Pending'[Len(Pending) + 1] = j
          /\ \A i \in 1 .. Len(Pending) : Pending'[i] = Pending[i]
          /\ DOMAIN Pending' = 1 .. Len(Pending) + 1
      BY <1>2, <3>2, AppendProperties, LenProperties
    <3>4. ASSUME pc[q] \in {"done", "doneWoken"}, NEW i \in DOMAIN Pending', Pending'[i][1] = q
          PROVE  written' + i <= target'[q]
      <4>1. i # Len(Pending) + 1
        BY <2>2, <3>3, <3>4
      <4>2. i \in DOMAIN Pending /\ Pending[i][1] = q
        BY <4>1, <3>2, <3>3, <3>4, LenProperties
      <4> QED  BY <3>1, <3>4, <4>2 DEF IInv, FlushWaits
    <3>5. pc[q] \in {"done", "doneWoken"} => target[q] <= queued'
      BY <1>1 DEF IInv, TypeOK, FlushWaits
    <3> QED  BY <3>1, <3>4, <3>5 DEF IInv, FlushWaits
  <2> QED  BY <2>1, <2>2
<1>9. FailureKept'
  BY <1>1 DEF IInv, FailureKept
<1> QED  BY <1>4, <1>5, <1>6, <1>7, <1>8, <1>9 DEF IInv

\* notify_one of the writer: it is awake afterwards.
LEMMA SignalStep ==
    ASSUME IInv, NEW r \in Runs, Signal(r)
    PROVE  IInv'
<1>1. /\ pc[r] = "signal"
      /\ pc' = [pc EXCEPT ![r] = "idle"]
      /\ wpc' = IF wpc = "sleep" THEN "ready" ELSE wpc
      /\ UNCHANGED <<queue, inflight, queued, written, error, stop, target,
                     dpc, accepted, attempted, failed>>
  BY DEF Signal
<1>2. wpc' # "sleep"
  BY <1>1
<1>3. TypeOK'
  BY <1>1 DEF IInv, TypeOK
<1>4. Shape'
  BY ZenonT(30), <1>1 DEF IInv, TypeOK, Shape
<1>5. WriterWakes'
  BY <1>2 DEF WriterWakes
<1>6. SpaceWakes'
  <2>1. woken' = woken
    BY <1>1 DEF IInv, TypeOK, woken
  <2>2. (\E q \in Runs : pc'[q] = "space") => \E q \in Runs : pc[q] = "space"
    BY <1>1 DEF IInv, TypeOK
  <2> QED  BY ZenonT(30), <1>1, <2>1, <2>2 DEF IInv, SpaceWakes, woken
<1>7. FlushWaits' /\ FailureKept'
  BY <1>1 DEF IInv, TypeOK, FlushWaits, FailureKept, Pending
<1> QED  BY <1>3, <1>4, <1>5, <1>6, <1>7 DEF IInv

\* A flush that goes to wait: the target it takes counts every job there is.
LEMMA FlushWaitStep ==
    ASSUME IInv, NEW r \in Runs, FlushWait(r) \/ FlushWaitAgain(r)
    PROVE  IInv'
<1>1. /\ pc[r] \in {"idle", "doneWoken"} /\ ~stop
      /\ pc' = [pc EXCEPT ![r] = "done"]
      /\ UNCHANGED <<queue, inflight, queued, written, error, stop, wpc, dpc,
                     accepted, attempted, failed>>
  BY DEF FlushWait, FlushWaitAgain, IInv, TypeOK, Shape
<1>2. /\ target' \in [Runs -> Nat]
      /\ written < target'[r] /\ target'[r] <= queued
      /\ \A i \in DOMAIN Pending : Pending[i][1] = r => written + i <= target'[r]
      /\ \A q \in Runs \ {r} : target'[q] = target[q]
  <2>1. CASE FlushWait(r)
    <3>1. /\ written < queued
          /\ target' = [target EXCEPT ![r] = queued]
      BY <2>1 DEF FlushWait
    <3>2. DOMAIN Pending = 1 .. Len(inflight) + Len(queue)
      BY ConcatProperties, LenProperties DEF IInv, TypeOK, Pending
    <3>3. \A i \in DOMAIN Pending : written + i <= queued
      BY <3>2 DEF IInv, TypeOK, Shape
    <3> QED  BY <3>1, <3>3 DEF IInv, TypeOK
  <2>2. CASE FlushWaitAgain(r)
    BY <2>2 DEF FlushWaitAgain, IInv, TypeOK, FlushWaits
  <2> QED  BY <2>1, <2>2
<1>3. TypeOK'
  BY ZenonT(30), <1>1, <1>2 DEF IInv, TypeOK
<1>4. Shape'
  BY ZenonT(30), <1>1 DEF IInv, TypeOK, Shape
<1>5. WriterWakes'
  BY <1>1 DEF IInv, TypeOK, WriterWakes
<1>6. SpaceWakes'
  <2>1. woken' = woken
    BY <1>1 DEF IInv, TypeOK, woken
  <2>2. (\E q \in Runs : pc'[q] = "space") => \E q \in Runs : pc[q] = "space"
    BY <1>1 DEF IInv, TypeOK
  <2> QED  BY <1>1, <2>1, <2>2 DEF IInv, SpaceWakes, woken
<1>7. FlushWaits'
  <2>1. Pending' = Pending
    BY <1>1 DEF Pending
  <2>2. \A q \in Runs \ {r} : pc'[q] = pc[q]
    BY <1>1 DEF IInv, TypeOK
  <2> QED  BY <1>1, <1>2, <2>1, <2>2 DEF IInv, FlushWaits
<1>8. FailureKept'
  BY <1>1 DEF IInv, FailureKept
<1> QED  BY <1>3, <1>4, <1>5, <1>6, <1>7, <1>8 DEF IInv

\* A flush that returns: it takes the error with it.
LEMMA FlushReturnStep ==
    ASSUME IInv, NEW r \in Runs, FlushReturn(r)
    PROVE  IInv'
<1>1. /\ pc[r] \in {"idle", "doneWoken"}
      /\ pc' = [pc EXCEPT ![r] = "idle"]
      /\ target' = [target EXCEPT ![r] = 0]
      /\ error' = {} /\ failed' = {}
      /\ UNCHANGED <<queue, inflight, queued, written, stop, wpc, dpc,
                     accepted, attempted>>
  BY DEF FlushReturn, FlushReady
<1>2. TypeOK'
  BY <1>1 DEF IInv, TypeOK
<1>3. Shape'
  BY ZenonT(30), <1>1 DEF IInv, TypeOK, Shape
<1>4. WriterWakes'
  BY <1>1 DEF IInv, TypeOK, WriterWakes
<1>5. SpaceWakes'
  <2>1. woken' = woken
    BY <1>1 DEF IInv, TypeOK, woken
  <2>2. (\E q \in Runs : pc'[q] = "space") => \E q \in Runs : pc[q] = "space"
    BY <1>1 DEF IInv, TypeOK
  <2> QED  BY ZenonT(30), <1>1, <2>1, <2>2 DEF IInv, SpaceWakes, woken
<1>6. FlushWaits'
  <2>1. Pending' = Pending
    BY <1>1 DEF Pending
  <2>2. /\ pc'[r] = "idle"
        /\ \A q \in Runs \ {r} : pc'[q] = pc[q] /\ target'[q] = target[q]
    BY <1>1 DEF IInv, TypeOK
  <2> QED  BY <1>1, <2>1, <2>2 DEF IInv, FlushWaits
<1>7. FailureKept'
  BY <1>1 DEF FailureKept
<1> QED  BY <1>2, <1>3, <1>4, <1>5, <1>6, <1>7 DEF IInv

\* The writer goes to sleep or exits: the queue is empty.
LEMMA WriterIdleStep ==
    ASSUME IInv, WriterSleep \/ WriterExit
    PROVE  IInv'
<1>1. /\ wpc = "ready" /\ queue = << >>
      /\ wpc' \in {"sleep", "exited"}
      /\ wpc' = "sleep" => ~stop
      /\ wpc' = "exited" => stop
      /\ UNCHANGED <<queue, inflight, queued, written, error, stop, pc, target,
                     dpc, accepted, attempted, failed>>
  BY DEF WriterSleep, WriterExit
<1>2. TypeOK'
  BY <1>1 DEF IInv, TypeOK
<1>3. Shape'
  <2>1. Len(queue) = 0
    BY <1>1
  <2> QED  BY <1>1, <2>1 DEF IInv, TypeOK, Shape
<1>4. WriterWakes'
  BY <1>1 DEF WriterWakes
<1>5. SpaceWakes' /\ FlushWaits' /\ FailureKept'
  BY <1>1 DEF IInv, SpaceWakes, FlushWaits, FailureKept, Pending
<1> QED  BY <1>2, <1>3, <1>4, <1>5 DEF IInv

\* The writer pops a job: the slot it frees has the run it notifies, or no
\* run waits for one.
LEMMA TakeStep ==
    ASSUME IInv, WriterTake
    PROVE  IInv'
<1>1. /\ wpc = "ready" /\ queue # << >>
      /\ inflight' = <<Head(queue)>> /\ queue' = Tail(queue)
      /\ pc' \in NotifySpace(pc)
      /\ wpc' = "writing"
      /\ UNCHANGED <<queued, written, error, stop, target, dpc,
                     accepted, attempted, failed>>
  BY DEF WriterTake
<1>2. /\ Len(inflight) = 0
      /\ inflight' \o queue' = inflight \o queue
      /\ inflight' \in Seq(Job) /\ Len(inflight') = 1
      /\ queue' \in Seq(Job) /\ Len(queue') = Len(queue) - 1
  <2>1. Len(inflight) = 0
    BY <1>1 DEF IInv, TypeOK, Shape
  <2>2. /\ <<Head(queue)>> \o Tail(queue) = inflight \o queue
        /\ Head(queue) \in Job /\ Tail(queue) \in Seq(Job)
        /\ Len(Tail(queue)) = Len(queue) - 1
    BY <1>1, <2>1, PendingTake DEF IInv, TypeOK
  <2> QED  BY <1>1, <2>1, <2>2
<1>3. \/ pc' = pc /\ \A r \in Runs : pc[r] # "space"
      \/ \E r \in Runs : pc[r] = "space" /\ pc' = [pc EXCEPT ![r] = "spaceWoken"]
  BY <1>1 DEF NotifySpace
<1>4. TypeOK'
  <2>1. pc' \in [Runs -> {"idle", "space", "spaceWoken", "signal", "done", "doneWoken"}]
    BY ZenonT(30), <1>3 DEF IInv, TypeOK
  <2> QED  BY <1>1, <1>2, <2>1 DEF IInv, TypeOK
<1>5. /\ \A r \in Runs : pc[r] = "idle" <=> pc'[r] = "idle"
      /\ \A r \in Runs : pc'[r] \in {"space", "spaceWoken"} => pc[r] \in {"space", "spaceWoken"}
      /\ \A r \in Runs : pc'[r] \in {"done", "doneWoken"} => pc'[r] = pc[r]
  BY <1>3 DEF IInv, TypeOK
<1>6. Shape'
  <2>1. /\ Len(queue') <= Capacity
        /\ queued' = written' + Len(inflight') + Len(queue')
    <3>1. Len(queue) \in Nat
      BY LenProperties DEF IInv, TypeOK
    <3> QED  BY <3>1, <1>1, <1>2, CapacityPositive DEF IInv, TypeOK, Shape
  <2>2. dpc # "gone"
    BY <1>1 DEF IInv, Shape
  <2>3. /\ stop' <=> dpc' # "alive"
        /\ stop' => \A r \in Runs : pc'[r] = "idle"
    <3>1. stop' = stop /\ dpc' = dpc
      BY <1>1
    <3> QED  BY <3>1, <1>5, Zenon DEF IInv, Shape
  <2>4. \A r \in Runs : pc'[r] \in {"space", "spaceWoken"} => accepted'[r] < MaxWrites
    BY <1>1, <1>5 DEF IInv, Shape
  <2> QED  BY <1>1, <1>2, <2>1, <2>2, <2>3, <2>4 DEF IInv, Shape
<1>7. WriterWakes'
  BY <1>1 DEF WriterWakes
<1>8. SpaceWakes'
  <2> SUFFICES ASSUME \E r \in Runs : pc'[r] = "space"
               PROVE  Capacity <= Len(queue') + Cardinality(woken')
    BY DEF SpaceWakes, woken
  <2>1. PICK r \in Runs : pc[r] = "space" /\ pc' = [pc EXCEPT ![r] = "spaceWoken"]
    BY <1>3 DEF IInv, TypeOK
  <2>2. Capacity <= Len(queue) + Cardinality(woken)
    BY <2>1 DEF IInv, SpaceWakes, woken
  <2>3. woken' = woken \cup {r} /\ r \notin woken
    BY <2>1 DEF IInv, TypeOK, woken
  <2>4. Cardinality(woken') = Cardinality(woken) + 1
    BY <2>3, WokenFinite, FS_AddElement
  <2>5. Len(queue) \in Nat
    BY LenProperties DEF IInv, TypeOK
  <2> QED  BY <2>2, <2>4, <2>5, <1>2, WokenFinite, CapacityPositive
<1>9. FlushWaits'
  <2>1. Pending' = Pending
    BY <1>2 DEF Pending
  <2> QED  BY <1>1, <1>5, <2>1 DEF IInv, FlushWaits
<1>10. FailureKept'
  BY <1>1 DEF IInv, FailureKept
<1> QED  BY <1>4, <1>6, <1>7, <1>8, <1>9, <1>10 DEF IInv

\* A write ends: the jobs behind it move up by one and so does written_.
LEMMA DoneStep ==
    ASSUME IInv, WriterDone
    PROVE  IInv'
<1> DEFINE job == Head(inflight)
<1>1. /\ wpc = "writing"
      /\ attempted' = Append(attempted, job)
      /\ inflight' = << >>
      /\ written' = written + 1
      /\ \/ UNCHANGED <<error, failed>>
         \/ /\ error' = IF error = {} THEN {job} ELSE error
            /\ failed' = failed \cup {job}
      /\ pc' = NotifyDone(pc)
      /\ wpc' = "ready"
      /\ UNCHANGED <<queue, queued, stop, target, dpc, accepted>>
  BY DEF WriterDone
<1>2. Len(inflight) = 1
  BY <1>1 DEF IInv, Shape
<1>3. /\ job \in Job
      /\ Tail(Pending) = Pending' /\ Pending # << >>
      /\ \A i \in 1 .. Len(queue) : Pending'[i] = Pending[i + 1]
      /\ Pending \in Seq(Job) /\ Len(Pending) = 1 + Len(queue)
      /\ Pending' \in Seq(Job) /\ Len(Pending') = Len(queue)
  <2>1. Pending' = << >> \o queue
    BY <1>1 DEF Pending
  <2>2. /\ job \in Job
        /\ Tail(Pending) = << >> \o queue /\ Pending # << >>
        /\ \A i \in 1 .. Len(queue) : (<< >> \o queue)[i] = Pending[i + 1]
    BY <1>2, PendingDone DEF IInv, TypeOK, Pending
  <2>3. Pending \in Seq(Job) /\ Len(Pending) = 1 + Len(queue)
    <3>1. inflight \in Seq(Job) /\ queue \in Seq(Job)
      BY DEF IInv, TypeOK
    <3>2. Pending \in Seq(Job) /\ Len(Pending) = Len(inflight) + Len(queue)
      BY <3>1, ConcatProperties, Zenon DEF Pending
    <3> QED  BY <1>2, <3>2
  <2>4. << >> \o queue = queue
    BY ConcatEmptySeq DEF IInv, TypeOK
  <2> QED  BY <2>1, <2>2, <2>3, <2>4 DEF IInv, TypeOK
<1>4. /\ attempted' \in Seq(Job) /\ Len(attempted') = Len(attempted) + 1
  BY <1>1, <1>3, AppendProperties DEF IInv, TypeOK
<1>5. /\ pc' \in [Runs -> {"idle", "space", "spaceWoken", "signal", "done", "doneWoken"}]
      /\ \A r \in Runs : pc'[r] # "done"
      /\ \A r \in Runs : pc[r] \notin {"done", "doneWoken"} => pc'[r] = pc[r]
      /\ \A r \in Runs : pc[r] \in {"done", "doneWoken"} => pc'[r] = "doneWoken"
  BY <1>1 DEF IInv, TypeOK, NotifyDone
<1>6. TypeOK'
  <2>1. error' \subseteq Job /\ failed' \subseteq Job
    BY <1>1, <1>3 DEF IInv, TypeOK
  <2>2. inflight' \in Seq(Job) /\ written' \in Nat
    BY <1>1 DEF IInv, TypeOK
  <2> QED  BY <1>1, <1>4, <1>5, <2>1, <2>2 DEF IInv, TypeOK
<1>7. Shape'
  <2>1. Len(queue) \in Nat /\ Len(inflight') = 0
    BY <1>1, LenProperties DEF IInv, TypeOK
  <2>2. queued' = written' + Len(inflight') + Len(queue') /\ Len(attempted') = written'
    BY <1>1, <1>2, <1>4, <2>1 DEF IInv, TypeOK, Shape
  <2>3. dpc # "gone"
    BY <1>1 DEF IInv, Shape
  <2>4. /\ stop' <=> dpc' # "alive"
        /\ stop' => \A r \in Runs : pc'[r] = "idle"
    <3>1. stop' = stop /\ dpc' = dpc
      BY <1>1
    <3> QED  BY <3>1, <1>5 DEF IInv, Shape
  <2>5. \A r \in Runs : pc'[r] \in {"space", "spaceWoken"} => accepted'[r] < MaxWrites
    BY <1>1, <1>5 DEF IInv, Shape
  <2> QED  BY <1>1, <2>1, <2>2, <2>3, <2>4, <2>5 DEF IInv, Shape
<1>8. WriterWakes'
  BY <1>1 DEF WriterWakes
<1>9. SpaceWakes'
  <2>1. woken' = woken
    BY <1>5 DEF woken
  <2>2. (\E q \in Runs : pc'[q] = "space") => \E q \in Runs : pc[q] = "space"
    BY <1>5
  <2> QED  BY ZenonT(30), <1>1, <2>1, <2>2 DEF IInv, SpaceWakes, woken
<1>10. FlushWaits'
  <2> SUFFICES ASSUME NEW r \in Runs, pc'[r] = "doneWoken"
               PROVE  /\ target'[r] <= queued'
                      /\ \A i \in DOMAIN Pending' :
                            Pending'[i][1] = r => written' + i <= target'[r]
    BY <1>5 DEF FlushWaits
  <2>1. pc[r] \in {"done", "doneWoken"}
    BY <1>5
  <2>2. ASSUME NEW i \in DOMAIN Pending', Pending'[i][1] = r
        PROVE  written' + i <= target'[r]
    <3>1. i \in 1 .. Len(queue) /\ i \in Nat
      BY <2>2, <1>3, LenProperties
    <3>2. i + 1 \in DOMAIN Pending /\ Pending[i + 1][1] = r
      BY <3>1, <2>2, <1>3, LenProperties
    <3>3. written + (i + 1) <= target[r]
      BY <2>1, <3>2 DEF IInv, FlushWaits
    <3>4. target' = target /\ written' = written + 1
      BY <1>1
    <3> QED  BY <3>1, <3>3, <3>4 DEF IInv, TypeOK
  <2> QED  BY <1>1, <2>1, <2>2 DEF IInv, FlushWaits
<1>11. FailureKept'
  BY <1>1 DEF IInv, FailureKept
<1> QED  BY <1>6, <1>7, <1>8, <1>9, <1>10, <1>11 DEF IInv

\* The destructor's steps.
LEMMA DestroyStep ==
    ASSUME IInv, Destroy
    PROVE  IInv'
<1>1. UNCHANGED <<queue, inflight, queued, written, error, pc, target,
                  accepted, attempted, failed>>
  BY DEF Destroy, DestroyStop, DestroyNotify, DestroyJoin
<1>2. \/ /\ dpc = "alive" /\ stop' = TRUE /\ dpc' = "notify" /\ wpc' = wpc
         /\ \A r \in Runs : pc[r] = "idle"
      \/ /\ dpc = "notify" /\ dpc' = "join" /\ stop' = stop
         /\ wpc' = IF wpc = "sleep" THEN "ready" ELSE wpc
      \/ /\ dpc = "join" /\ dpc' = "gone" /\ stop' = stop /\ wpc' = wpc
         /\ wpc \in {"none", "exited"}
  BY DEF Destroy, DestroyStop, DestroyNotify, DestroyJoin
<1>3. TypeOK'
  BY ZenonT(30), <1>1, <1>2 DEF IInv, TypeOK
<1>4. Shape'
  BY ZenonT(30), <1>1, <1>2 DEF IInv, TypeOK, Shape
<1>5. WriterWakes'
  BY <1>1, <1>2 DEF IInv, TypeOK, Shape, WriterWakes
<1>6. SpaceWakes' /\ FlushWaits' /\ FailureKept'
  BY <1>1 DEF IInv, SpaceWakes, FlushWaits, FailureKept, Pending
<1> QED  BY <1>3, <1>4, <1>5, <1>6 DEF IInv

\* Every step preserves the invariant.
LEMMA NextIInv == IInv /\ [Next]_vars => IInv'
<1> SUFFICES ASSUME IInv, [Next]_vars PROVE IInv'
  OBVIOUS
<1>1. CASE Writer
  BY <1>1, WriterIdleStep, TakeStep, DoneStep DEF Writer
<1>2. CASE Destroy
  BY <1>2, DestroyStep
<1>3. ASSUME NEW r \in Runs, Run(r) PROVE IInv'
  BY <1>3, FullStep, EnqueueStep, SignalStep, FlushWaitStep, FlushReturnStep DEF Run
<1>4. CASE UNCHANGED vars
  BY ZenonT(30), <1>4 DEF vars, IInv, TypeOK, Shape, WriterWakes, SpaceWakes, FlushWaits,
              FailureKept, Pending
<1> QED  BY <1>1, <1>2, <1>3, <1>4 DEF Next, Done

-----------------------------------------------------------------------------
(* The theorems *)

\* The inductive invariant holds in every reachable state.
THEOREM Invariance == Spec => []IInv
  BY InitIInv, NextIInv, PTL DEF Spec

\* Type correctness, for every set of runs, capacity and number of writes.
THEOREM TypeCorrect == Spec => []TypeOK
  BY Invariance, PTL DEF IInv

\* The outstanding writes, which a crash loses, never exceed the capacity and
\* the one in flight, and flush's counters count exactly them.
THEOREM OutstandingIsBounded == Spec => []OutstandingBounded
<1>1. IInv => OutstandingBounded
  <2> SUFFICES ASSUME IInv PROVE OutstandingBounded
    OBVIOUS
  <2>1. inflight \in Seq(Job) /\ queue \in Seq(Job)
    BY DEF IInv, TypeOK
  <2>2. Len(Pending) = Len(inflight) + Len(queue)
    BY <2>1, ConcatProperties, Zenon DEF Pending
  <2>3. Len(inflight) \in Nat /\ Len(queue) \in Nat
    BY <2>1, LenProperties
  <2>4. inflight # << >> <=> Len(inflight) # 0
    BY <2>1, EmptySeq
  <2>5. /\ Len(queue) <= Capacity /\ queued = written + Len(inflight) + Len(queue)
        /\ Len(inflight) = IF wpc = "writing" THEN 1 ELSE 0
    BY DEF IInv, Shape
  <2>6. written \in Nat
    BY DEF IInv, TypeOK
  <2>7. Len(Pending) <= Capacity + 1 /\ queued = written + Len(Pending)
    BY <2>2, <2>3, <2>5, <2>6, CapacityPositive
  <2>8. (inflight # << >>) <=> (wpc = "writing")
    BY <2>4, <2>5
  <2> QED  BY <2>7, <2>8 DEF OutstandingBounded
<1> QED  BY <1>1, Invariance, PTL

\* No wake-up is lost: neither the writer's, nor that of a run that waits for
\* space although only one run is notified per pop, nor that of a flush.
THEOREM NoWakeupIsLost == Spec => []NoLostWakeup
  BY Invariance, PTL DEF IInv, NoLostWakeup

\* The destructor drains the queue before it returns.
THEOREM DestructionDrains == Spec => []DestroyDrains
<1>1. IInv => DestroyDrains
  <2> SUFFICES ASSUME IInv PROVE DestroyDrains
    OBVIOUS
  <2>1. inflight \in Seq(Job) /\ queue \in Seq(Job)
    BY DEF IInv, TypeOK
  <2>2. ASSUME Len(inflight) = 0, Len(queue) = 0
        PROVE  Pending = << >>
    <3>1. inflight = << >> /\ queue = << >>
      BY <2>1, <2>2, EmptySeq
    <3> QED  BY <3>1, <2>1, ConcatEmptySeq DEF Pending
  <2>3. wpc = "exited" => Pending = << >>
    BY <2>2 DEF IInv, Shape
  <2>4. dpc = "gone" => Len(attempted) = queued /\ wpc # "writing"
    BY DEF IInv, TypeOK, Shape
  <2> QED  BY <2>3, <2>4 DEF DestroyDrains
<1> QED  BY <1>1, Invariance, PTL

\* A failed write is remembered until a flush takes it.
THEOREM FailuresAreKept == Spec => []FailureKept
  BY Invariance, PTL DEF IInv

\* Every accepted write is counted, attempted before the destructor returns,
\* and its failure kept for a flush.
THEOREM WritesAreRemembered == Spec => []NothingIsForgotten
  BY OutstandingIsBounded, DestructionDrains, FailuresAreKept, PTL DEF NothingIsForgotten

-----------------------------------------------------------------------------
(* AsyncWriter implements CheckpointQueue *)

\* Every step of the writer is a step of the abstract queue or changes
\* nothing it can see.
LEMMA QueueStep == IInv /\ [Next]_vars => [Queue!Next]_(Queue!vars)
<1> SUFFICES ASSUME IInv, [Next]_vars PROVE [Queue!Next]_(Queue!vars)
  OBVIOUS
<1>0. inflight \in Seq(Job) /\ queue \in Seq(Job) /\ attempted \in Seq(Job)
  BY DEF IInv, TypeOK
<1>1. ASSUME NEW r \in Runs, Enqueue(r) PROVE Queue!Accept(r)
  <2>1. /\ Len(queue) < Capacity /\ accepted[r] < MaxWrites
        /\ queue' = Append(queue, <<r, accepted[r] + 1>>)
        /\ accepted' = [accepted EXCEPT ![r] = @ + 1]
        /\ inflight' = inflight /\ attempted' = attempted /\ failed' = failed
    BY <1>1 DEF Enqueue, HasSpace, IInv, TypeOK, Shape
  <2>2. <<r, accepted[r] + 1>> \in Job
    BY <2>1, MaxWritesNatural DEF IInv, TypeOK, Job
  <2>3. Pending' = Append(Pending, <<r, accepted[r] + 1>>)
    BY <1>0, <2>1, <2>2, PendingPush DEF Pending
  <2>4. Len(Pending) = Len(inflight) + Len(queue)
    BY <1>0, ConcatProperties, Zenon DEF Pending
  <2>5. Len(inflight) <= 1 /\ Len(inflight) \in Nat /\ Len(queue) \in Nat
    BY <1>0, LenProperties DEF IInv, Shape
  <2>6. Len(Pending) < Capacity + 1
    BY <2>1, <2>4, <2>5, CapacityPositive
  <2> QED  BY <2>1, <2>3, <2>6 DEF Queue!Accept
<1>2. ASSUME NEW r \in Runs, FlushReturn(r) PROVE Queue!Flush(r)
  <2>1. \/ written >= queued
        \/ pc[r] = "doneWoken" /\ written >= target[r]
    BY <1>2, Zenon DEF FlushReturn, FlushReady
  <2>2. Len(Pending) = Len(inflight) + Len(queue) /\ DOMAIN Pending = 1 .. Len(Pending)
    BY <1>0, ConcatProperties, LenProperties, Zenon DEF Pending
  <2>3. ASSUME NEW i \in 1 .. Len(Pending), Pending[i][1] = r PROVE FALSE
    <3>1. Len(inflight) \in Nat /\ Len(queue) \in Nat /\ i \in Nat /\ i >= 1
      BY <1>0, <2>2, LenProperties
    <3>2. CASE written >= queued
      <4>1. i <= Len(inflight) + Len(queue)
        BY <2>2
      <4> QED  BY <3>1, <3>2, <4>1 DEF IInv, TypeOK, Shape
    <3>3. CASE pc[r] = "doneWoken" /\ written >= target[r]
      <4>1. written + i <= target[r]
        BY <3>3, <2>2, <2>3 DEF IInv, FlushWaits
      <4> QED  BY <3>1, <3>3, <4>1 DEF IInv, TypeOK
    <3> QED  BY <2>1, <3>2, <3>3
  <2>4. /\ failed' = {} /\ accepted' = accepted /\ attempted' = attempted
        /\ Pending' = Pending
    BY <1>2 DEF FlushReturn, Pending
  <2> QED  BY <2>3, <2>4 DEF Queue!Flush
<1>3. ASSUME WriterDone PROVE Queue!Attempt
  <2>1. Len(inflight) = 1
    BY <1>3 DEF WriterDone, IInv, Shape
  <2>2. /\ Pending # << >> /\ Head(Pending) = Head(inflight)
        /\ Tail(Pending) = << >> \o queue
    BY <1>0, <2>1, PendingDone DEF Pending
  <2>3. /\ attempted' = Append(attempted, Head(inflight))
        /\ failed' \in {failed, failed \cup {Head(inflight)}}
        /\ accepted' = accepted
        /\ Pending' = << >> \o queue
    BY <1>3 DEF WriterDone, Pending
  <2> QED  BY <2>2, <2>3 DEF Queue!Attempt
<1>4. ASSUME WriterTake PROVE UNCHANGED Queue!vars
  <2>1. Len(inflight) = 0
    BY <1>4 DEF WriterTake, IInv, Shape
  <2>2. /\ queue # << >> /\ inflight' = <<Head(queue)>> /\ queue' = Tail(queue)
        /\ UNCHANGED <<accepted, attempted, failed>>
    BY <1>4 DEF WriterTake
  <2>3. Pending' = Pending
    BY <1>0, <2>1, <2>2, PendingTake DEF Pending
  <2> QED  BY <2>2, <2>3 DEF Queue!vars
<1>5. ASSUME UNCHANGED <<queue, inflight, accepted, attempted, failed>>
      PROVE  UNCHANGED Queue!vars
  BY <1>5 DEF Queue!vars, Pending
<1>6. CASE Writer
  BY <1>3, <1>4, <1>5, <1>6 DEF Writer, WriterSleep, WriterExit, Queue!Next
<1>7. CASE Destroy
  BY <1>5, <1>7 DEF Destroy, DestroyStop, DestroyNotify, DestroyJoin
<1>8. ASSUME NEW r \in Runs, Run(r) PROVE [Queue!Next]_(Queue!vars)
  BY <1>1, <1>2, <1>5, <1>8 DEF Run, EnqueueFull, EnqueueFullAgain, Signal,
       FlushWait, FlushWaitAgain, Queue!Next
<1>9. CASE UNCHANGED vars
  BY <1>5, <1>9 DEF vars
<1> QED  BY <1>6, <1>7, <1>8, <1>9 DEF Next, Done

\* AsyncWriter implements CheckpointQueue: writes are attempted once each and
\* in the order the runs handed them over, at most Capacity + 1 of them are
\* outstanding, and a flush returns only when none of its run's writes is.
THEOREM ImplementsQueue == Spec => QueueSpec
<1>1. Init => Queue!Init
  <2> SUFFICES ASSUME Init PROVE Queue!Init
    OBVIOUS
  <2>1. Pending = << >>
    BY ConcatEmptySeq DEF Init, Pending
  <2> QED  BY <2>1 DEF Init, Queue!Init
<1> QED  BY <1>1, QueueStep, Invariance, PTL DEF Spec, QueueSpec, Queue!Spec
=============================================================================
