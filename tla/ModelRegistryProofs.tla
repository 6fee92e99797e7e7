------------------------ MODULE ModelRegistryProofs ------------------------
(***************************************************************************)
(* Proofs about ModelRegistry for any number of clients and models and for *)
(* any specs and budgets.  The second half prepares SettledRegistryProofs: *)
(* the inductive invariant about the budget, lemmas on what the registry's *)
(* counters add up to and on the sets plan looks for, and the steps that   *)
(* neither charge nor release anything.                                    *)
(***************************************************************************)
EXTENDS SettledRegistry, FiniteSetTheorems, TLAPS

\* What the accounts below need of numbers.
LEMMA SameSize == \A a \in Nat : a <= a
  OBVIOUS

LEMMA Grows == \A a, b \in Nat : a <= a + b
  OBVIOUS

LEMMA Shrinks == \A a, b \in Nat : a - b <= a /\ a - b \in Int
  OBVIOUS

\* v moves from one account to the other, and n comes in.
Moved(s, d, v, n) == (s + d) + n = (s - v + n) + (d + v)

LEMMA MovesOver == \A s, d, v, n \in Nat : Moved(s, d, v, n)
  BY DEF Moved

LEMMA ZeroPlus == \A a \in Nat : 0 + a = a
  OBVIOUS

LEMMA PlusZero == \A a \in Int : a + 0 = a
  OBVIOUS

\* s was allowed on top of the limit, and b, which is no less, goes.
LEMMA Remains ==
  ASSUME NEW a \in Nat, NEW b \in Nat, NEW d \in Nat, NEW limit \in Nat, NEW s \in Nat,
         (a + b) + d <= limit + s, s <= b
  PROVE  a + d <= limit
  OBVIOUS

\* With less in use and more to take out, a model fits all the more.
LEMMA FitsLess ==
  ASSUME NEW limit \in Nat, NEW need \in Nat, NEW u \in Int, NEW w \in Int, u <= w,
         NEW s \in Nat, NEW t \in Nat, s <= t, fits(limit, w - s, need)
  PROVE  fits(limit, u - t, need)
  BY DEF fits

\* The list of Sessions that are taken out.
LEMMA TakenOutTyped ==
  ASSUME bytes \in [Models -> Bytes], NEW V \in SUBSET Models
  PROVE  TakenOut(V) \in SUBSET [model : Models, bytes : Bytes]
  BY DEF TakenOut

\* The inductive invariant.  LeaseSafety needs SingleLoader (a load that ends
\* finds no lease on its model), and TypeOK needs LeaseSafety (a lease count is
\* not decremented below 0).
IInv == TypeOK /\ LeaseSafety /\ SpecStable /\ SingleLoader

\* A registry without entries and leases satisfies the invariant.
LEMMA InitIInv == Init => IInv
  <1> SUFFICES ASSUME Init PROVE IInv
    OBVIOUS
  <1>1. TypeOK
    BY BudgetsTyped DEF Init, TypeOK, PC, ZeroBytes, Bytes, Resource
  <1>2. LeaseSafety
    BY FS_EmptySet DEF Init, LeaseSafety
  <1>3. SpecStable /\ SingleLoader
    BY DEF Init, SpecStable, SingleLoader, Loader
  <1> QED BY <1>1, <1>2, <1>3 DEF IInv

\* What plan returns are sets of candidates.
LEMMA PlanIsEvictable ==
  ASSUME NEW C, NEW l, NEW n, NEW S \in plan(C, l, n)
  PROVE  S \subseteq C
  BY DEF plan, LruPrefixes

\* The holders of leases on a model are finitely many, so they can be counted.
LEMMA HoldersFinite ==
  ASSUME TypeOK, NEW m \in Models
  PROVE  IsFiniteSet(holders[m]) /\ Cardinality(holders[m]) \in Nat
  BY ClientsFinite, FS_Subset, FS_CardinalityType DEF TypeOK

\* Steps that change no entry and end no load: a wait, a return without a
\* result, a deadline.
LEMMA QuietStep ==
  ASSUME IInv, NEW c \in Clients,
         UNCHANGED <<entryVars, budget, doomed, holders>>,
         pc' \in [Clients -> PC], call' \in [Clients -> Call \cup {NoCall}],
         \A d \in Clients, m \in Models : Loader(d, m)' <=> Loader(d, m)
  PROVE  IInv'
  <1>1. TypeOK'
    BY DEF IInv, TypeOK, entryVars
  <1>2. LeaseSafety' /\ SpecStable'
    BY DEF IInv, LeaseSafety, SpecStable, entryVars
  <1>3. SingleLoader'
    BY DEF IInv, SingleLoader, entryVars
  <1> QED BY <1>1, <1>2, <1>3 DEF IInv

\* The deadline flag of a call is a Boolean, in its first section and later.
LEMMA CallRecordTyped ==
  ASSUME TypeOK, NEW c \in Clients, NEW m \in Models,
         NEW op \in {"acquire", "unload", "register", "set_budget"},
         At(c, op, m) \/ pc[c] = "idle"
  PROVE  CallRecord(c, op, m) \in Call
  <1>1. pc[c] # "idle" => call[c].expired \in BOOLEAN
    <2>1. pc[c] # "idle" => call[c].op # "none"
      BY DEF At, InCall
    <2>2. call[c] \in Call \/ call[c] = NoCall
      BY DEF TypeOK
    <2>3. pc[c] # "idle" => call[c] \in Call
      BY <2>1, <2>2 DEF NoCall
    <2> QED BY <2>3 DEF Call
  <1>2. Expired(c) \in BOOLEAN
    <2>1. CASE pc[c] = "idle"
      BY <2>1 DEF Expired
    <2>2. CASE pc[c] # "idle"
      BY <2>2, <1>1 DEF Expired
    <2> QED BY <2>1, <2>2
  <1>3. CallRecord(c, op, m) = [op |-> op, model |-> m, expired |-> Expired(c)]
    BY DEF CallRecord
  <1> QED BY <1>2, <1>3 DEF Call

\* cv.wait.
LEMMA WaitStep ==
  ASSUME IInv, NEW c \in Clients, NEW m \in Models, NEW where \in Waiting,
         NEW op \in {"acquire", "unload", "register"},
         At(c, op, m), Wait(c, where, op, m)
  PROVE  IInv'
  <1>1. /\ pc' = [pc EXCEPT ![c] = where]
        /\ call' = [call EXCEPT ![c] = CallRecord(c, op, m)]
        /\ UNCHANGED <<entryVars, budget, doomed, holders>>
    BY DEF Wait, Goto, stateVars
  <1>2. pc' \in [Clients -> PC]
    BY <1>1 DEF IInv, TypeOK, PC
  <1>3. CallRecord(c, op, m) \in Call
    BY CallRecordTyped DEF IInv
  <1>4. call' \in [Clients -> Call \cup {NoCall}]
    BY <1>1, <1>3 DEF IInv, TypeOK
  <1>5. \A d \in Clients, k \in Models : Loader(d, k)' <=> Loader(d, k)
    BY <1>1 DEF IInv, TypeOK, Loader, InCall, At, Waiting
  <1> QED BY <1>1, <1>2, <1>4, <1>5, QuietStep

\* A call that returns without having changed an entry.
LEMMA ReturnStep ==
  ASSUME IInv, NEW c \in Clients, pc[c] \in {"idle", "run"}, Return(c),
         UNCHANGED <<entryVars, budget, doomed, holders>>
  PROVE  IInv'
  <1>1. /\ pc' = [pc EXCEPT ![c] = "idle"]
        /\ call' = [call EXCEPT ![c] = NoCall]
    BY DEF Return, Goto, Hangup
  <1>2. pc' \in [Clients -> PC] /\ call' \in [Clients -> Call \cup {NoCall}]
    BY <1>1 DEF IInv, TypeOK, PC
  <1>3. \A d \in Clients, k \in Models : Loader(d, k)' <=> Loader(d, k)
    BY <1>1 DEF IInv, TypeOK, Loader, InCall
  <1> QED BY <1>1, <1>2, <1>3, QuietStep

\* A deadline.
LEMMA DeadlineStep ==
  ASSUME IInv, NEW c \in Clients, DeadlinePasses(c)
  PROVE  IInv'
  <1>1. /\ pc[c] \in Waiting \cup {"run"} /\ call[c].op = "acquire"
        /\ pc' = [pc EXCEPT ![c] = IF pc[c] = "waitUntil" THEN "run" ELSE pc[c]]
        /\ call' = [call EXCEPT ![c].expired = TRUE]
        /\ UNCHANGED <<entryVars, budget, doomed, holders>>
    BY DEF DeadlinePasses, Goto, stateVars
  <1>2. pc' \in [Clients -> PC]
    BY <1>1 DEF IInv, TypeOK, PC
  <1>3. call[c] \in Call
    BY <1>1 DEF IInv, TypeOK, NoCall
  <1>4. call' \in [Clients -> Call \cup {NoCall}]
    BY ZenonT(30), <1>1, <1>3 DEF IInv, TypeOK, Call
  <1>5. \A d \in Clients, k \in Models : Loader(d, k)' <=> Loader(d, k)
    BY <1>1 DEF IInv, TypeOK, Loader, InCall, Waiting
  <1> QED BY ZenonT(30), <1>1, <1>2, <1>4, <1>5, QuietStep

\* touch keeps older a relation on models.
LEMMA TouchTyped ==
  ASSUME TypeOK, NEW m \in Models
  PROVE  touch(m) \in SUBSET (Models \X Models)
  BY DEF touch, TypeOK

\* notify_all disturbs no client that is loading or destroying.
LEMMA NotifyKeeps ==
  ASSUME NEW p \in [Clients -> PC]
  PROVE  /\ notify_all(p) \in [Clients -> PC]
         /\ \A c \in Clients :
                /\ p[c] \notin Waiting => notify_all(p)[c] = p[c]
                /\ p[c] \in Waiting => notify_all(p)[c] = "run"
  BY DEF notify_all, PC, Waiting

\* One more lease on a loaded model.
LEMMA AcquireLoadedStep ==
  ASSUME IInv, NEW c \in Clients, NEW m \in Models, AcquireLoaded(c, m)
  PROVE  IInv'
  <1>1. /\ c \notin holders[m] /\ status[m] = "Loaded"
        /\ pc[c] \in {"idle", "run"}
        /\ leases' = [leases EXCEPT ![m] = @ + 1]
        /\ holders' = [holders EXCEPT ![m] = @ \cup {c}]
        /\ older' = touch(m)
        /\ pc' = [pc EXCEPT ![c] = "idle"]
        /\ call' = [call EXCEPT ![c] = NoCall]
        /\ UNCHANGED <<spec, status, bytes, budget, doomed>>
    BY DEF AcquireLoaded, AtAcquire, At, Return, Goto, Hangup, stateVars
  <1>2. TypeOK'
    BY <1>1, TouchTyped DEF IInv, TypeOK, PC
  <1>3. Cardinality(holders[m] \cup {c}) = Cardinality(holders[m]) + 1
    BY ZenonT(30), <1>1, HoldersFinite, FS_AddElement DEF IInv
  <1>4. LeaseSafety'
    BY <1>1, <1>3 DEF IInv, TypeOK, LeaseSafety
  <1>5. SpecStable'
    BY <1>1 DEF IInv, SpecStable
  <1>6. SingleLoader'
    BY <1>1 DEF IInv, TypeOK, SingleLoader, Loader, InCall
  <1> QED BY <1>2, <1>4, <1>5, <1>6 DEF IInv

\* One lease less; the model stays loaded.
LEMMA ReleaseStep ==
  ASSUME IInv, NEW c \in Clients, NEW m \in Models, release_model(c, m)
  PROVE  IInv'
  <1>1. /\ c \in holders[m]
        /\ leases' = [leases EXCEPT ![m] = @ - 1]
        /\ holders' = [holders EXCEPT ![m] = @ \ {c}]
        /\ older' = touch(m)
        /\ pc' = notify_all(pc)
        /\ UNCHANGED <<spec, status, bytes, budget, call, doomed>>
    BY DEF release_model, stateVars
  <1>2. /\ Cardinality(holders[m] \ {c}) = Cardinality(holders[m]) - 1
        /\ leases[m] = Cardinality(holders[m])
        /\ leases[m] - 1 \in Nat
    <2>1. /\ IsFiniteSet(holders[m] \ {c})
          /\ Cardinality(holders[m] \ {c}) = Cardinality(holders[m]) - 1
      BY <1>1, HoldersFinite, FS_RemoveElement DEF IInv
    <2>2. Cardinality(holders[m] \ {c}) \in Nat
      BY <2>1, FS_CardinalityType
    <2> QED BY <2>1, <2>2 DEF IInv, LeaseSafety
  <1>3. TypeOK'
    BY <1>1, <1>2, TouchTyped, NotifyKeeps DEF IInv, TypeOK
  <1>4. LeaseSafety'
    BY <1>1, <1>2 DEF IInv, TypeOK, LeaseSafety
  <1>5. SpecStable'
    BY <1>1 DEF IInv, SpecStable
  <1>6. \A d \in Clients, k \in Models : Loader(d, k)' <=> Loader(d, k)
    BY <1>1, NotifyKeeps DEF IInv, TypeOK, Loader, InCall, Waiting
  <1>7. SingleLoader'
    BY <1>1, <1>6 DEF IInv, SingleLoader
  <1> QED BY <1>3, <1>4, <1>5, <1>7 DEF IInv

\* Models that plan or evictable offers are loaded and have no holder.
LEMMA VictimsIdle ==
  ASSUME IInv, NEW ex, NEW S \in SUBSET evictable(ex)
  PROVE  \A k \in S : k \in Models /\ status[k] = "Loaded" /\ holders[k] = {}
  <1> SUFFICES ASSUME NEW k \in S
               PROVE  k \in Models /\ status[k] = "Loaded" /\ holders[k] = {}
    OBVIOUS
  <1>1. k \in Models /\ status[k] = "Loaded" /\ leases[k] = 0
    BY DEF evictable
  <1>2. Cardinality(holders[k]) = 0
    BY <1>1 DEF IInv, LeaseSafety
  <1> QED BY <1>1, <1>2, HoldersFinite, FS_EmptySet DEF IInv

\* A reservation: the victims leave the registry, the model becomes Loading and
\* its client becomes its only loader.
LEMMA ReserveStep ==
  ASSUME IInv, NEW c \in Clients, NEW m \in Models,
         AtAcquire(c, m), status[m] = "Unloaded",
         NEW victims \in SUBSET evictable({m}), ReserveEvicting(c, m, victims)
  PROVE  IInv'
  <1>1. /\ status' = [k \in Models |-> IF k = m THEN "Loading"
                                       ELSE IF k \in victims THEN "Unloaded"
                                       ELSE status[k]]
        /\ bytes' = [k \in Models |-> IF k = m THEN spec[m].need
                                      ELSE IF k \in victims THEN ZeroBytes
                                      ELSE bytes[k]]
        /\ doomed' = [doomed EXCEPT ![c] = TakenOut(victims)]
        /\ pc' = [pc EXCEPT ![c] = IF victims = {} THEN "init" ELSE "destroy"]
        /\ call' = [call EXCEPT ![c] = CallRecord(c, "acquire", m)]
        /\ UNCHANGED <<spec, leases, older, budget, holders>>
    BY DEF ReserveEvicting, Goto
  <1>2. pc[c] \in {"idle", "run"} /\ At(c, "acquire", m) /\ spec[m] # NoSpec
    BY DEF AtAcquire, At
  <1>3. \A k \in victims : k \in Models /\ status[k] = "Loaded" /\ holders[k] = {}
    BY VictimsIdle
  <1>4. CallRecord(c, "acquire", m) \in Call
    BY <1>2, CallRecordTyped DEF IInv
  <1>5. spec[m].need \in Bytes /\ ZeroBytes \in Bytes
    BY <1>2 DEF IInv, TypeOK, Spec_, ZeroBytes, Bytes
  <1>6. TakenOut(victims) \in SUBSET [model : Models, bytes : Bytes]
    BY <1>3 DEF TakenOut, IInv, TypeOK
  <1>7. TypeOK'
    BY <1>1, <1>4, <1>5, <1>6 DEF IInv, TypeOK, PC
  <1>8. LeaseSafety'
    BY <1>1, <1>3 DEF IInv, LeaseSafety
  <1>9. SpecStable'
    BY <1>1, <1>2 DEF IInv, SpecStable
  <1>10. SingleLoader'
    <2>1. \A k \in Models : Loader(c, k)' <=> k = m
      BY <1>1 DEF IInv, TypeOK, Loader, InCall, CallRecord
    <2>2. \A d \in Clients \ {c}, k \in Models : Loader(d, k)' <=> Loader(d, k)
      BY <1>1 DEF IInv, TypeOK, Loader, InCall
    <2>3. \A k \in Models : ~Loader(c, k)
      BY <1>2 DEF Loader
    <2>4. \A d \in Clients : ~Loader(d, m)
      BY DEF IInv, SingleLoader
    <2> QED BY <1>1, <1>3, <2>1, <2>2, <2>3, <2>4 DEF IInv, SingleLoader
  <1> QED BY <1>7, <1>8, <1>9, <1>10 DEF IInv

\* The end of a load.  SingleLoader makes the client the only one that can end
\* it, and LeaseSafety says that a model that is loading has no holder.
LEMMA LoadEndStep ==
  ASSUME IInv, NEW c \in Clients, NEW m \in Models,
         LoadSucceeds(c, m) \/ LoadFails(c, m)
  PROVE  IInv'
  <1>1. Loader(c, m)
    BY DEF LoadSucceeds, LoadFails, Loader
  <1>2. status[m] = "Loading" /\ holders[m] = {} /\ leases[m] = 0
    <2>1. status[m] = "Loading"
      BY <1>1 DEF IInv, SingleLoader
    <2>2. holders[m] = {}
      BY <2>1 DEF IInv, LeaseSafety
    <2> QED BY <2>1, <2>2, FS_EmptySet DEF IInv, LeaseSafety
  <1>3. /\ pc' = notify_all([pc EXCEPT ![c] = "idle"])
        /\ call' = [call EXCEPT ![c] = NoCall]
        /\ UNCHANGED <<spec, budget, doomed>>
    BY DEF LoadSucceeds, LoadFails, Goto, Hangup, stateVars
  <1>4. [pc EXCEPT ![c] = "idle"] \in [Clients -> PC]
    BY DEF IInv, TypeOK, PC
  <1>5. pc' \in [Clients -> PC] /\ call' \in [Clients -> Call \cup {NoCall}]
    BY ZenonT(30), <1>3, <1>4, NotifyKeeps DEF IInv, TypeOK
  <1>6. /\ \A k \in Models : ~Loader(c, k)'
        /\ \A d \in Clients \ {c}, k \in Models : Loader(d, k)' <=> Loader(d, k)
    <2>1. pc'[c] = "idle"
      BY ZenonT(30), <1>3, <1>4, NotifyKeeps DEF IInv, TypeOK, Waiting
    <2>2. \A d \in Clients \ {c} :
            /\ call'[d] = call[d]
            /\ pc'[d] = pc[d] \/ (pc[d] \in Waiting /\ pc'[d] = "run")
      BY ZenonT(30), <1>3, <1>4, NotifyKeeps DEF IInv, TypeOK
    <2> QED BY <2>1, <2>2 DEF Loader, InCall, Waiting
  <1>7. \A k \in Models \ {m} : ~Loader(c, k)
    BY <1>1 DEF Loader, InCall
  <1>8. \A d \in Clients \ {c} : ~Loader(d, m)
    BY <1>1 DEF IInv, SingleLoader
  <1>9. CASE LoadSucceeds(c, m)
    <2>1. /\ status' = [status EXCEPT ![m] = "Loaded"]
          /\ leases' = [leases EXCEPT ![m] = 1]
          /\ holders' = [holders EXCEPT ![m] = @ \cup {c}]
          /\ older' = touch(m) /\ UNCHANGED bytes
      BY <1>9 DEF LoadSucceeds
    <2>2. TypeOK'
      <3>1. /\ status' \in [Models -> {"Unloaded", "Loading", "Loaded"}]
            /\ leases' \in [Models -> Nat]
            /\ holders' \in [Models -> SUBSET Clients]
        BY <2>1 DEF IInv, TypeOK
      <3>2. older' \in SUBSET (Models \X Models)
        BY <2>1, TouchTyped DEF IInv
      <3> QED BY ZenonT(30), <1>3, <1>5, <2>1, <3>1, <3>2 DEF IInv, TypeOK
    <2>3. holders'[m] = {c} /\ Cardinality({c}) = 1
      BY ZenonT(30), <1>2, <2>1, FS_Singleton DEF IInv, TypeOK
    <2>4. LeaseSafety'
      BY ZenonT(30), <2>1, <2>3 DEF IInv, TypeOK, LeaseSafety
    <2>5. SpecStable'
      BY <1>2, <1>3, <2>1 DEF IInv, TypeOK, SpecStable
    <2>6. SingleLoader'
      BY SMTT(20), <1>6, <1>7, <1>8, <2>1 DEF IInv, TypeOK, SingleLoader
    <2> QED BY <2>2, <2>4, <2>5, <2>6 DEF IInv
  <1>10. CASE LoadFails(c, m)
    <2>1. /\ status' = [status EXCEPT ![m] = "Unloaded"]
          /\ bytes' = [bytes EXCEPT ![m] = ZeroBytes]
          /\ UNCHANGED <<leases, older, holders>>
      BY ZenonT(30), <1>10 DEF LoadFails
    <2>2. TypeOK'
      BY ZenonT(30), <1>3, <1>5, <2>1 DEF IInv, TypeOK, ZeroBytes, Bytes
    <2>3. LeaseSafety'
      BY <1>2, <2>1 DEF IInv, TypeOK, LeaseSafety
    <2>4. SpecStable'
      BY <1>3, <2>1 DEF IInv, TypeOK, SpecStable
    <2>5. SingleLoader'
      BY SMTT(20), <1>6, <1>7, <1>8, <2>1 DEF IInv, TypeOK, SingleLoader
    <2> QED BY <2>2, <2>3, <2>4, <2>5 DEF IInv
  <1> QED BY <1>9, <1>10

\* unload_model, register_model or set_budget takes idle models out.
LEMMA EvictStep ==
  ASSUME IInv, NEW c \in Clients, NEW m \in Models,
         NEW op \in {"unload", "register", "set_budget"},
         At(c, op, m) \/ pc[c] = "idle",
         budget' \in Budget,
         NEW victims,
         \A k \in victims : k \in Models /\ status[k] = "Loaded" /\ holders[k] = {},
         EvictAndDestroy(c, op, m, victims)
  PROVE  IInv'
  <1>1. /\ status' = [k \in Models |-> IF k \in victims THEN "Unloaded" ELSE status[k]]
        /\ bytes' = [k \in Models |-> IF k \in victims THEN ZeroBytes ELSE bytes[k]]
        /\ doomed' = [doomed EXCEPT ![c] = TakenOut(victims)]
        /\ pc' = [pc EXCEPT ![c] = "destroy"]
        /\ call' = [call EXCEPT ![c] = CallRecord(c, op, m)]
        /\ UNCHANGED <<spec, leases, older, holders>>
    BY DEF EvictAndDestroy, Goto
  <1>2. pc[c] \in {"idle", "run"}
    BY DEF At
  <1>3. CallRecord(c, op, m) \in Call
    BY CallRecordTyped DEF IInv
  <1>4. TakenOut(victims) \in SUBSET [model : Models, bytes : Bytes]
    BY DEF TakenOut, IInv, TypeOK
  <1>5. TypeOK'
    BY <1>1, <1>3, <1>4 DEF IInv, TypeOK, PC, ZeroBytes, Bytes
  <1>6. LeaseSafety' /\ SpecStable'
    BY <1>1 DEF IInv, LeaseSafety, SpecStable
  <1>7. \A d \in Clients, k \in Models : Loader(d, k)' <=> Loader(d, k)
    BY <1>1, <1>2 DEF IInv, TypeOK, Loader, InCall, CallRecord
  <1>8. SingleLoader'
    BY <1>1, <1>7 DEF IInv, SingleLoader
  <1> QED BY <1>5, <1>6, <1>8 DEF IInv

\* A new spec for a model that is not loaded.
LEMMA RegisterStep ==
  ASSUME IInv, NEW c \in Clients, NEW m \in Models, NEW s \in SpecsOf[m],
         RegisterUnloaded(c, m, s)
  PROVE  IInv'
  <1>1. /\ status[m] = "Unloaded" /\ pc[c] \in {"idle", "run"}
        /\ spec' = [spec EXCEPT ![m] = s]
        /\ pc' = [pc EXCEPT ![c] = "idle"]
        /\ call' = [call EXCEPT ![c] = NoCall]
        /\ UNCHANGED <<status, bytes, leases, older, budget, doomed, holders>>
    BY DEF RegisterUnloaded, At, Return, Goto, Hangup, stateVars
  <1>2. TypeOK'
    BY ZenonT(30), <1>1, SpecsTyped DEF IInv, TypeOK, PC
  <1>3. LeaseSafety'
    BY ZenonT(30), <1>1 DEF IInv, LeaseSafety
  <1>4. SpecStable'
    BY <1>1 DEF IInv, TypeOK, SpecStable
  <1>5. SingleLoader'
    BY <1>1 DEF IInv, TypeOK, SingleLoader, Loader, InCall
  <1> QED BY <1>2, <1>3, <1>4, <1>5 DEF IInv

\* The end of destroy.  A loader goes on to its load; the other calls return.
LEMMA DestroyStep ==
  ASSUME IInv, NEW c \in Clients,
         \/ DestroyThenLoad(c)
         \/ DestroyThenReturn(c)
         \/ \E m \in Models : \E s \in SpecsOf[m] : DestroyThenRegister(c, m, s)
  PROVE  IInv'
  <1>1. PICK where \in {"init", "idle"} :
          /\ Uncharge(c, where)
          /\ where = "init" => call[c].op = "acquire" /\ UNCHANGED call
          /\ where = "idle" => call[c].op # "acquire" /\ call' = Hangup(c)
    BY DEF DestroyThenLoad, DestroyThenReturn, DestroyThenRegister, InCall
  <1>2. /\ pc[c] = "destroy"
        /\ pc' = notify_all([pc EXCEPT ![c] = where])
        /\ doomed' = [doomed EXCEPT ![c] = {}]
        /\ UNCHANGED <<status, bytes, leases, older, budget, holders>>
    BY ZenonT(30), <1>1 DEF Uncharge, Goto
  <1>3. \A k \in Models : \/ spec'[k] = spec[k]
                          \/ status[k] = "Unloaded" /\ spec'[k] \in Spec_
    BY SpecsTyped DEF DestroyThenLoad, DestroyThenReturn, DestroyThenRegister, IInv, TypeOK
  <1>4. spec' \in [Models -> Spec_ \cup {NoSpec}]
    BY SpecsTyped DEF DestroyThenLoad, DestroyThenReturn, DestroyThenRegister, IInv, TypeOK
  <1>5. [pc EXCEPT ![c] = where] \in [Clients -> PC]
    BY DEF IInv, TypeOK, PC
  <1>6. TypeOK'
    BY ZenonT(30), <1>1, <1>2, <1>4, <1>5, NotifyKeeps DEF IInv, TypeOK, Hangup
  <1>7. LeaseSafety' /\ SpecStable'
    BY <1>2, <1>3 DEF IInv, LeaseSafety, SpecStable
  <1>8. \A d \in Clients, k \in Models : Loader(d, k)' <=> Loader(d, k)
    <2>1. pc'[c] = where
      BY ZenonT(30), <1>2, <1>5, NotifyKeeps DEF IInv, TypeOK, Waiting
    <2>2. \A d \in Clients \ {c} :
            /\ call'[d] = call[d]
            /\ pc'[d] = pc[d] \/ (pc[d] \in Waiting /\ pc'[d] = "run")
      <3>1. \A d \in Clients \ {c} : call'[d] = call[d]
        BY <1>1 DEF IInv, TypeOK, Hangup
      <3>2. \A d \in Clients \ {c} :
              pc'[d] = pc[d] \/ (pc[d] \in Waiting /\ pc'[d] = "run")
        BY ZenonT(30), <1>2, <1>5, NotifyKeeps DEF IInv, TypeOK
      <3> QED BY <3>1, <3>2
    <2>3. \A k \in Models : Loader(c, k)' <=> Loader(c, k)
      BY <1>1, <1>2, <2>1 DEF Loader, InCall
    <2>4. \A d \in Clients \ {c}, k \in Models : Loader(d, k)' <=> Loader(d, k)
      BY <2>2 DEF Loader, InCall, Waiting
    <2> QED BY <2>3, <2>4
  <1>9. SingleLoader'
    BY <1>2, <1>8 DEF IInv, SingleLoader
  <1> QED BY <1>6, <1>7, <1>9 DEF IInv

\* Every section of every registry call preserves the invariant.
LEMMA NextIInv == IInv /\ [Next]_vars => IInv'
  <1>1. ASSUME IInv, UNCHANGED vars
        PROVE  IInv'
    BY <1>1 DEF IInv, TypeOK, LeaseSafety, SpecStable, SingleLoader, Loader, InCall, vars
  <1>2. ASSUME IInv, NEW c \in Clients, Section(c)
        PROVE  IInv'
    <2>1. ASSUME NEW m \in Models, AcquireLoaded(c, m)
          PROVE  IInv'
      BY <1>2, <2>1, AcquireLoadedStep
    <2>2. ASSUME NEW m \in Models,
                 \/ AcquireWaitLoading(c, m)
                 \/ AcquireWaitFrees(c, m)
                 \/ AcquireWaitUntil(c, m)
          PROVE  IInv'
      <3>1. PICK where \in Waiting : Wait(c, where, "acquire", m) /\ At(c, "acquire", m)
        BY <2>2 DEF AcquireWaitLoading, AcquireWaitFrees, AcquireWaitUntil, AtAcquire, Waiting
      <3> QED BY <1>2, <3>1, WaitStep
    <2>3. ASSUME NEW m \in Models,
                 \/ AcquireEstimateFails(c, m)
                 \/ AcquireOutOfMemory(c, m)
                 \/ UnloadNothing(c, m)
          PROVE  IInv'
      <3>1. /\ pc[c] \in {"idle", "run"} /\ Return(c)
            /\ UNCHANGED <<entryVars, budget, doomed, holders>>
        BY <2>3 DEF AcquireEstimateFails, AcquireOutOfMemory, UnloadNothing, AtAcquire, At, stateVars
      <3> QED BY <1>2, <3>1, ReturnStep
    <2>4. ASSUME NEW m \in Models, AcquireReserve(c, m) \/ AcquireOvercommit(c, m)
          PROVE  IInv'
      <3>1. PICK victims \in SUBSET evictable({m}) :
              AtAcquire(c, m) /\ status[m] = "Unloaded" /\ ReserveEvicting(c, m, victims)
        BY <2>4, PlanIsEvictable DEF AcquireReserve, AcquireOvercommit, PlanFor
      <3> QED BY <1>2, <3>1, ReserveStep
    <2>5. ASSUME NEW m \in Models, NEW op \in UnloadOps, UnloadWaits(c, op, m)
          PROVE  IInv'
      BY <1>2, <2>5, WaitStep DEF UnloadWaits, UnloadOps, Waiting
    <2>6. ASSUME NEW m \in Models, NEW op \in UnloadOps, UnloadInUse(c, op, m)
          PROVE  IInv'
      <3>1. /\ pc[c] \in {"idle", "run"} /\ Return(c)
            /\ UNCHANGED <<entryVars, budget, doomed, holders>>
        BY <2>6 DEF UnloadInUse, At, stateVars
      <3> QED BY <1>2, <3>1, ReturnStep
    <2>7. ASSUME NEW m \in Models, NEW op \in UnloadOps, UnloadIdle(c, op, m)
          PROVE  IInv'
      <3>1. /\ At(c, op, m) /\ status[m] = "Loaded" /\ leases[m] = 0
            /\ EvictAndDestroy(c, op, m, {m}) /\ budget' = budget
        BY <2>7 DEF UnloadIdle
      <3>2. holders[m] = {}
        BY <1>2, <3>1, HoldersFinite, FS_EmptySet DEF IInv, LeaseSafety
      <3>3. budget' \in Budget /\ op \in {"unload", "register", "set_budget"}
        BY <1>2, <3>1 DEF IInv, TypeOK, UnloadOps
      <3> QED BY <1>2, <3>1, <3>2, <3>3, EvictStep
    <2>8. ASSUME NEW m \in Models, NEW s \in SpecsOf[m], RegisterUnloaded(c, m, s)
          PROVE  IInv'
      BY <1>2, <2>8, RegisterStep
    <2>9. ASSUME NEW m \in Models, LoadSucceeds(c, m) \/ LoadFails(c, m)
          PROVE  IInv'
      BY <1>2, <2>9, LoadEndStep
    <2>10. ASSUME \/ DestroyThenLoad(c)
                  \/ DestroyThenReturn(c)
                  \/ \E m \in Models : \E s \in SpecsOf[m] : DestroyThenRegister(c, m, s)
           PROVE  IInv'
      BY <1>2, <2>10, DestroyStep
    <2>11. ASSUME DeadlinePasses(c)
           PROVE  IInv'
      BY <1>2, <2>11, DeadlineStep
    <2> QED
      BY ZenonT(30), <1>2, <2>1, <2>2, <2>3, <2>4, <2>5, <2>6, <2>7, <2>8, <2>9, <2>10, <2>11
         DEF Section
  <1>3. ASSUME IInv, NEW c \in Clients, NEW b \in Budgets, set_budget(c, b)
        PROVE  IInv'
    <2>1. budget' \in Budget /\ pc[c] = "idle"
      BY <1>3, BudgetsTyped DEF set_budget
    <2>2. PICK S \in SUBSET evictable({}) :
            IF S = {}
            THEN UNCHANGED <<entryVars, used, releasing, clientVars>>
            ELSE \E m \in S : EvictAndDestroy(c, "set_budget", m, S)
      <3>1. \A S \in plan(evictable({}), b.limit, ZeroBytes) : S \subseteq evictable({})
        BY PlanIsEvictable
      <3> QED BY <1>3, <3>1 DEF set_budget
    <2>3. CASE S = {}
      <3>1. /\ UNCHANGED <<spec, status, bytes, leases, older, used, releasing>>
            /\ UNCHANGED <<pc, call, doomed, holders>>
        BY ZenonT(30), <2>2, <2>3 DEF entryVars, clientVars
      <3>2. TypeOK'
        BY ZenonT(30), <1>3, <2>1, <3>1 DEF IInv, TypeOK
      <3>3. LeaseSafety' /\ SpecStable'
        BY ZenonT(30), <1>3, <3>1 DEF IInv, LeaseSafety, SpecStable
      <3>4. SingleLoader'
        <4>1. \A d \in Clients, k \in Models : Loader(d, k)' <=> Loader(d, k)
          BY ZenonT(30), <3>1 DEF Loader, InCall
        <4> QED BY ZenonT(30), <1>3, <3>1, <4>1 DEF IInv, SingleLoader
      <3> QED BY ZenonT(30), <3>2, <3>3, <3>4 DEF IInv
    <2>4. CASE S # {}
      <3>1. PICK m \in S : EvictAndDestroy(c, "set_budget", m, S)
        BY <2>2, <2>4
      <3>2. \A k \in S : k \in Models /\ status[k] = "Loaded" /\ holders[k] = {}
        BY <1>3, VictimsIdle
      <3> QED BY ZenonT(30), <1>3, <2>1, <3>1, <3>2, EvictStep
    <2> QED BY <2>3, <2>4
  <1> QED BY <1>1, <1>2, <1>3, ReleaseStep DEF Next

\* The inductive invariant holds in every reachable state of the registry.
THEOREM Invariance == Spec => []IInv
  BY InitIInv, NextIInv, PTL DEF Spec

\* Every variable keeps its type; in particular a lease count never goes
\* negative when a ModelLease is released.
THEOREM TypeCorrect == Spec => []TypeOK
  BY Invariance, PTL DEF IInv

\* For any clients, models, specs and budgets: acquire_model, eviction, unload
\* and set_budget never take a Session from a holder of a lease, and
\* Entry::leases is the number of leases.
THEOREM LeasesAreSafe == Spec => []LeaseSafety
  BY Invariance, PTL DEF IInv

\* For any clients, models, specs and budgets: a charged model is charged for
\* the spec it is registered with, whatever register_model races with.
THEOREM SpecsAreStable == Spec => []SpecStable
  BY Invariance, PTL DEF IInv

\* For any clients, models, specs and budgets: a model is loaded by one client
\* at a time and is in state Loading exactly while that client loads it.
THEOREM LoadsAreExclusive == Spec => []SingleLoader
  BY Invariance, PTL DEF IInv

\* For any clients, models, specs and budgets the entries of the registry are
\* consistent: leases, specs and loads together.
THEOREM EntriesAreConsistent == Spec => []EntriesConsistent
  BY Invariance, PTL DEF IInv, EntriesConsistent

-----------------------------------------------------------------------------
(* The accounts: what is charged, who waits and for what *)

\* Only a client in destroy has Sessions that it took out and has not destroyed.
DoomedInv ==
    \A c \in Clients :
        /\ IsFiniteSet(doomed[c])
        /\ pc[c] # "destroy" => doomed[c] = {}

\* Of two entries at most one was used before the other.
UseOrder == \A a, b \in Models : <<a, b>> \in older => <<b, a>> \notin older

\* A client that waits is in a call; one that waits for a load or for evicted
\* Sessions has somebody to wake it; and one that waits for room wants a model
\* that is registered and, while the budget and the specs stay, cannot have it.
WaitOK(c) ==
    /\ pc[c] \in Waiting => call[c] \in Call
    /\ pc[c] = "waitLoading" => status[call[c].model] = "Loading"
    /\ pc[c] = "waitFrees" => \E d \in Clients : pc[d] = "destroy"
    /\ pc[c] = "waitUntil" => spec[call[c].model] # NoSpec
    /\ settled /\ pc[c] = "waitUntil" =>
        /\ status[call[c].model] # "Loaded"
        /\ status[call[c].model] = "Unloaded" => PlanFor(call[c].model) = {}

\* Client c has reserved model m and is still destroying its victims.
Pending(c, m) == pc[c] = "destroy" /\ InCall(c, "acquire", m)

\* What slack lets the charges exceed the budget by: for a reservation whose
\* victims are not destroyed yet, no more than the model takes and no more than
\* its victims will free.
SlackFor(slack, r) ==
    \A m \in Models : slack[m] # 0 =>
        \E c \in Clients :
            /\ Pending(c, m)
            /\ slack[m] <= bytes[m][r]
            /\ slack[m] <= SumDoomed(doomed[c], r)

\* The charges exceed a budget that stays only by such slack.
WithinBudget ==
    settled => \A r \in Resource :
        budget.limit[r] # 0 =>
            \E slack \in [Models -> Nat] :
                /\ SlackFor(slack, r)
                /\ used[r] <= budget.limit[r] + SumOver(slack, Models)

\* The inductive invariant.
BudgetInv ==
    /\ IInv
    /\ Accounting
    /\ DoomedInv
    /\ UseOrder
    /\ WithinBudget
    /\ \A c \in Clients : WaitOK(c)

-----------------------------------------------------------------------------
(* Sums of naturals over finite sets.                                      *)

\* What SumOver counts: one unit for each of the f[x] of an x.
Units(f, S) == UNION {{x} \X (1 .. f[x]) : x \in S}

\* There are finitely many units, so they can be counted.
LEMMA UnitsFinite ==
  ASSUME NEW S, NEW f, IsFiniteSet(S), \A x \in S : f[x] \in Nat
  PROVE  /\ IsFiniteSet(Units(f, S))
         /\ SumOver(f, S) = Cardinality(Units(f, S))
         /\ SumOver(f, S) \in Nat
  <1> DEFINE T == {{x} \X (1 .. f[x]) : x \in S}
             g == [x \in S |-> {x} \X (1 .. f[x])]
  <1>1. g \in Surjection(S, T)
    BY ZenonT(30) DEF Surjection
  <1>2. IsFiniteSet(T)
    BY <1>1, FS_Surjection
  <1>3. \A x \in S : IsFiniteSet({x} \X (1 .. f[x]))
    <2> SUFFICES ASSUME NEW x \in S
                 PROVE  IsFiniteSet({x} \X (1 .. f[x]))
      OBVIOUS
    <2>1. IsFiniteSet({x})
      BY ZenonT(30), FS_Singleton
    <2>2. IsFiniteSet(1 .. f[x])
      BY FS_Interval
    <2> QED BY <2>1, <2>2, FS_Product
  <1>4. \A U \in T : IsFiniteSet(U)
    BY <1>3
  <1>5. IsFiniteSet(UNION T)
    BY ZenonT(30), <1>2, <1>4, FS_UNION
  <1>6. IsFiniteSet(Units(f, S)) /\ SumOver(f, S) = Cardinality(Units(f, S))
    BY <1>5 DEF Units, SumOver
  <1> QED BY <1>6, FS_CardinalityType

\* The sum over nothing.
LEMMA SumEmpty ==
  ASSUME NEW f
  PROVE  SumOver(f, {}) = 0
  <1>1. UNION {{x} \X (1 .. f[x]) : x \in {}} = {}
    OBVIOUS
  <1> QED BY <1>1, FS_EmptySet DEF SumOver

\* The sum over one element.
LEMMA SumSingle ==
  ASSUME NEW f, NEW x, f[x] \in Nat
  PROVE  SumOver(f, {x}) = f[x]
  <1>1. UNION {{y} \X (1 .. f[y]) : y \in {x}} = {x} \X (1 .. f[x])
    OBVIOUS
  <1>2. IsFiniteSet(1 .. f[x]) /\ Cardinality(1 .. f[x]) = f[x]
    BY SMTT(20), FS_Interval
  <1>3. IsFiniteSet({x}) /\ Cardinality({x}) = 1
    BY ZenonT(30), FS_Singleton
  <1>4. Cardinality({x} \X (1 .. f[x])) = 1 * f[x]
    BY <1>2, <1>3, FS_Product, ZenonT(30)
  <1> QED BY <1>1, <1>4 DEF SumOver

\* The sum over two disjoint sets.
LEMMA SumSplit ==
  ASSUME NEW A, NEW B, NEW f, IsFiniteSet(A), IsFiniteSet(B), A \cap B = {},
         \A x \in A \cup B : f[x] \in Nat
  PROVE  SumOver(f, A \cup B) = SumOver(f, A) + SumOver(f, B)
  <1>1. Units(f, A \cup B) = Units(f, A) \cup Units(f, B)
    BY DEF Units
  <1>2. Units(f, A) \cap Units(f, B) = {}
    BY DEF Units
  <1>3. IsFiniteSet(A \cup B)
    BY ZenonT(30), FS_Union
  <1>4. /\ IsFiniteSet(Units(f, A)) /\ IsFiniteSet(Units(f, B))
        /\ SumOver(f, A) = Cardinality(Units(f, A)) /\ SumOver(f, A) \in Nat
        /\ SumOver(f, B) = Cardinality(Units(f, B)) /\ SumOver(f, B) \in Nat
        /\ SumOver(f, A \cup B) = Cardinality(Units(f, A \cup B))
    BY <1>3, UnitsFinite
  <1>5. Cardinality(Units(f, A) \cup Units(f, B))
          = Cardinality(Units(f, A)) + Cardinality(Units(f, B)) - 0
    BY <1>2, <1>4, FS_Union, FS_EmptySet
  <1>6. SumOver(f, A \cup B) = Cardinality(Units(f, A) \cup Units(f, B))
    BY <1>1, <1>4, Zenon
  <1>7. SumOver(f, A \cup B) = Cardinality(Units(f, A)) + Cardinality(Units(f, B)) - 0
    BY <1>5, <1>6, Zenon
  <1> QED BY <1>4, <1>7

\* A sum of smaller numbers is no larger.
LEMMA SumMonotone ==
  ASSUME NEW S, NEW f, NEW g, IsFiniteSet(S),
         \A x \in S : f[x] \in Nat /\ g[x] \in Nat /\ f[x] <= g[x]
  PROVE  SumOver(f, S) <= SumOver(g, S)
  <1>1. \A x \in S : 1 .. f[x] \subseteq 1 .. g[x]
    OBVIOUS
  <1>2. Units(f, S) \in SUBSET Units(g, S)
    BY <1>1 DEF Units
  <1>3. /\ IsFiniteSet(Units(g, S))
        /\ SumOver(f, S) = Cardinality(Units(f, S))
        /\ SumOver(g, S) = Cardinality(Units(g, S))
    BY UnitsFinite
  <1> QED BY <1>2, <1>3, FS_Subset

\* A sum depends on the numbers only.
LEMMA SumSame ==
  ASSUME NEW S, NEW f, NEW g, \A x \in S : f[x] = g[x]
  PROVE  SumOver(f, S) = SumOver(g, S)
  <1>1. {{x} \X (1 .. f[x]) : x \in S} = {{x} \X (1 .. g[x]) : x \in S}
    OBVIOUS
  <1> QED BY ZenonT(30), <1>1 DEF SumOver

\* The sum over a part is no larger.
LEMMA SumPart ==
  ASSUME NEW S, NEW T, NEW f, IsFiniteSet(S), T \subseteq S,
         \A x \in S : f[x] \in Nat
  PROVE  /\ SumOver(f, T) \in Nat /\ SumOver(f, S \ T) \in Nat
         /\ SumOver(f, S) = SumOver(f, T) + SumOver(f, S \ T)
         /\ SumOver(f, T) <= SumOver(f, S)
  <1>1. IsFiniteSet(T) /\ IsFiniteSet(S \ T) /\ T \cup (S \ T) = S
    BY FS_Subset
  <1>2. SumOver(f, T) \in Nat /\ SumOver(f, S \ T) \in Nat
    BY <1>1, UnitsFinite
  <1>3. SumOver(f, T \cup (S \ T)) = SumOver(f, T) + SumOver(f, S \ T)
    BY <1>1, SumSplit
  <1>4. SumOver(f, S) = SumOver(f, T) + SumOver(f, S \ T)
    BY <1>1, <1>3, Zenon
  <1> QED BY <1>2, <1>4

\* A sum of zeros.
LEMMA SumZero ==
  ASSUME NEW S, NEW f, \A x \in S : f[x] = 0
  PROVE  SumOver(f, S) = 0
  <1>1. \A x \in S : {x} \X (1 .. f[x]) = {}
    OBVIOUS
  <1>2. UNION {{x} \X (1 .. f[x]) : x \in S} = {}
    BY <1>1
  <1> QED BY <1>2, FS_EmptySet DEF SumOver

\* One number of a sum is replaced.
LEMMA SumUpdate ==
  ASSUME NEW S, NEW f, NEW g, NEW y \in S, IsFiniteSet(S),
         \A x \in S : f[x] \in Nat /\ g[x] \in Nat,
         \A x \in S \ {y} : g[x] = f[x]
  PROVE  /\ SumOver(f, S) \in Nat /\ SumOver(g, S) \in Nat
         /\ SumOver(g, S) = SumOver(f, S) - f[y] + g[y]
         /\ f[y] <= SumOver(f, S)
  <1>1. /\ SumOver(f, {y}) = f[y] /\ SumOver(g, {y}) = g[y]
        /\ SumOver(f, S \ {y}) = SumOver(g, S \ {y})
    BY SumSingle, SumSame
  <1>2. {y} \subseteq S
    OBVIOUS
  <1>3. /\ SumOver(f, S) = SumOver(f, {y}) + SumOver(f, S \ {y})
        /\ SumOver(f, S \ {y}) \in Nat
    BY <1>2, SumPart
  <1>4. SumOver(g, S) = SumOver(g, {y}) + SumOver(g, S \ {y})
    BY <1>2, SumPart
  <1> QED BY <1>1, <1>3, <1>4

\* A sum over the image of an injection.
LEMMA SumImage ==
  ASSUME NEW S, NEW g, NEW f, NEW h, IsFiniteSet(S), g \in [S -> {g[x] : x \in S}],
         \A x, y \in S : g[x] = g[y] => x = y,
         \A x \in S : h[x] \in Nat /\ f[g[x]] = h[x]
  PROVE  /\ IsFiniteSet({g[x] : x \in S})
         /\ SumOver(f, {g[x] : x \in S}) = SumOver(h, S)
  <1> DEFINE T == {g[x] : x \in S}
             b == [u \in Units(h, S) |-> <<g[u[1]], u[2]>>]
  <1>1. g \in Surjection(S, T)
    BY DEF Surjection
  <1>2. IsFiniteSet(T)
    BY <1>1, FS_Surjection
  <1>3. \A x \in S, i \in Nat : <<x, i>> \in Units(h, S) <=> i \in 1 .. h[x]
    BY DEF Units
  <1>4. \A u \in Units(h, S) : u[1] \in S /\ u[2] \in 1 .. h[u[1]] /\ u = <<u[1], u[2]>>
    BY DEF Units
  <1>5. \A x \in S, i \in Nat : <<g[x], i>> \in Units(f, T) <=> i \in 1 .. h[x]
    BY DEF Units
  <1>6. \A v \in Units(f, T) : \E x \in S, i \in Nat : v = <<g[x], i>>
    BY DEF Units
  <1> HIDE DEF T
  <1>7. b \in [Units(h, S) -> Units(f, T)]
    BY <1>4, <1>5
  <1>8. \A u, v \in Units(h, S) : b[u] = b[v] => u = v
    BY <1>4
  <1>9. \A v \in Units(f, T) : \E u \in Units(h, S) : b[u] = v
    <2> SUFFICES ASSUME NEW v \in Units(f, T)
                 PROVE  \E u \in Units(h, S) : b[u] = v
      OBVIOUS
    <2>1. PICK x \in S, i \in Nat : v = <<g[x], i>>
      BY <1>6
    <2>2. <<x, i>> \in Units(h, S)
      BY <1>3, <1>5, <2>1
    <2> QED BY <2>1, <2>2
  <1> HIDE DEF b
  <1>10. b \in Bijection(Units(h, S), Units(f, T))
    BY <1>7, <1>8, <1>9 DEF Bijection, Injection, Surjection, IsInjective
  <1>11. ExistsBijection(Units(h, S), Units(f, T))
    BY <1>10 DEF ExistsBijection
  <1>12. IsFiniteSet(Units(h, S)) /\ SumOver(h, S) = Cardinality(Units(h, S))
    BY UnitsFinite
  <1>13. Cardinality(Units(f, T)) = Cardinality(Units(h, S))
    BY <1>11, <1>12, FS_Bijection
  <1>14. SumOver(f, T) = SumOver(h, S)
    BY <1>12, <1>13 DEF SumOver, Units
  <1> QED BY <1>2, <1>14 DEF T

\* The numbers of a part of the set become 0.
LEMMA SumDrop ==
  ASSUME NEW S, NEW V, NEW f, NEW g, IsFiniteSet(S), V \subseteq S,
         \A x \in S : f[x] \in Nat /\ g[x] \in Nat,
         \A x \in V : g[x] = 0,
         \A x \in S \ V : g[x] = f[x]
  PROVE  /\ SumOver(f, V) \in Nat /\ SumOver(f, S) \in Nat
         /\ SumOver(g, S) = SumOver(f, S) - SumOver(f, V)
  <1>1. /\ SumOver(f, V) \in Nat /\ SumOver(f, S \ V) \in Nat
        /\ SumOver(f, S) = SumOver(f, V) + SumOver(f, S \ V)
    BY ZenonT(30), SumPart
  <1>2. SumOver(g, S) = SumOver(g, V) + SumOver(g, S \ V)
    BY ZenonT(30), SumPart
  <1>3. SumOver(g, V) = 0 /\ SumOver(g, S \ V) = SumOver(f, S \ V)
    BY SumZero, SumSame
  <1> QED BY <1>1, <1>2, <1>3

\* g is f after the terms of V went to zero (h) and that of y, then zero, got a
\* value.
Replaced(S, V, y, f, h, g) ==
    /\ y \in S /\ V \subseteq S
    /\ \A x \in S : f[x] \in Nat /\ h[x] \in Nat /\ g[x] \in Nat
    /\ \A x \in V : h[x] = 0
    /\ \A x \in S \ V : h[x] = f[x]
    /\ \A x \in S \ {y} : g[x] = h[x]
    /\ h[y] = 0

\* Then its sum is that of f without V and with the new term.
SumReplaced(S, V, y, f, g) == SumOver(g, S) = SumOver(f, S) - SumOver(f, V) + g[y]

LEMMA SumReplace ==
  ASSUME NEW S, NEW V, NEW y, NEW f, NEW h, NEW g, IsFiniteSet(S), Replaced(S, V, y, f, h, g)
  PROVE  SumReplaced(S, V, y, f, g)
  <1> USE DEF Replaced
  <1>1. /\ SumOver(f, V) \in Nat /\ SumOver(f, S) \in Nat
        /\ SumOver(h, S) = SumOver(f, S) - SumOver(f, V)
    BY ZenonT(30), SumDrop
  <1>2. SumOver(h, S) \in Nat /\ SumOver(g, S) = SumOver(h, S) - h[y] + g[y]
    <2>1. y \in S /\ \A x \in S : h[x] \in Nat /\ g[x] \in Nat
      OBVIOUS
    <2>2. \A x \in S \ {y} : g[x] = h[x]
      OBVIOUS
    <2> HIDE DEF Replaced
    <2> QED BY <2>1, <2>2, SumUpdate, SMTT(20)
  <1>3. g[y] \in Nat
    OBVIOUS
  <1> QED BY <1>1, <1>2, <1>3 DEF SumReplaced

-----------------------------------------------------------------------------
(* The charges of the registry as sums.                                    *)

\* What models are charged are numbers, and so is what a set of models is.
LEMMA BytesTyped ==
  ASSUME TypeOK, NEW r \in Resource
  PROVE  /\ \A m \in Models : BytesOf(r)[m] = bytes[m][r] /\ bytes[m][r] \in Nat
         /\ \A S \in SUBSET Models :
                /\ SumBytes(S, r) \in Nat
                /\ SumBytes(Models, r) = SumBytes(S, r) + SumBytes(Models \ S, r)
                /\ SumBytes(Models \ S, r) \in Nat
  <1>1. \A m \in Models : BytesOf(r)[m] = bytes[m][r] /\ bytes[m][r] \in Nat
    BY DEF BytesOf, TypeOK, Bytes
  <1>2. \A S \in SUBSET Models :
          /\ SumOver(BytesOf(r), S) \in Nat /\ SumOver(BytesOf(r), Models \ S) \in Nat
          /\ SumOver(BytesOf(r), Models)
               = SumOver(BytesOf(r), S) + SumOver(BytesOf(r), Models \ S)
    BY ZenonT(30), <1>1, ModelsFinite, SumPart
  <1> QED BY ZenonT(30), <1>1, <1>2 DEF SumBytes

\* The Sessions a client took out are charged what its victims were charged.
LEMMA TakenOutBytes ==
  ASSUME TypeOK, NEW V \in SUBSET Models, NEW r \in Resource
  PROVE  /\ IsFiniteSet(TakenOut(V))
         /\ SumDoomed(TakenOut(V), r) = SumBytes(V, r)
  <1> DEFINE g == [m \in V |-> [model |-> m, bytes |-> bytes[m]]]
             f == [d \in TakenOut(V) |-> d.bytes[r]]
  <1>1. IsFiniteSet(V)
    BY ModelsFinite, FS_Subset
  <1>2. {g[x] : x \in V} = TakenOut(V)
    BY DEF TakenOut
  <1>3. \A x, y \in V : g[x] = g[y] => x = y
    OBVIOUS
  <1>4. \A x \in V : BytesOf(r)[x] \in Nat /\ f[g[x]] = BytesOf(r)[x]
    BY BytesTyped DEF TakenOut
  <1>5. g \in [V -> {g[x] : x \in V}]
    OBVIOUS
  <1> HIDE DEF f, g
  <1>6. /\ IsFiniteSet({g[x] : x \in V})
        /\ SumOver(f, {g[x] : x \in V}) = SumOver(BytesOf(r), V)
    BY <1>1, <1>3, <1>4, <1>5, SumImage
  <1>7. SumDoomed(TakenOut(V), r) = SumOver(f, TakenOut(V))
    BY DEF SumDoomed, f
  <1> QED BY <1>2, <1>6, <1>7, Zenon DEF SumBytes

\* What Sessions in destruction are charged is a number.
LEMMA DoomedTyped ==
  ASSUME NEW D \in SUBSET [model : Models, bytes : Bytes], IsFiniteSet(D), NEW r \in Resource
  PROVE  SumDoomed(D, r) \in Nat
  <1> DEFINE f == [d \in D |-> d.bytes[r]]
  <1>1. \A d \in D : f[d] \in Nat
    BY DEF Bytes
  <1> QED BY <1>1, UnitsFinite DEF SumDoomed

\* A client gets new Sessions to destroy, or is done with them.
LEMMA DoomedUpdate ==
  ASSUME TypeOK, DoomedInv, NEW c \in Clients, NEW r \in Resource,
         NEW D \in SUBSET [model : Models, bytes : Bytes], IsFiniteSet(D),
         doomed' = [doomed EXCEPT ![c] = D]
  PROVE  /\ DoomedBytes(r) \in Nat /\ DoomedBytes(r)' \in Nat
         /\ SumDoomed(doomed[c], r) \in Nat /\ SumDoomed(D, r) \in Nat
         /\ DoomedBytes(r)' = DoomedBytes(r) - SumDoomed(doomed[c], r) + SumDoomed(D, r)
         /\ SumDoomed(doomed[c], r) <= DoomedBytes(r)
  <1> DEFINE f == DoomedOf(r)
             g == [x \in Clients |-> IF x = c THEN SumDoomed(D, r) ELSE f[x]]
  <1>1. \A x \in Clients : /\ doomed[x] \in SUBSET [model : Models, bytes : Bytes]
                           /\ IsFiniteSet(doomed[x])
    BY DEF TypeOK, DoomedInv
  <1>2. SumDoomed(D, r) \in Nat
    BY DoomedTyped
  <1>3. \A x \in Clients : f[x] = SumDoomed(doomed[x], r) /\ f[x] \in Nat
    BY <1>1, DoomedTyped DEF DoomedOf
  <1>4. DoomedOf(r)' = [x \in Clients |-> SumDoomed(doomed'[x], r)]
    BY DEF DoomedOf, SumDoomed
  <1>5. \A x \in Clients : doomed'[x] = IF x = c THEN D ELSE doomed[x]
    BY DEF TypeOK
  <1>6. \A x \in Clients : SumDoomed(doomed'[x], r) = g[x]
    BY <1>3, <1>5
  <1>7. DoomedOf(r)' = g
    BY <1>4, <1>6
  <1>8. /\ \A x \in Clients : f[x] \in Nat /\ g[x] \in Nat
        /\ \A x \in Clients \ {c} : g[x] = f[x]
        /\ g[c] = SumDoomed(D, r) /\ f[c] = SumDoomed(doomed[c], r)
    BY <1>2, <1>3
  <1> HIDE DEF f, g
  <1>9. /\ SumOver(f, Clients) \in Nat /\ SumOver(g, Clients) \in Nat
        /\ SumOver(g, Clients) = SumOver(f, Clients) - f[c] + g[c]
        /\ f[c] <= SumOver(f, Clients)
    BY ZenonT(30), <1>8, ClientsFinite, SumUpdate
  <1>10. DoomedBytes(r) = SumOver(f, Clients) /\ DoomedBytes(r)' = SumOver(g, Clients)
    BY <1>7 DEF DoomedBytes, f
  <1> QED BY ZenonT(30), <1>2, <1>8, <1>9, <1>10

-----------------------------------------------------------------------------
(* plan: when it finds nothing, and that it goes on finding nothing.       *)

\* Every set of naturals has a least element.
LEMMA HasLeast ==
  ASSUME NEW T, T \subseteq Nat, T # {}
  PROVE  \E x \in T : \A y \in T : x <= y
  <1> DEFINE R == OpToRel(<, Nat)
  <1>1. IsWellFoundedOn(R, Nat)
    BY ZenonT(30), NatLessThanWellFounded
  <1>2. \A x, y \in Nat : x < y => <<x, y>> \in R
    BY DEF OpToRel
  <1> HIDE DEF R
  <1>3. PICK x \in T : \A y \in T : ~(<<y, x>> \in R)
    BY ZenonT(30), <1>1, WFMin
  <1>4. \A y \in T : x \in Nat /\ y \in Nat /\ ~(y < x)
    BY ZenonT(30), <1>2, <1>3
  <1>5. \A y \in T : x <= y
    BY <1>4
  <1> QED BY <1>5

\* If evicting every candidate makes room, there is a plan.
LEMMA RoomHasPlan ==
  ASSUME UseOrder, NEW C \in SUBSET Models, NEW limit, NEW need,
         FitsWithout(C, limit, need)
  PROVE  plan(C, limit, need) # {}
  <1> DEFINE P == {S \in LruPrefixes(C) : FitsWithout(S, limit, need)}
             N == {Cardinality(S) : S \in P}
  <1>1. \A S \in P : S \subseteq C /\ S \subseteq Models
    BY DEF LruPrefixes
  <1>2. C \in P
    BY DEF LruPrefixes
  <1>3. \A S \in P : IsFiniteSet(S) /\ Cardinality(S) \in Nat
    BY <1>1, ModelsFinite, FS_Subset, FS_CardinalityType
  <1>4. \A S, T \in P : S \subseteq T \/ T \subseteq S
    <2> SUFFICES ASSUME NEW S \in P, NEW T \in P,
                        NEW v \in S \ T, NEW k \in T \ S
                 PROVE  FALSE
      OBVIOUS
    <2>1. <<v, k>> \in older /\ <<k, v>> \in older
      BY <1>1 DEF LruPrefixes
    <2>2. v \in Models /\ k \in Models
      BY <1>1
    <2> QED BY <2>1, <2>2 DEF UseOrder
  <1>5. \A S \in P : S \in LruPrefixes(C) /\ FitsWithout(S, limit, need)
    OBVIOUS
  <1>6. \A S \in LruPrefixes(C) : FitsWithout(S, limit, need) => S \in P
    OBVIOUS
  <1> HIDE DEF P
  <1>7. N \subseteq Nat /\ N # {}
    BY <1>2, <1>3
  <1>8. PICK n \in N : \A i \in N : n <= i
    BY ZenonT(30), <1>7, HasLeast
  <1>9. PICK S \in P : n = Cardinality(S)
    OBVIOUS
  <1>10. \A T \in P : S \subseteq T
    <2> SUFFICES ASSUME NEW T \in P, T \subseteq S
                 PROVE  S \subseteq T
      BY <1>4
    <2>1. Cardinality(S) <= Cardinality(T)
      BY <1>8, <1>9
    <2>2. Cardinality(T) <= Cardinality(S) /\ (Cardinality(S) = Cardinality(T) => S = T)
      BY <1>3, FS_Subset
    <2>3. Cardinality(S) = Cardinality(T)
      BY <1>3, <2>1, <2>2
    <2> QED BY <2>2, <2>3
  <1>11. S \in plan(C, limit, need)
    BY <1>5, <1>6, <1>10 DEF plan
  <1> QED BY <1>11

\* A model that does not fit still does not fit when there are fewer candidates
\* to evict, charged as before, and no less is used.
LEMMA PlanStaysEmpty ==
  ASSUME TypeOK, UseOrder, NEW k \in Models, PlanFor(k) = {}, TypeOK', spec[k] \in Spec_,
         spec'[k] = spec[k], budget' = budget,
         evictable({k})' \subseteq evictable({k}),
         \A m \in evictable({k})' : bytes'[m] = bytes[m],
         \A r \in Resource : used[r] \in Int /\ used'[r] \in Int /\ used[r] <= used'[r]
  PROVE  PlanFor(k)' = {}
  <1> DEFINE C == evictable({k})
             limit == budget.limit
             need == spec[k].need
  <1> SUFFICES ASSUME PlanFor(k)' # {}
               PROVE  FALSE
    OBVIOUS
  <1>1. PICK S \in PlanFor(k)' : TRUE
    OBVIOUS
  <1>2. /\ S \subseteq evictable({k})'
        /\ \A r \in Resource : fits(limit[r], used'[r] - SumBytes(S, r)', need[r])
    BY <1>1, ZenonT(30) DEF PlanFor, plan, LruPrefixes, FitsWithout
  <1>3. S \subseteq C /\ C \subseteq Models
    BY ZenonT(30), <1>2 DEF evictable
  <1>4. \A r \in Resource : fits(limit[r], used[r] - SumBytes(C, r), need[r])
    <2> SUFFICES ASSUME NEW r \in Resource
                 PROVE  fits(limit[r], used[r] - SumBytes(C, r), need[r])
      BY Zenon
    <2>1. \A m \in S : BytesOf(r)'[m] = BytesOf(r)[m]
      BY ZenonT(30), <1>2, <1>3 DEF BytesOf
    <2>2. SumBytes(S, r)' = SumOver(BytesOf(r), S)
      BY ZenonT(30), <2>1, SumSame DEF SumBytes
    <2>3. IsFiniteSet(C) /\ \A m \in C : BytesOf(r)[m] \in Nat
      BY ZenonT(30), <1>3, ModelsFinite, FS_Subset, BytesTyped
    <2>4. /\ SumOver(BytesOf(r), S) \in Nat
          /\ SumOver(BytesOf(r), C) \in Nat
          /\ SumOver(BytesOf(r), S) <= SumOver(BytesOf(r), C)
      BY ZenonT(30), <1>3, <2>3, SumPart, UnitsFinite
    <2>5. limit[r] \in Nat /\ need[r] \in Nat
      BY ZenonT(30) DEF TypeOK, Budget, Spec_, Bytes
    <2> HIDE DEF C, limit, need
    <2>6. fits(limit[r], used'[r] - SumOver(BytesOf(r), S), need[r])
      BY ZenonT(30), <1>2, <2>2
    <2>7. SumBytes(C, r) = SumOver(BytesOf(r), C)
      BY ZenonT(30) DEF SumBytes
    <2>8. fits(limit[r], used[r] - SumOver(BytesOf(r), C), need[r])
      BY ZenonT(30), <2>4, <2>5, <2>6, FitsLess
    <2> QED BY ZenonT(30), <2>7, <2>8
  <1>5. FitsWithout(C, limit, need)
    BY ZenonT(30), <1>4 DEF FitsWithout
  <1>6. plan(C, limit, need) # {}
    BY ZenonT(30), <1>3, <1>5, RoomHasPlan
  <1> QED BY ZenonT(30), <1>6 DEF PlanFor

-----------------------------------------------------------------------------
(* What is charged and what is released after a step.                      *)

\* What is charged after the victims of an eviction have left the registry and
\* model m, which was not charged, is charged n.
LEMMA BytesReplaced ==
  ASSUME TypeOK, NEW r \in Resource, NEW V \in SUBSET Models, NEW m \in Models \ V,
         bytes[m] = ZeroBytes, NEW n \in Bytes,
         bytes' = [k \in Models |-> IF k = m THEN n
                                    ELSE IF k \in V THEN ZeroBytes ELSE bytes[k]]
  PROVE  SumBytes(Models, r)' = SumBytes(Models, r) - SumBytes(V, r) + n[r]
  <1> DEFINE f == BytesOf(r)
             h == [k \in Models |-> IF k \in V THEN 0 ELSE f[k]]
             g == [k \in Models |-> IF k = m THEN n[r] ELSE h[k]]
  <1>1. \A k \in Models : f[k] = bytes[k][r] /\ f[k] \in Nat
    BY BytesTyped
  <1>2. n[r] \in Nat /\ ZeroBytes[r] = 0
    BY DEF Bytes, ZeroBytes
  <1>3. BytesOf(r)' = g
    <2>1. BytesOf(r)' = [k \in Models |-> bytes'[k][r]]
      BY DEF BytesOf
    <2>2. \A k \in Models : bytes'[k][r] = g[k]
      BY <1>1, <1>2
    <2> QED BY <2>1, <2>2
  <1>4. /\ \A k \in Models : f[k] \in Nat /\ h[k] \in Nat /\ g[k] \in Nat
        /\ \A k \in V : h[k] = 0
        /\ \A k \in Models \ V : h[k] = f[k]
        /\ \A k \in Models \ {m} : g[k] = h[k]
        /\ h[m] = 0 /\ g[m] = n[r]
    BY ZenonT(30), <1>1, <1>2
  <1> HIDE DEF f, g, h
  <1>5. SumOver(g, Models) = SumOver(f, Models) - SumOver(f, V) + g[m]
    <2>1. Replaced(Models, V, m, f, h, g)
      BY ZenonT(30), <1>4 DEF Replaced
    <2>2. SumReplaced(Models, V, m, f, g)
      BY ZenonT(30), <2>1, ModelsFinite, SumReplace
    <2> QED BY ZenonT(30), <2>2 DEF SumReplaced
  <1>6. SumBytes(Models, r)' = SumOver(g, Models)
    BY ZenonT(30), <1>3 DEF SumBytes
  <1>7. SumBytes(Models, r) = SumOver(f, Models) /\ SumBytes(V, r) = SumOver(f, V)
    BY ZenonT(30) DEF SumBytes, f
  <1> QED BY ZenonT(30), <1>4, <1>5, <1>6, <1>7

\* What is charged after the victims of an eviction have left the registry.
LEMMA BytesDropped ==
  ASSUME TypeOK, NEW r \in Resource, NEW V \in SUBSET Models,
         bytes' = [k \in Models |-> IF k \in V THEN ZeroBytes ELSE bytes[k]]
  PROVE  SumBytes(Models, r)' = SumBytes(Models, r) - SumBytes(V, r)
  <1> DEFINE f == BytesOf(r)
             g == [k \in Models |-> IF k \in V THEN 0 ELSE f[k]]
  <1>1. \A k \in Models : f[k] = bytes[k][r] /\ f[k] \in Nat
    BY BytesTyped
  <1>2. ZeroBytes[r] = 0
    BY DEF ZeroBytes
  <1>3. BytesOf(r)' = g
    <2>1. BytesOf(r)' = [k \in Models |-> bytes'[k][r]]
      BY DEF BytesOf
    <2>2. \A k \in Models : bytes'[k][r] = g[k]
      BY <1>1, <1>2
    <2> QED BY <2>1, <2>2
  <1>4. /\ \A k \in Models : f[k] \in Nat /\ g[k] \in Nat
        /\ \A k \in V : g[k] = 0
        /\ \A k \in Models \ V : g[k] = f[k]
    BY <1>1
  <1> HIDE DEF f, g
  <1>5. SumOver(g, Models) = SumOver(f, Models) - SumOver(f, V)
    BY <1>4, ModelsFinite, SumDrop, ZenonT(30)
  <1>6. SumBytes(Models, r)' = SumOver(g, Models)
    BY <1>3 DEF SumBytes
  <1>7. SumBytes(Models, r) = SumOver(f, Models) /\ SumBytes(V, r) = SumOver(f, V)
    BY DEF SumBytes, f
  <1> QED BY <1>5, <1>6, <1>7

\* Client c, which has no Sessions to destroy, takes out those of V.
LEMMA TakeOutReleases ==
  ASSUME TypeOK, DoomedInv, NEW c \in Clients, pc[c] # "destroy",
         NEW V \in SUBSET Models, NEW r \in Resource,
         doomed' = [doomed EXCEPT ![c] = TakenOut(V)]
  PROVE  /\ DoomedBytes(r)' = DoomedBytes(r) + SumBytes(V, r)
         /\ DoomedBytes(r) \in Nat /\ SumBytes(V, r) \in Nat
         /\ IsFiniteSet(TakenOut(V))
  <1>1. TakenOut(V) \in SUBSET [model : Models, bytes : Bytes]
    BY ZenonT(30), TakenOutTyped DEF TypeOK
  <1>2. IsFiniteSet(TakenOut(V)) /\ SumDoomed(TakenOut(V), r) = SumBytes(V, r)
    BY TakenOutBytes
  <1>3. doomed[c] = {}
    BY DEF DoomedInv
  <1>4. SumDoomed({}, r) = 0
    BY SumEmpty DEF SumDoomed
  <1>5. /\ DoomedBytes(r) \in Nat
        /\ DoomedBytes(r)' = DoomedBytes(r) - SumDoomed(doomed[c], r) + SumDoomed(TakenOut(V), r)
    BY ZenonT(30), <1>1, <1>2, DoomedUpdate
  <1>6. SumBytes(V, r) \in Nat
    BY ZenonT(30), BytesTyped
  <1>7. SumDoomed(doomed[c], r) = 0
    BY <1>3, <1>4
  <1> QED BY <1>2, <1>5, <1>6, <1>7

\* After a take_out, only clients in destroy have Sessions to destroy.
LEMMA TakeOutDoomed ==
  ASSUME TypeOK, DoomedInv, NEW c \in Clients, NEW V, IsFiniteSet(TakenOut(V)),
         doomed' = [doomed EXCEPT ![c] = TakenOut(V)],
         pc'[c] = "destroy" \/ V = {},
         \A d \in Clients \ {c} : pc'[d] = pc[d]
  PROVE  DoomedInv'
  <1>1. V = {} => TakenOut(V) = {}
    BY DEF TakenOut
  <1>2. doomed'[c] = TakenOut(V) /\ \A d \in Clients \ {c} : doomed'[d] = doomed[d]
    BY DEF TypeOK
  <1> QED BY ZenonT(30), <1>1, <1>2 DEF DoomedInv

-----------------------------------------------------------------------------
(* What steps that leave things alone preserve.                            *)

\* How settled changes in a step.
SettledStep == settled' = (settled /\ StaysSettled)

\* A step that charges nothing and releases nothing.
LEMMA AccountsKept ==
  ASSUME Accounting, UNCHANGED <<bytes, doomed, used, releasing>>
  PROVE  Accounting'
  BY DEF Accounting, DoomedBytes, DoomedOf, SumDoomed, SumBytes, BytesOf

\* The counters of the registry and what they add up are numbers.
CountersOK ==
    \A r \in Resource :
        /\ used[r] \in Nat /\ releasing[r] \in Nat
        /\ \A S \in SUBSET Models : SumBytes(S, r) \in Nat
        /\ \A c \in Clients : SumDoomed(doomed[c], r) \in Nat

\* The counters are numbers whenever they are exact.
LEMMA CountersTyped == TypeOK /\ DoomedInv /\ Accounting => CountersOK
  <1> SUFFICES ASSUME TypeOK, DoomedInv, Accounting, NEW r \in Resource
               PROVE  /\ used[r] \in Nat /\ releasing[r] \in Nat
                      /\ \A S \in SUBSET Models : SumBytes(S, r) \in Nat
                      /\ \A c \in Clients : SumDoomed(doomed[c], r) \in Nat
    BY DEF CountersOK
  <1>1. \A c \in Clients : /\ doomed[c] \in SUBSET [model : Models, bytes : Bytes]
                           /\ IsFiniteSet(doomed[c])
    BY DEF TypeOK, DoomedInv
  <1>2. \A c \in Clients : SumDoomed(doomed[c], r) \in Nat
    BY <1>1, DoomedTyped
  <1>3. \A c \in Clients : DoomedOf(r)[c] \in Nat
    BY <1>2 DEF DoomedOf
  <1>4. DoomedBytes(r) \in Nat
    BY <1>3, ClientsFinite, UnitsFinite DEF DoomedBytes
  <1>5. \A S \in SUBSET Models : SumBytes(S, r) \in Nat
    BY BytesTyped, ZenonT(30)
  <1> QED BY <1>2, <1>4, <1>5 DEF Accounting

\* A step that neither charges anything nor starts or ends a reservation.
LEMMA WithinBudgetKept ==
  ASSUME WithinBudget, SettledStep, UNCHANGED <<bytes, doomed, used>>,
         \A c \in Clients, m \in Models : Pending(c, m)' <=> Pending(c, m)
  PROVE  WithinBudget'
  <1> SUFFICES ASSUME settled', NEW r \in Resource, budget'.limit[r] # 0
               PROVE  \E slack \in [Models -> Nat] :
                        /\ SlackFor(slack, r)'
                        /\ used'[r] <= budget'.limit[r] + SumOver(slack, Models)
    BY DEF WithinBudget
  <1>1. settled /\ budget' = budget
    BY Zenon DEF SettledStep, StaysSettled
  <1>2. PICK slack \in [Models -> Nat] :
          SlackFor(slack, r) /\ used[r] <= budget.limit[r] + SumOver(slack, Models)
    BY ZenonT(30), <1>1 DEF WithinBudget
  <1>3. \A c \in Clients : SumDoomed(doomed[c], r)' = SumDoomed(doomed[c], r)
    BY DEF SumDoomed
  <1>4. SlackFor(slack, r)'
    BY ZenonT(30), <1>2, <1>3 DEF SlackFor
  <1> QED BY ZenonT(30), <1>1, <1>2, <1>4

\* touch keeps the order of use an order.
LEMMA TouchKeepsOrder ==
  ASSUME UseOrder, NEW m \in Models, older' = touch(m)
  PROVE  UseOrder'
  BY DEF UseOrder, touch

\* Nobody waits, so nobody waits in vain.
LEMMA NobodyWaits ==
  ASSUME \A c \in Clients : pc'[c] \notin Waiting
  PROVE  \A c \in Clients : WaitOK(c)'
  BY DEF WaitOK, Waiting

\* After notify_all nobody waits.
LEMMA NotifiedAll ==
  ASSUME NEW p, pc' = notify_all(p)
  PROVE  \A c \in Clients : WaitOK(c)'
  <1>1. \A c \in Clients : pc'[c] \notin Waiting
    BY DEF notify_all, Waiting
  <1> QED BY <1>1, NobodyWaits

\* No load ends in the step, no model becomes a candidate for eviction and
\* nothing is uncharged: what a client that waits waits for has not happened.
NoNews(c) ==
    /\ \A m \in Models :
        /\ status[m] = "Loading" => status'[m] = "Loading"
        /\ status'[m] = "Loaded" => status[m] = "Loaded" /\ bytes'[m] = bytes[m]
        /\ leases'[m] = 0 => leases[m] = 0
        /\ spec[m] # NoSpec => spec'[m] # NoSpec
    /\ \A r \in Resource : used[r] <= used'[r]
    /\ \A d \in Clients \ {c} : pc'[d] = pc[d] /\ call'[d] = call[d]
    /\ pc[c] # "destroy"

\* The clients other than the one that takes a step without news go on waiting,
\* and they still have to.
LEMMA OthersWait ==
  ASSUME BudgetInv, IInv', Accounting', DoomedInv', SettledStep,
         NEW c \in Clients, NoNews(c), NEW d \in Clients \ {c}
  PROVE  WaitOK(d)'
  <1>1. pc'[d] = pc[d] /\ call'[d] = call[d] /\ WaitOK(d)
    BY ZenonT(30) DEF NoNews, BudgetInv
  <1>2. pc[d] \in Waiting => call[d].model \in Models
    BY ZenonT(30), <1>1 DEF WaitOK, Call
  <1>3. pc[d] = "waitLoading" => status'[call[d].model] = "Loading"
    BY ZenonT(30), <1>1, <1>2 DEF WaitOK, NoNews, Waiting
  <1>4. pc[d] = "waitFrees" => \E e \in Clients : pc'[e] = "destroy"
    <2> SUFFICES ASSUME pc[d] = "waitFrees"
                 PROVE  \E e \in Clients : pc'[e] = "destroy"
      OBVIOUS
    <2>1. PICK e \in Clients : pc[e] = "destroy"
      BY ZenonT(30), <1>1 DEF WaitOK
    <2>2. e # c /\ pc'[e] = pc[e]
      BY ZenonT(30), <2>1 DEF NoNews
    <2> QED BY <2>1, <2>2
  <1>5. pc[d] = "waitUntil" => spec'[call[d].model] # NoSpec
    BY ZenonT(30), <1>1, <1>2 DEF WaitOK, NoNews, Waiting
  <1>6. settled' /\ pc[d] = "waitUntil" =>
          /\ status'[call[d].model] # "Loaded"
          /\ status'[call[d].model] = "Unloaded" => PlanFor(call[d].model)' = {}
    <2> SUFFICES ASSUME settled', pc[d] = "waitUntil"
                 PROVE  /\ status'[call[d].model] # "Loaded"
                        /\ status'[call[d].model] = "Unloaded" => PlanFor(call[d].model)' = {}
      OBVIOUS
    <2>1. settled /\ budget' = budget /\ \A m \in Models : spec[m] \in {NoSpec, spec'[m]}
      BY Zenon DEF SettledStep, StaysSettled
    <2> PICK k \in Models : k = call[d].model /\ k = call'[d].model
      BY ZenonT(30), <1>1, <1>2 DEF Waiting
    <2>2. spec[k] # NoSpec
      BY ZenonT(30), <1>1 DEF WaitOK
    <2>3. status[k] # "Loaded" /\ (status[k] = "Unloaded" => PlanFor(k) = {})
      BY ZenonT(30), <1>1, <2>1 DEF WaitOK
    <2>4. status'[k] # "Loaded" /\ (status'[k] = "Unloaded" => status[k] = "Unloaded")
      BY ZenonT(30), <2>2, <2>3 DEF NoNews, BudgetInv, IInv, TypeOK
    <2> SUFFICES ASSUME status[k] = "Unloaded"
                 PROVE  PlanFor(k)' = {}
      BY ZenonT(30), <2>4
    <2>5. \A m \in evictable({k})' : m \in evictable({k}) /\ bytes'[m] = bytes[m]
      <3> SUFFICES ASSUME NEW m \in evictable({k})'
                   PROVE  m \in evictable({k}) /\ bytes'[m] = bytes[m]
        OBVIOUS
      <3>1. /\ m \in Models /\ m # k /\ status'[m] = "Loaded" /\ leases'[m] = 0
            /\ ~spec'[m].pinned
        BY ZenonT(30) DEF evictable
      <3>2. status[m] = "Loaded" /\ bytes'[m] = bytes[m] /\ leases[m] = 0
        BY <3>1 DEF NoNews
      <3>3. spec[m] # NoSpec
        BY <3>1, <3>2 DEF BudgetInv, IInv, SpecStable
      <3>4. spec'[m] = spec[m]
        BY <2>1, <3>1, <3>3
      <3> QED BY ZenonT(30), <3>1, <3>2, <3>4 DEF evictable
    <2>6. spec[k] \in Spec_ /\ spec'[k] = spec[k]
      BY <2>1, <2>2 DEF BudgetInv, IInv, TypeOK
    <2>7. \A r \in Resource : used[r] \in Int /\ used'[r] \in Int /\ used[r] <= used'[r]
      <3>1. \A r \in Resource : used[r] \in Nat
        BY CountersTyped DEF BudgetInv, IInv, CountersOK
      <3>2. \A r \in Resource : used'[r] \in Nat
        <4>1. TypeOK'
          BY DEF IInv
        <4>2. CountersOK'
          BY <4>1, CountersTyped, PTL
        <4> QED BY <4>2 DEF CountersOK
      <3> QED BY <3>1, <3>2 DEF NoNews
    <2>8. TypeOK /\ UseOrder /\ TypeOK'
      BY ZenonT(30) DEF BudgetInv, IInv
    <2> QED BY ZenonT(30), <2>1, <2>2, <2>3, <2>5, <2>6, <2>7, <2>8, PlanStaysEmpty
  <1> QED BY ZenonT(30), <1>1, <1>3, <1>4, <1>5, <1>6 DEF WaitOK

-----------------------------------------------------------------------------
(* Steps that neither charge nor release anything.                         *)

\* Such a step by client c keeps the invariant if it keeps the order of use and
\* nobody waits in vain after it.
LEMMA StillStep ==
  ASSUME BudgetInv, IInv', SettledStep, NEW c \in Clients,
         UNCHANGED <<bytes, doomed, used, releasing>>, UseOrder',
         pc[c] # "destroy", pc'[c] # "destroy",
         \A d \in Clients \ {c} : /\ call'[d] = call[d]
                                  /\ pc[d] = "destroy" <=> pc'[d] = "destroy",
         Accounting' /\ DoomedInv' => \A d \in Clients : WaitOK(d)'
  PROVE  BudgetInv'
  <1>1. Accounting'
    BY ZenonT(30), AccountsKept DEF BudgetInv
  <1>2. DoomedInv'
    BY ZenonT(30) DEF BudgetInv, DoomedInv
  <1>3. \A d \in Clients, m \in Models : Pending(d, m)' <=> Pending(d, m)
    BY ZenonT(30) DEF Pending, InCall
  <1>4. WithinBudget'
    BY ZenonT(30), <1>3, WithinBudgetKept DEF BudgetInv
  <1> QED BY ZenonT(30), <1>1, <1>2, <1>4 DEF BudgetInv

\* A step that changes no entry and no counter tells nobody anything.
LEMMA NothingNew ==
  ASSUME BudgetInv, NEW c \in Clients, pc[c] # "destroy",
         UNCHANGED <<entryVars, stateVars, doomed, holders>>,
         \A d \in Clients \ {c} : pc'[d] = pc[d] /\ call'[d] = call[d]
  PROVE  NoNews(c) /\ UseOrder' /\ UNCHANGED <<bytes, doomed, used, releasing>>
  <1>1. \A r \in Resource : used[r] \in Nat
    BY ZenonT(30), CountersTyped DEF BudgetInv, IInv, CountersOK
  <1>2. \A r \in Resource : used[r] <= used'[r]
    BY ZenonT(30), <1>1, SameSize DEF stateVars
  <1>3. NoNews(c)
    BY ZenonT(30), <1>2 DEF NoNews, entryVars
  <1>4. UseOrder' /\ UNCHANGED <<bytes, doomed, used, releasing>>
    BY ZenonT(30) DEF entryVars, stateVars, BudgetInv, UseOrder
  <1> QED BY ZenonT(30), <1>3, <1>4

\* What plan finds depends on the entries and the counters only.
LEMMA PlanKept ==
  ASSUME UNCHANGED <<entryVars, stateVars>>, NEW k
  PROVE  PlanFor(k)' = PlanFor(k)
  BY ZenonT(30) DEF PlanFor, plan, LruPrefixes, FitsWithout, SumBytes, BytesOf, evictable,
         entryVars, stateVars

\* A wait, a return without a result, a deadline.
LEMMA QuietKeeps ==
  ASSUME BudgetInv, IInv', SettledStep, NEW c \in Clients,
         pc[c] # "destroy", pc'[c] # "destroy",
         UNCHANGED <<entryVars, stateVars, doomed, holders>>,
         \A d \in Clients \ {c} : pc'[d] = pc[d] /\ call'[d] = call[d],
         WaitOK(c)'
  PROVE  BudgetInv'
  <1>1. NoNews(c) /\ UseOrder' /\ UNCHANGED <<bytes, doomed, used, releasing>>
    BY ZenonT(30), NothingNew
  <1>2. Accounting' /\ DoomedInv' => \A d \in Clients : WaitOK(d)'
    BY ZenonT(30), <1>1, OthersWait
  <1> QED BY ZenonT(30), <1>1, <1>2, StillStep

\* A call that returns without having changed anything.
LEMMA ReturnKeeps ==
  ASSUME BudgetInv, IInv', SettledStep, NEW c \in Clients,
         pc[c] \in {"idle", "run"}, Return(c),
         UNCHANGED <<entryVars, stateVars, doomed, holders>>
  PROVE  BudgetInv'
  <1>1. /\ pc' = [pc EXCEPT ![c] = "idle"]
        /\ call' = [call EXCEPT ![c] = NoCall]
    BY DEF Return, Goto, Hangup
  <1>2. pc'[c] = "idle" /\ \A d \in Clients \ {c} : pc'[d] = pc[d] /\ call'[d] = call[d]
    BY ZenonT(30), <1>1 DEF BudgetInv, IInv, TypeOK
  <1>3. WaitOK(c)'
    BY ZenonT(30), <1>2 DEF WaitOK, Waiting
  <1> QED BY ZenonT(30), <1>2, <1>3, QuietKeeps

\* cv.wait, for a reason.
LEMMA WaitKeeps ==
  ASSUME BudgetInv, IInv', SettledStep, NEW c \in Clients, NEW m \in Models,
         NEW where \in Waiting, NEW op \in {"acquire", "unload", "register"},
         At(c, op, m), Wait(c, where, op, m),
         where = "waitLoading" => status[m] = "Loading",
         where = "waitFrees" => \E d \in Clients : pc[d] = "destroy",
         where = "waitUntil" => spec[m] # NoSpec /\ status[m] = "Unloaded" /\ PlanFor(m) = {}
  PROVE  BudgetInv'
  <1>1. /\ pc' = [pc EXCEPT ![c] = where]
        /\ call' = [call EXCEPT ![c] = CallRecord(c, op, m)]
        /\ UNCHANGED <<entryVars, stateVars, doomed, holders>>
    BY ZenonT(30) DEF Wait, Goto
  <1>2. /\ pc'[c] = where /\ call'[c] = CallRecord(c, op, m)
        /\ \A d \in Clients \ {c} : pc'[d] = pc[d] /\ call'[d] = call[d]
    BY ZenonT(30), <1>1 DEF BudgetInv, IInv, TypeOK
  <1>3. CallRecord(c, op, m) \in Call
    BY ZenonT(30), CallRecordTyped DEF BudgetInv, IInv
  <1>4. CallRecord(c, op, m).model = m
    BY ZenonT(30) DEF CallRecord
  <1>5. pc[c] \in {"idle", "run"} /\ pc'[c] # "destroy"
    BY ZenonT(30), <1>2 DEF At, Waiting
  <1>6. WaitOK(c)'
    <2>1. where = "waitFrees" => \E d \in Clients : pc'[d] = "destroy"
      BY ZenonT(30), <1>2, <1>5
    <2>2. status'[m] = status[m] /\ spec'[m] = spec[m]
      BY ZenonT(30), <1>1 DEF entryVars
    <2>3. PlanFor(m)' = PlanFor(m)
      BY ZenonT(30), <1>1, PlanKept
    <2>4. call'[c].model = m /\ call'[c] \in Call
      BY ZenonT(30), <1>2, <1>3, <1>4
    <2>5. PlanFor(call[c].model)' = PlanFor(m)
      BY ZenonT(30), <2>3, <2>4
    <2> QED BY ZenonT(30), <1>2, <2>1, <2>2, <2>4, <2>5 DEF WaitOK
  <1> QED BY ZenonT(30), <1>1, <1>2, <1>5, <1>6, QuietKeeps

\* A deadline: a client that waits for room stops waiting, another one goes on.
LEMMA DeadlineKeeps ==
  ASSUME BudgetInv, IInv', SettledStep, NEW c \in Clients, DeadlinePasses(c)
  PROVE  BudgetInv'
  <1>1. /\ pc[c] \in Waiting \cup {"run"} /\ call[c].op = "acquire"
        /\ pc' = [pc EXCEPT ![c] = IF pc[c] = "waitUntil" THEN "run" ELSE pc[c]]
        /\ call' = [call EXCEPT ![c].expired = TRUE]
        /\ UNCHANGED <<entryVars, stateVars, doomed, holders>>
    BY DEF DeadlinePasses, Goto
  <1>2. \A d \in Clients \ {c} : pc'[d] = pc[d] /\ call'[d] = call[d]
    BY <1>1 DEF BudgetInv, IInv, TypeOK
  <1>3. pc'[c] = (IF pc[c] = "waitUntil" THEN "run" ELSE pc[c]) /\ pc'[c] # "waitUntil"
    BY <1>1 DEF BudgetInv, IInv, TypeOK
  <1>4. pc[c] # "destroy" /\ pc'[c] # "destroy"
    BY <1>1, <1>3 DEF Waiting
  <1>5. call[c] \in Call
    BY <1>1 DEF BudgetInv, IInv, TypeOK, NoCall
  <1>6. call'[c] \in Call /\ call'[c].model = call[c].model
    BY ZenonT(30), <1>1, <1>5 DEF BudgetInv, IInv, TypeOK, Call
  <1>7. WaitOK(c)'
    <2>1. WaitOK(c)
      BY DEF BudgetInv
    <2>2. pc[c] = "waitFrees" => \E d \in Clients : pc'[d] = "destroy"
      <3> SUFFICES ASSUME pc[c] = "waitFrees"
                   PROVE  \E d \in Clients : pc'[d] = "destroy"
        OBVIOUS
      <3>1. PICK d \in Clients : pc[d] = "destroy"
        BY ZenonT(30), <2>1 DEF WaitOK
      <3> QED BY <1>2, <1>4, <3>1
    <2>3. pc'[c] = "waitLoading" => status'[call'[c].model] = "Loading"
      BY <1>1, <1>3, <1>6, <2>1 DEF WaitOK, entryVars
    <2> QED BY ZenonT(30), <1>3, <1>6, <2>2, <2>3 DEF WaitOK
  <1> QED BY <1>1, <1>2, <1>4, <1>7, QuietKeeps

\* One more lease on a loaded model: one candidate for eviction less.
LEMMA AcquireLoadedKeeps ==
  ASSUME BudgetInv, IInv', SettledStep, NEW c \in Clients, NEW m \in Models,
         AcquireLoaded(c, m)
  PROVE  BudgetInv'
  <1>1. /\ pc[c] \in {"idle", "run"}
        /\ leases' = [leases EXCEPT ![m] = @ + 1]
        /\ older' = touch(m)
        /\ pc' = [pc EXCEPT ![c] = "idle"]
        /\ call' = [call EXCEPT ![c] = NoCall]
        /\ UNCHANGED <<spec, status, bytes, stateVars, doomed>>
    BY ZenonT(30) DEF AcquireLoaded, AtAcquire, At, Return, Goto, Hangup
  <1>2. /\ pc'[c] = "idle" /\ pc[c] # "destroy"
        /\ \A d \in Clients \ {c} : pc'[d] = pc[d] /\ call'[d] = call[d]
    BY ZenonT(30), <1>1 DEF BudgetInv, IInv, TypeOK
  <1>3. \A k \in Models : leases'[k] = 0 => leases[k] = 0
    <2>1. leases \in [Models -> Nat]
      BY DEF BudgetInv, IInv, TypeOK
    <2>2. leases' = [leases EXCEPT ![m] = @ + 1]
      BY <1>1
    <2>3. leases[m] \in Nat /\ leases'[m] = leases[m] + 1
      BY <2>1, <2>2
    <2>4. leases'[m] # 0
      BY <2>3
    <2>5. \A k \in Models : k # m => leases'[k] = leases[k]
      BY <2>1, <2>2
    <2> QED BY <2>4, <2>5
  <1>4. \A r \in Resource : used[r] \in Nat /\ used'[r] = used[r]
    BY ZenonT(30), <1>1, CountersTyped DEF BudgetInv, IInv, CountersOK, stateVars
  <1>5. NoNews(c)
    <2>1. \A r \in Resource : used[r] <= used'[r]
      BY <1>4
    <2> QED BY <1>1, <1>2, <1>3, <2>1, ZenonT(30) DEF NoNews
  <1>6. UseOrder'
    BY <1>1, TouchKeepsOrder DEF BudgetInv
  <1>7. WaitOK(c)'
    BY <1>2 DEF WaitOK, Waiting
  <1>8. Accounting' /\ DoomedInv' => \A d \in Clients : WaitOK(d)'
    BY <1>5, <1>7, OthersWait
  <1> QED BY <1>1, <1>2, <1>6, <1>8, StillStep DEF stateVars

\* One lease less, and everybody is told.
LEMMA ReleaseKeeps ==
  ASSUME BudgetInv, IInv', SettledStep, NEW c \in Clients, NEW m \in Models,
         release_model(c, m)
  PROVE  BudgetInv'
  <1>1. /\ pc[c] = "idle"
        /\ older' = touch(m)
        /\ pc' = notify_all(pc)
        /\ UNCHANGED <<bytes, doomed, used, releasing, call>>
    BY DEF release_model, stateVars
  <1>2. pc'[c] # "destroy" /\ \A d \in Clients : pc[d] = "destroy" <=> pc'[d] = "destroy"
    BY ZenonT(30), <1>1, NotifyKeeps DEF BudgetInv, IInv, TypeOK, Waiting
  <1>3. UseOrder'
    BY <1>1, TouchKeepsOrder DEF BudgetInv
  <1>4. \A d \in Clients : WaitOK(d)'
    BY <1>1, NotifiedAll
  <1> QED BY ZenonT(30), <1>1, <1>2, <1>3, <1>4, StillStep

\* A model is loaded, and everybody is told.
LEMMA LoadSucceedsKeeps ==
  ASSUME BudgetInv, IInv', SettledStep, NEW c \in Clients, NEW m \in Models,
         LoadSucceeds(c, m)
  PROVE  BudgetInv'
  <1>1. /\ pc[c] = "init"
        /\ older' = touch(m)
        /\ pc' = notify_all([pc EXCEPT ![c] = "idle"])
        /\ call' = [call EXCEPT ![c] = NoCall]
        /\ UNCHANGED <<bytes, doomed, used, releasing>>
    BY DEF LoadSucceeds, Goto, Hangup, stateVars
  <1>2. [pc EXCEPT ![c] = "idle"] \in [Clients -> PC]
    BY DEF BudgetInv, IInv, TypeOK, PC
  <1>3. pc'[c] # "destroy" /\ \A d \in Clients \ {c} : pc[d] = "destroy" <=> pc'[d] = "destroy"
    <2> DEFINE p == [pc EXCEPT ![c] = "idle"]
    <2>1. p[c] = "idle" /\ \A d \in Clients \ {c} : p[d] = pc[d]
      BY DEF BudgetInv, IInv, TypeOK
    <2> HIDE DEF p
    <2>2. \A d \in Clients : pc'[d] = "destroy" <=> p[d] = "destroy"
      BY <1>1, <1>2, NotifyKeeps, ZenonT(30) DEF Waiting, p
    <2> QED BY <2>1, <2>2
  <1>4. \A d \in Clients \ {c} : call'[d] = call[d]
    BY ZenonT(30), <1>1 DEF BudgetInv, IInv, TypeOK
  <1>5. UseOrder'
    BY <1>1, TouchKeepsOrder DEF BudgetInv
  <1>6. \A d \in Clients : WaitOK(d)'
    BY <1>1, NotifiedAll
  <1> QED BY ZenonT(30), <1>1, <1>3, <1>4, <1>5, <1>6, StillStep

\* A new spec for a model that is not loaded.
LEMMA RegisterKeeps ==
  ASSUME BudgetInv, IInv', SettledStep, NEW c \in Clients, NEW m \in Models,
         NEW s \in SpecsOf[m], RegisterUnloaded(c, m, s)
  PROVE  BudgetInv'
  <1>1. /\ pc[c] \in {"idle", "run"}
        /\ spec' = [spec EXCEPT ![m] = s]
        /\ pc' = [pc EXCEPT ![c] = "idle"]
        /\ call' = [call EXCEPT ![c] = NoCall]
        /\ UNCHANGED <<status, bytes, leases, older, stateVars, doomed>>
    BY ZenonT(30) DEF RegisterUnloaded, At, Return, Goto, Hangup
  <1>2. /\ pc'[c] = "idle" /\ pc[c] # "destroy"
        /\ \A d \in Clients \ {c} : pc'[d] = pc[d] /\ call'[d] = call[d]
    BY ZenonT(30), <1>1 DEF BudgetInv, IInv, TypeOK
  <1>3. \A k \in Models : spec[k] # NoSpec => spec'[k] # NoSpec
    <2>1. s # NoSpec
      BY SpecsTyped
    <2> QED BY ZenonT(30), <1>1, <2>1 DEF BudgetInv, IInv, TypeOK
  <1>4. \A r \in Resource : used[r] \in Nat /\ used'[r] = used[r]
    BY ZenonT(30), <1>1, CountersTyped DEF BudgetInv, IInv, CountersOK, stateVars
  <1>5. NoNews(c)
    <2>1. \A r \in Resource : used[r] <= used'[r]
      BY <1>4
    <2> QED BY <1>1, <1>2, <1>3, <2>1, ZenonT(30) DEF NoNews
  <1>6. UseOrder'
    BY ZenonT(30), <1>1 DEF BudgetInv, UseOrder
  <1>7. WaitOK(c)'
    BY ZenonT(30), <1>2 DEF WaitOK, Waiting
  <1>8. Accounting' /\ DoomedInv' => \A d \in Clients : WaitOK(d)'
    BY ZenonT(30), <1>5, <1>7, OthersWait
  <1> QED BY ZenonT(30), <1>1, <1>2, <1>6, <1>8, StillStep DEF stateVars

=============================================================================
