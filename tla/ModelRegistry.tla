--------------------------- MODULE ModelRegistry ---------------------------
(***************************************************************************)
(* The model registry (src/src/core/models/model_registry.cpp): named      *)
(* model specs loaded lazily into Sessions under a RAM/VRAM budget, with   *)
(* LRU eviction of idle, unpinned models.                                  *)
(*                                                                         *)
(* Every function of the registry runs under one mutex which it drops in   *)
(* three places only: inside cv.wait, while it destroys evicted Sessions   *)
(* (destroy) and while it loads a model (init + on_load).  One action here *)
(* is one critical section: from taking the mutex to the next place where  *)
(* it is dropped.  A client is a caller together with the one lease per    *)
(* model it may hold; a thread with two leases on a model is two clients.  *)
(***************************************************************************)
EXTENDS Integers, FiniteSets

CONSTANTS
    Clients,    \* callers of the registry
    Models,     \* model names
    SpecsOf,    \* [Models -> set of specs that register_model may be given]
    Budgets,    \* budgets the registry is created with or set_budget is given
    NoSpec      \* spec of a name that is not registered

Resource == {"ram", "vram"}
Bytes == [Resource -> Nat]
Spec_ == [need : Bytes, pinned : BOOLEAN]
Budget == [limit : Bytes, wait : BOOLEAN, allow_overcommit : BOOLEAN]

ASSUME ClientsFinite == IsFiniteSet(Clients)
ASSUME ModelsFinite == IsFiniteSet(Models)
ASSUME SpecsTyped == SpecsOf \in [Models -> SUBSET Spec_] /\ NoSpec \notin Spec_
ASSUME BudgetsTyped == Budgets \subseteq Budget

VARIABLES
    spec,       \* [Models -> Spec_ \cup {NoSpec}]; Entry::spec
    status,     \* Entry::status
    bytes,      \* Entry::ram / vram, charged while Loading or Loaded
    leases,     \* Entry::leases
    older,      \* pairs <<a, b>> with Entry::use_tick of a below that of b
    budget,
    used,       \* ram_used / vram_used
    releasing,  \* ram_releasing / vram_releasing
    pc,         \* where each client is: see PC
    call,       \* the call each client is in, NoCall when idle
    doomed,     \* the Doomed list of each client: Sessions taken out, not destroyed yet
    holders     \* the clients that hold a lease on each model

entryVars == <<spec, status, bytes, leases, older>>
stateVars == <<budget, used, releasing>>
clientVars == <<pc, call, doomed, holders>>
vars == <<spec, status, bytes, leases, older, budget, used, releasing,
          pc, call, doomed, holders>>

\* "run": about to take the mutex again after a wait; the three waits are the
\* three cv.wait calls; "destroy" and "init" run without the mutex.
Waiting == {"waitLoading", "waitFrees", "waitUntil"}
PC == {"idle", "run", "destroy", "init"} \cup Waiting
Call == [op : {"acquire", "unload", "register", "set_budget"},
         model : Models, expired : BOOLEAN]

NoCall == [op |-> "none"]
ZeroBytes == [r \in Resource |-> 0]

\* used and releasing are typed by Accounting, which says what they add up to.
TypeOK ==
    /\ spec \in [Models -> Spec_ \cup {NoSpec}]
    /\ status \in [Models -> {"Unloaded", "Loading", "Loaded"}]
    /\ bytes \in [Models -> Bytes]
    /\ leases \in [Models -> Nat]
    /\ older \in SUBSET (Models \X Models)
    /\ budget \in Budget
    /\ pc \in [Clients -> PC]
    /\ call \in [Clients -> Call \cup {NoCall}]
    /\ doomed \in [Clients -> SUBSET [model : Models, bytes : Bytes]]
    /\ holders \in [Models -> SUBSET Clients]

Init ==
    /\ spec = [m \in Models |-> NoSpec]
    /\ status = [m \in Models |-> "Unloaded"]
    /\ bytes = [m \in Models |-> ZeroBytes]
    /\ leases = [m \in Models |-> 0]
    /\ older = {}
    /\ budget \in Budgets
    /\ used = ZeroBytes
    /\ releasing = ZeroBytes
    /\ pc = [c \in Clients |-> "idle"]
    /\ call = [c \in Clients |-> NoCall]
    /\ doomed = [c \in Clients |-> {}]
    /\ holders = [m \in Models |-> {}]

-----------------------------------------------------------------------------
(* Helpers, one per helper of the source.                                  *)

\* ++st.tick makes the entry the most recently used one.
touch(m) ==
    {p \in older : p[1] # m /\ p[2] # m} \cup ((Models \ {m}) \X {m})

\* cv.notify_all: every client in a cv.wait will take the mutex again.
notify_all(p) == [c \in Clients |-> IF p[c] \in Waiting THEN "run" ELSE p[c]]

fits(limit, u, need) == limit = 0 \/ u + need <= limit

\* Mutant of evictable: models in use are candidates too.
EvictableInUse(except) ==
    {m \in Models \ except : status[m] = "Loaded" /\ ~spec[m].pinned}

\* Idle, unpinned, loaded models other than the one being loaded.
evictable(except) ==
    {m \in Models \ except : /\ status[m] = "Loaded"
                             /\ leases[m] = 0
                             /\ ~spec[m].pinned}

\* The sum of the naturals f[x] over the x in S, as the size of a disjoint union.
SumOver(f, S) == Cardinality(UNION {{x} \X (1 .. f[x]) : x \in S})

BytesOf(r) == [m \in Models |-> bytes[m][r]]

SumBytes(S, r) == SumOver(BytesOf(r), S)

SumDoomed(D, r) == SumOver([d \in D |-> d.bytes[r]], D)

\* Sets a walk of the candidates in LRU order can stop at.
LruPrefixes(candidates) ==
    {S \in SUBSET candidates : \A v \in S, k \in candidates \ S : <<v, k>> \in older}

\* Mutant of FitsWithout: bytes that are being released count as free already.
FitsIgnoringReleasing(S, limit, need) ==
    \A r \in Resource :
        fits(limit[r], used[r] - releasing[r] - SumBytes(S, r), need[r])

FitsWithout(S, limit, need) ==
    \A r \in Resource :
        fits(limit[r], used[r] - SumBytes(S, r), need[r])

\* The shortest LRU prefix whose eviction makes need fit, as a set of at most
\* one set: empty when even evicting every candidate does not suffice.
plan(candidates, limit, need) ==
    {S \in LruPrefixes(candidates) :
        /\ FitsWithout(S, limit, need)
        /\ \A T \in LruPrefixes(candidates) :
               FitsWithout(T, limit, need) => S \subseteq T}

\* take_out for every model of S, by client c.  Their bytes become releasing
\* and stay in used.
TakenOut(S) == {[model |-> m, bytes |-> bytes[m]] : m \in S}

ReleasingWith(S) ==
    [r \in Resource |-> releasing[r] + SumBytes(S, r)]

InCall(c, op, m) == call[c].op = op /\ call[c].model = m

\* Client c is at the head of a critical section of a call to op on model m:
\* it has just called the function, or it was woken inside it.
At(c, op, m) ==
    \/ pc[c] = "idle"
    \/ pc[c] = "run" /\ InCall(c, op, m)

\* Mutant of Expired: a wait has no deadline.
NeverExpired(c) == pc[c] = "idle" /\ ~budget.wait

\* Whether the deadline of the acquire has passed.  The first section computes
\* the deadline from budget.wait_ms.
Expired(c) == IF pc[c] = "idle" THEN ~budget.wait ELSE call[c].expired

CallRecord(c, op, m) == [op |-> op, model |-> m, expired |-> Expired(c)]

Goto(c, where) == [pc EXCEPT ![c] = where]

Hangup(c) == [call EXCEPT ![c] = NoCall]

Return(c) ==
    /\ pc' = Goto(c, "idle")
    /\ call' = Hangup(c)

\* The mutex is dropped inside cv.wait.
Wait(c, where, op, m) ==
    /\ pc' = Goto(c, where)
    /\ call' = [call EXCEPT ![c] = CallRecord(c, op, m)]
    /\ UNCHANGED <<entryVars, stateVars, doomed, holders>>

-----------------------------------------------------------------------------
(* acquire_model                                                           *)

AtAcquire(c, m) ==
    /\ At(c, "acquire", m)
    /\ spec[m] # NoSpec
    /\ c \notin holders[m]

\* The model is loaded: one more lease.
AcquireLoaded(c, m) ==
    /\ AtAcquire(c, m)
    /\ status[m] = "Loaded"
    /\ leases' = [leases EXCEPT ![m] = @ + 1]
    /\ holders' = [holders EXCEPT ![m] = @ \cup {c}]
    /\ older' = touch(m)
    /\ Return(c)
    /\ UNCHANGED <<spec, status, bytes, stateVars, doomed>>

\* Another client is loading it.
AcquireWaitLoading(c, m) ==
    /\ AtAcquire(c, m)
    /\ status[m] = "Loading"
    /\ Wait(c, "waitLoading", "acquire", m)

\* estimate_model_memory fails (the model file is gone, bad engine_options).
AcquireEstimateFails(c, m) ==
    /\ AtAcquire(c, m)
    /\ status[m] = "Unloaded"
    /\ Return(c)
    /\ UNCHANGED <<entryVars, stateVars, doomed, holders>>

PlanFor(m) == plan(evictable({m}), budget.limit, spec[m].need)

FreesPending == \E r \in Resource : releasing[r] > 0

\* It does not fit, and another client is destroying evicted models: wait,
\* without a deadline, and plan again.
AcquireWaitFrees(c, m) ==
    /\ AtAcquire(c, m)
    /\ status[m] = "Unloaded"
    /\ PlanFor(m) = {}
    /\ FreesPending
    /\ Wait(c, "waitFrees", "acquire", m)

\* It does not fit: wait for leases to be released, until the deadline.
AcquireWaitUntil(c, m) ==
    /\ AtAcquire(c, m)
    /\ status[m] = "Unloaded"
    /\ PlanFor(m) = {}
    /\ ~FreesPending
    /\ ~budget.allow_overcommit /\ ~Expired(c)
    /\ Wait(c, "waitUntil", "acquire", m)

\* It does not fit and the wait is over: OutOfMemory.
AcquireOutOfMemory(c, m) ==
    /\ AtAcquire(c, m)
    /\ status[m] = "Unloaded"
    /\ PlanFor(m) = {}
    /\ ~FreesPending
    /\ ~budget.allow_overcommit /\ Expired(c)
    /\ Return(c)
    /\ UNCHANGED <<entryVars, stateVars, doomed, holders>>

\* Take the victims out, charge the estimate and drop the mutex: to destroy
\* the victims, or straight to the load when there are none.
ReserveEvicting(c, m, victims) ==
    /\ status' = [k \in Models |-> IF k = m THEN "Loading"
                                   ELSE IF k \in victims THEN "Unloaded"
                                   ELSE status[k]]
    /\ bytes' = [k \in Models |-> IF k = m THEN spec[m].need
                                  ELSE IF k \in victims THEN ZeroBytes
                                  ELSE bytes[k]]
    /\ used' = [r \in Resource |-> used[r] + spec[m].need[r]]
    /\ releasing' = ReleasingWith(victims)
    /\ doomed' = [doomed EXCEPT ![c] = TakenOut(victims)]
    /\ pc' = Goto(c, IF victims = {} THEN "init" ELSE "destroy")
    /\ call' = [call EXCEPT ![c] = CallRecord(c, "acquire", m)]
    /\ UNCHANGED <<spec, leases, older, budget, holders>>

AcquireReserve(c, m) ==
    /\ AtAcquire(c, m)
    /\ status[m] = "Unloaded"
    /\ \E victims \in PlanFor(m) : ReserveEvicting(c, m, victims)

\* allow_overcommit: evict every candidate and load over budget.
AcquireOvercommit(c, m) ==
    /\ AtAcquire(c, m)
    /\ status[m] = "Unloaded"
    /\ PlanFor(m) = {}
    /\ ~FreesPending
    /\ budget.allow_overcommit
    /\ ReserveEvicting(c, m, evictable({m}))

\* The deadline passes: only noticed by a client that waits for leases.
DeadlinePasses(c) ==
    /\ pc[c] \in Waiting \cup {"run"}
    /\ call[c].op = "acquire" /\ ~call[c].expired
    /\ call' = [call EXCEPT ![c].expired = TRUE]
    /\ pc' = Goto(c, IF pc[c] = "waitUntil" THEN "run" ELSE pc[c])
    /\ UNCHANGED <<entryVars, stateVars, doomed, holders>>

\* init and on_load succeeded.
LoadSucceeds(c, m) ==
    /\ pc[c] = "init" /\ InCall(c, "acquire", m)
    /\ status' = [status EXCEPT ![m] = "Loaded"]
    /\ leases' = [leases EXCEPT ![m] = 1]
    /\ holders' = [holders EXCEPT ![m] = @ \cup {c}]
    /\ older' = touch(m)
    /\ pc' = notify_all(Goto(c, "idle"))
    /\ call' = Hangup(c)
    /\ UNCHANGED <<spec, bytes, stateVars, doomed>>

\* init or on_load failed: the reservation is released.
LoadFails(c, m) ==
    /\ pc[c] = "init" /\ InCall(c, "acquire", m)
    /\ used' = [r \in Resource |-> used[r] - bytes[m][r]]
    /\ bytes' = [bytes EXCEPT ![m] = ZeroBytes]
    /\ status' = [status EXCEPT ![m] = "Unloaded"]
    /\ pc' = notify_all(Goto(c, "idle"))
    /\ call' = Hangup(c)
    /\ UNCHANGED <<spec, leases, older, budget, releasing, doomed, holders>>

\* Mutant of release_model: nobody is told.
ReleaseQuietly(c, m) ==
    /\ pc[c] = "idle"
    /\ c \in holders[m]
    /\ leases' = [leases EXCEPT ![m] = @ - 1]
    /\ holders' = [holders EXCEPT ![m] = @ \ {c}]
    /\ older' = touch(m)
    /\ UNCHANGED <<spec, status, bytes, stateVars, pc, call, doomed>>

\* The deleter of ModelLease::hold, when the last copy of a lease goes.
release_model(c, m) ==
    /\ pc[c] = "idle"
    /\ c \in holders[m]
    /\ leases' = [leases EXCEPT ![m] = @ - 1]
    /\ holders' = [holders EXCEPT ![m] = @ \ {c}]
    /\ older' = touch(m)
    /\ pc' = notify_all(pc)
    /\ UNCHANGED <<spec, status, bytes, stateVars, call, doomed>>

-----------------------------------------------------------------------------
(* unload_model, register_model, set_budget: take Sessions out, then       *)
(* destroy them without the mutex.                                         *)

\* take_out of the victims by a call that does not load anything.
EvictAndDestroy(c, op, m, victims) ==
    /\ victims # {}
    /\ status' = [k \in Models |-> IF k \in victims THEN "Unloaded" ELSE status[k]]
    /\ bytes' = [k \in Models |-> IF k \in victims THEN ZeroBytes ELSE bytes[k]]
    /\ releasing' = ReleasingWith(victims)
    /\ doomed' = [doomed EXCEPT ![c] = TakenOut(victims)]
    /\ pc' = Goto(c, "destroy")
    /\ call' = [call EXCEPT ![c] = CallRecord(c, op, m)]
    /\ UNCHANGED <<spec, leases, older, used, holders>>

UnloadOps == {"unload", "register"}

\* unload_locked waits out a load of the model.
UnloadWaits(c, op, m) ==
    /\ At(c, op, m) /\ spec[m] # NoSpec
    /\ status[m] = "Loading"
    /\ Wait(c, "waitLoading", op, m)

\* unload_locked refuses a model that is in use.
UnloadInUse(c, op, m) ==
    /\ At(c, op, m) /\ spec[m] # NoSpec
    /\ status[m] = "Loaded" /\ leases[m] > 0
    /\ Return(c)
    /\ UNCHANGED <<entryVars, stateVars, doomed, holders>>

UnloadIdle(c, op, m) ==
    /\ At(c, op, m) /\ spec[m] # NoSpec
    /\ status[m] = "Loaded" /\ leases[m] = 0
    /\ EvictAndDestroy(c, op, m, {m})
    /\ UNCHANGED budget

\* unload_model of a model that is not loaded.
UnloadNothing(c, m) ==
    /\ At(c, "unload", m) /\ spec[m] # NoSpec
    /\ status[m] = "Unloaded"
    /\ Return(c)
    /\ UNCHANGED <<entryVars, stateVars, doomed, holders>>

\* register_model of a new name, or of a model that is not loaded.
RegisterUnloaded(c, m, s) ==
    /\ At(c, "register", m)
    /\ status[m] = "Unloaded"
    /\ spec' = [spec EXCEPT ![m] = s]
    /\ Return(c)
    /\ UNCHANGED <<status, bytes, leases, older, stateVars, doomed, holders>>

\* set_budget: evict idle models, LRU first, until the rest fit.
set_budget(c, b) ==
    /\ pc[c] = "idle"
    /\ budget' = b
    /\ LET idle == evictable({})
           planned == plan(idle, b.limit, ZeroBytes)
           victims == IF planned = {} THEN {idle} ELSE planned
       IN  \E S \in victims :
               IF S = {}
               THEN UNCHANGED <<entryVars, used, releasing, clientVars>>
               ELSE \E m \in S : EvictAndDestroy(c, "set_budget", m, S)

-----------------------------------------------------------------------------
(* The end of destroy: the Sessions are gone, the mutex is taken again,    *)
(* their bytes are uncharged and the call continues under the mutex.       *)

Uncharge(c, where) ==
    LET freed == [r \in Resource |-> SumDoomed(doomed[c], r)] IN
    /\ pc[c] = "destroy"
    /\ used' = [r \in Resource |-> used[r] - freed[r]]
    /\ releasing' = [r \in Resource |-> releasing[r] - freed[r]]
    /\ doomed' = [doomed EXCEPT ![c] = {}]
    /\ pc' = notify_all(Goto(c, where))
    /\ UNCHANGED <<status, bytes, leases, older, budget, holders>>

DestroyThenLoad(c) ==
    /\ call[c].op = "acquire"
    /\ Uncharge(c, "init")
    /\ UNCHANGED <<spec, call>>

DestroyThenReturn(c) ==
    /\ call[c].op \in {"unload", "set_budget"}
    /\ Uncharge(c, "idle")
    /\ call' = Hangup(c)
    /\ UNCHANGED spec

\* register_model looks at the status again: the mutex was dropped, and
\* someone may have loaded the model meanwhile.
DestroyThenRegister(c, m, s) ==
    /\ InCall(c, "register", m)
    /\ Uncharge(c, "idle")
    /\ call' = Hangup(c)
    /\ spec' = IF status[m] = "Unloaded" THEN [spec EXCEPT ![m] = s] ELSE spec

-----------------------------------------------------------------------------
Section(c) ==
    \/ \E m \in Models :
        \/ AcquireLoaded(c, m)
        \/ AcquireWaitLoading(c, m)
        \/ AcquireEstimateFails(c, m)
        \/ AcquireWaitFrees(c, m)
        \/ AcquireWaitUntil(c, m)
        \/ AcquireOutOfMemory(c, m)
        \/ AcquireReserve(c, m)
        \/ AcquireOvercommit(c, m)
        \/ UnloadNothing(c, m)
        \/ \E op \in UnloadOps : \/ UnloadWaits(c, op, m)
                                 \/ UnloadInUse(c, op, m)
                                 \/ UnloadIdle(c, op, m)
        \/ \E s \in SpecsOf[m] : \/ RegisterUnloaded(c, m, s)
                                \/ DestroyThenRegister(c, m, s)
        \/ LoadSucceeds(c, m)
        \/ LoadFails(c, m)
    \/ DestroyThenLoad(c)
    \/ DestroyThenReturn(c)
    \/ DeadlinePasses(c)

Next ==
    \E c \in Clients :
        \/ Section(c)
        \/ \E m \in Models : release_model(c, m)
        \/ \E b \in Budgets : set_budget(c, b)

Spec == Init /\ [][Next]_vars

\* A step of a call that is under way.  The thread scheduler runs every thread,
\* model loads and Session destructors return, and the clock reaches every
\* deadline; nothing forces a client to make a call or to release a lease.
Internal(c) == pc[c] # "idle" /\ Section(c)

FairSpec == Spec /\ \A c \in Clients : WF_vars(Internal(c))
-----------------------------------------------------------------------------
(* Properties                                                              *)

\* The client that reserved model m and has not finished loading it yet.
Loader(c, m) == pc[c] \in {"destroy", "init"} /\ InCall(c, "acquire", m)

\* Leases are counted exactly, and a Session is in the registry as long as
\* somebody holds a lease on it: neither an eviction nor a reload (which sets
\* Entry::leases to 1, not to leases + 1) ever takes a Session from a holder
\* ("a model in use is never evicted").
LeaseSafety ==
    \A m \in Models :
        /\ leases[m] = Cardinality(holders[m])
        /\ holders[m] # {} => status[m] = "Loaded"

\* A model that is charged is charged for the spec it is registered with: no
\* register_model slips in a new spec between the estimate, the reservation,
\* the load and the unload of the old one.
SpecStable ==
    \A m \in Models :
        IF status[m] = "Unloaded" THEN bytes[m] = ZeroBytes
        ELSE spec[m] # NoSpec /\ bytes[m] = spec[m].need

\* A model is Loading exactly while one client is loading it: two clients never
\* load one model, and no model is left in Loading when its loader is gone.
SingleLoader ==
    \A m \in Models :
        /\ status[m] = "Loading" <=> \E c \in Clients : Loader(c, m)
        /\ \A c, d \in Clients : Loader(c, m) /\ Loader(d, m) => c = d

\* The entries make sense to every thread that holds a lease, loads or evicts.
EntriesConsistent == TypeOK /\ LeaseSafety /\ SpecStable /\ SingleLoader

DoomedOf(r) == [c \in Clients |-> SumDoomed(doomed[c], r)]

DoomedBytes(r) == SumOver(DoomedOf(r), Clients)

\* ram_used and ram_releasing (vram alike) are exactly what the entries and the
\* Sessions still being destroyed are charged, at every release of the mutex.
Accounting ==
    \A r \in Resource :
        /\ releasing[r] = DoomedBytes(r)
        /\ used[r] = SumBytes(Models, r) + releasing[r]

\* When nobody makes new calls or releases leases any more, every call that is
\* under way returns: clients that hold leases and wait for each other's models
\* do not wait for ever.
EveryCallReturns ==
    <>[][\E c \in Clients : Internal(c)]_vars =>
        <>[](\A c \in Clients : pc[c] = "idle")
=============================================================================
