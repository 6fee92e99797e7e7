---------------------------- MODULE SqliteStore ----------------------------
(***************************************************************************)
(* The SQLite memory store of src/tools/store-sqlite/src/sqlite_store.cpp: *)
(* a write-back cache under cache_mutex in front of one table, a writer    *)
(* thread that flushes it, and the threads of the program that call put,   *)
(* get and clear.  A section under a mutex is one step; so is a            *)
(* transaction, since readers see the last committed one (WAL).  An entry  *)
(* counts as one unit of the cache's byte budgets.                         *)
(***************************************************************************)
EXTENDS Naturals, Sequences, FiniteSets

CONSTANTS
    Clients,    \* threads of the program
    Keys, Values,
    Missing,    \* no value
    MaxCached,  \* max_cache_bytes, in entries
    Threshold,  \* flush_dirty_threshold_bytes, in entries
    Scenes      \* records: the keys each thread reads and writes, the threads that clear

VARIABLES
    scene,
    db,      \* table kv, as committed
    cache,   \* key -> [value, dirty], or Missing
    lru,     \* keys of the cache, most recently used first
    signal,  \* what signal_mutex protects: wake, stop, clear, done
    writer,  \* writer_thread: its place, do_stop, the batch, and whether its
             \* last transaction failed
    call,    \* the call each client is in
    truth,   \* history: what the puts and clears so far add up to
    overtaken  \* history: keys whose last put came while a get was reading them

storeVars == <<scene, db, cache, lru, signal, writer, call, truth, overtaken>>

Empty == [k \in Keys |-> Missing]
Idle == [pc |-> "idle", key |-> Missing, value |-> Missing]
Quiet == [wake |-> FALSE, stop |-> FALSE, clear |-> FALSE, done |-> FALSE]
Waiting == [pc |-> "wait", stop |-> FALSE, batch |-> Empty, failed |-> FALSE]

StoreInit ==
    /\ scene \in Scenes
    /\ db = Empty /\ cache = Empty /\ lru = << >>
    /\ signal = Quiet /\ writer = Waiting
    /\ call = [c \in Clients |-> Idle]
    /\ truth = Empty /\ overtaken = {}

Cached == {k \in Keys : cache[k] # Missing}
Dirty(ca) == {k \in Keys : ca[k] # Missing /\ ca[k].dirty}
Entry(v, d) == [value |-> v, dirty |-> d]

\* The key moves to the front of the list.
Used(k, l) == <<k>> \o SelectSeq(l, LAMBDA x : x # k)

\* The places of the list that hold a clean entry.
Evictable(ca, l) == {i \in DOMAIN l : ca[l[i]] # Missing /\ ~ca[l[i]].dirty}

\* evict_if_needed_locked: over the budget, the clean entries go, least
\* recently used first, until the rest fits.
EvictedCount(ca, l) ==
    LET over == Len(l) - MaxCached
        clean == Cardinality(Evictable(ca, l))
    IN  IF Len(l) <= MaxCached THEN 0 ELSE IF clean < over THEN clean ELSE over

Evicted(ca, l) ==
    {l[i] : i \in {j \in Evictable(ca, l) :
        Cardinality({m \in Evictable(ca, l) : m > j}) < EvictedCount(ca, l)}}

evict_if_needed_locked(ca, l) ==
    LET gone == Evicted(ca, l)
    IN  /\ cache' = [k \in Keys |-> IF k \in gone THEN Missing ELSE ca[k]]
        /\ lru' = SelectSeq(l, LAMBDA k : k \notin gone)

Return(c) == call' = [call EXCEPT ![c] = Idle]
GoesOn(c, pc, k, v) == call' = [call EXCEPT ![c] = [pc |-> pc, key |-> k, value |-> v]]

\* The destructor runs when no call is in progress any more.
Open(c) == call[c] = Idle /\ ~signal.stop

-----------------------------------------------------------------------------
(* put_sqlite, get_sqlite, clear_sqlite *)

\* A get has not found the key in the cache and is still to fill it.
BeingRead(k) == \E c \in Clients : call[c].pc \in {"select", "fill"} /\ call[c].key = k

put_sqlite(c, k, v) ==
    /\ Open(c) /\ k \in scene.writes[c]
    /\ cache' = [cache EXCEPT ![k] = Entry(v, TRUE)]
    /\ lru' = Used(k, lru)
    /\ truth' = [truth EXCEPT ![k] = v]
    /\ overtaken' = IF BeingRead(k) THEN overtaken \cup {k} ELSE overtaken \ {k}
    /\ IF Cardinality(Dirty(cache')) >= Threshold
         THEN GoesOn(c, "wake", k, v) ELSE Return(c)
    /\ UNCHANGED <<scene, db, signal, writer>>

PutWakes(c) ==
    /\ call[c].pc = "wake"
    /\ signal' = [signal EXCEPT !.wake = TRUE]
    /\ Return(c)
    /\ UNCHANGED <<scene, db, cache, lru, writer, truth, overtaken>>

get_sqlite(c, k) ==
    /\ Open(c) /\ k \in scene.reads[c]
    /\ \/ /\ k \in Cached
          /\ lru' = Used(k, lru)
          /\ Return(c)
       \/ /\ k \notin Cached
          /\ GoesOn(c, "select", k, Missing)
          /\ UNCHANGED lru
    /\ UNCHANGED <<scene, db, cache, signal, writer, truth, overtaken>>

\* The SELECT, with neither mutex held.  It finds no row, or it fails, and the
\* call returns an error; or it has a row.
GetSelects(c) ==
    /\ call[c].pc = "select"
    /\ LET v == db[call[c].key]
       IN  \/ Return(c)
           \/ v # Missing /\ GoesOn(c, "fill", call[c].key, v)
    /\ UNCHANGED <<scene, db, cache, lru, signal, writer, truth, overtaken>>

\* What was read goes into the cache unless the key is there by now.
GetFills(c) ==
    /\ call[c].pc = "fill"
    /\ LET k == call[c].key
       IN  IF k \in Cached THEN UNCHANGED <<cache, lru>>
           ELSE evict_if_needed_locked([cache EXCEPT ![k] = Entry(call[c].value, FALSE)],
                                       <<k>> \o lru)
    /\ Return(c)
    /\ UNCHANGED <<scene, db, signal, writer, truth, overtaken>>

clear_sqlite(c) ==
    /\ Open(c) /\ c \in scene.clears
    /\ cache' = Empty /\ lru' = << >>
    /\ truth' = Empty
    /\ GoesOn(c, "ask", Missing, Missing)
    /\ UNCHANGED <<scene, db, signal, writer, overtaken>>

ClearAsks(c) ==
    /\ call[c].pc = "ask"
    /\ signal' = [signal EXCEPT !.clear = TRUE, !.done = FALSE]
    /\ GoesOn(c, "clearing", Missing, Missing)
    /\ UNCHANGED <<scene, db, cache, lru, writer, truth, overtaken>>

ClearReturns(c) ==
    /\ call[c].pc = "clearing" /\ signal.done
    /\ Return(c)
    /\ UNCHANGED <<scene, db, cache, lru, signal, writer, truth, overtaken>>

-----------------------------------------------------------------------------
(* writer_loop and flush_dirty *)

\* The wait ends when something is asked for or after flush_interval; the
\* requests are read before the mutex is left.
WriterWakes ==
    /\ writer.pc = "wait"
    /\ writer' = [writer EXCEPT !.pc = IF signal.clear THEN "delete" ELSE "collect",
                                !.stop = signal.stop]
    /\ signal' = [signal EXCEPT !.wake = FALSE]
    /\ UNCHANGED <<scene, db, cache, lru, call, truth, overtaken>>

\* DELETE FROM kv, which may fail: then the old rows count again.
WriterDeletes ==
    /\ writer.pc = "delete"
    /\ writer' = [writer EXCEPT !.pc = "answer"]
    /\ \/ db' = Empty /\ UNCHANGED truth
       \/ truth' = db /\ UNCHANGED db
    /\ UNCHANGED <<scene, cache, lru, signal, call, overtaken>>

WriterAnswers ==
    /\ writer.pc = "answer"
    /\ signal' = [signal EXCEPT !.clear = FALSE, !.done = TRUE]
    /\ writer' = [writer EXCEPT !.pc = "collect"]
    /\ UNCHANGED <<scene, db, cache, lru, call, truth, overtaken>>

\* The loop ends when the request to stop was seen before the flush.
AfterFlush == IF writer.stop THEN "joined" ELSE "wait"

WriterCollects ==
    /\ writer.pc = "collect"
    /\ writer' = IF Dirty(cache) = {} THEN [writer EXCEPT !.pc = AfterFlush]
                 ELSE [writer EXCEPT !.pc = "commit",
                         !.batch = [k \in Keys |-> IF k \in Dirty(cache)
                                                   THEN cache[k].value ELSE Missing]]
    /\ UNCHANGED <<scene, db, cache, lru, signal, call, truth, overtaken>>

Written == [k \in Keys |-> IF writer.batch[k] = Missing THEN db[k] ELSE writer.batch[k]]

\* Mutant of WriterCommits: no transaction, so that a failure leaves some rows.
WriterInserts ==
    /\ writer.pc = "commit"
    /\ \/ /\ db' = Written
          /\ writer' = [writer EXCEPT !.pc = "mark", !.failed = FALSE]
       \/ /\ \E some \in SUBSET Keys :
                 db' = [k \in Keys |-> IF k \in some THEN Written[k] ELSE db[k]]
          /\ writer' = [writer EXCEPT !.pc = AfterFlush, !.batch = Empty, !.failed = TRUE]
    /\ UNCHANGED <<scene, cache, lru, signal, call, truth, overtaken>>

\* BEGIN, the inserts and COMMIT; when one of them fails, nothing is written.
WriterCommits ==
    /\ writer.pc = "commit"
    /\ \/ /\ db' = Written
          /\ writer' = [writer EXCEPT !.pc = "mark", !.failed = FALSE]
       \/ /\ writer' = [writer EXCEPT !.pc = AfterFlush, !.batch = Empty, !.failed = TRUE]
          /\ UNCHANGED db
    /\ UNCHANGED <<scene, cache, lru, signal, call, truth, overtaken>>

\* Mutant of CleanNow: what was put in the meantime counts as written.
CleanNowAll(k) == cache[k].dirty

\* Only the value that was written is clean now.
CleanNow(k) == cache[k].dirty /\ cache[k].value = writer.batch[k]

WriterMarks ==
    /\ writer.pc = "mark"
    /\ evict_if_needed_locked(
         [k \in Keys |-> IF k \in Cached /\ writer.batch[k] # Missing /\ CleanNow(k)
                         THEN Entry(cache[k].value, FALSE) ELSE cache[k]], lru)
    /\ writer' = [writer EXCEPT !.pc = AfterFlush, !.batch = Empty]
    /\ UNCHANGED <<scene, db, signal, call, truth, overtaken>>

-----------------------------------------------------------------------------
(* The life of the store *)

\* ~SqliteMemoryState asks the writer to stop and joins it.
Close ==
    /\ \A c \in Clients : Open(c)
    /\ signal' = [signal EXCEPT !.stop = TRUE]
    /\ UNCHANGED <<scene, db, cache, lru, writer, call, truth, overtaken>>

\* open_sqlite on the same file.
Opened ==
    /\ cache' = Empty /\ lru' = << >>
    /\ signal' = Quiet /\ writer' = Waiting
    /\ call' = [c \in Clients |-> Idle]
    /\ truth' = db /\ overtaken' = {}
    /\ UNCHANGED <<scene, db>>

open_sqlite == writer.pc = "joined" /\ Opened

\* The process dies and the next one opens the file.
StoreCrash == writer.pc # "joined" /\ Opened

StoreNext ==
    \/ \E c \in Clients, k \in Keys, v \in Values : put_sqlite(c, k, v)
    \/ \E c \in Clients, k \in Keys : get_sqlite(c, k)
    \/ \E c \in Clients : \/ PutWakes(c) \/ GetSelects(c) \/ GetFills(c)
                          \/ clear_sqlite(c) \/ ClearAsks(c) \/ ClearReturns(c)
    \/ WriterWakes \/ WriterDeletes \/ WriterAnswers
    \/ WriterCollects \/ WriterCommits \/ WriterMarks
    \/ Close \/ open_sqlite \/ StoreCrash

StoreSpec == StoreInit /\ [][StoreNext]_storeVars

-----------------------------------------------------------------------------
(* Properties *)

\* A thread that clears is the only one that uses the store.
Apart(s) ==
    \A c \in s.clears, d \in Clients :
        c # d => d \notin s.clears /\ s.reads[d] \cup s.writes[d] = {}

\* What the proofs in SqliteStoreProofs rest on.
ScenesApart ==
    /\ Missing \notin Values \cup [value : Values, dirty : BOOLEAN]
                          \cup [Keys -> Values \cup {Missing}]
    /\ \A s \in Scenes :
        /\ s.reads \in [Clients -> SUBSET Keys] /\ s.writes \in [Clients -> SUBSET Keys]
        /\ s.clears \subseteq Clients /\ Apart(s)

StoreTypeOK ==
    /\ scene \in Scenes
    /\ db \in [Keys -> Values \cup {Missing}] /\ truth \in [Keys -> Values \cup {Missing}]
    /\ cache \in [Keys -> [value : Values, dirty : BOOLEAN] \cup {Missing}]
    /\ \A i, j \in DOMAIN lru : lru[i] = lru[j] => i = j
    /\ {lru[i] : i \in DOMAIN lru} = Cached
    /\ signal \in [wake : BOOLEAN, stop : BOOLEAN, clear : BOOLEAN, done : BOOLEAN]
    /\ writer.batch \in [Keys -> Values \cup {Missing}]
    /\ overtaken \subseteq Keys

\* What a get that starts now would return.
View == [k \in Keys |-> IF k \in Cached THEN cache[k].value ELSE db[k]]

\* clear_sqlite has emptied the cache and the table is still to be emptied.
Clearing ==
    \E c \in Clients :
        \/ call[c].pc = "ask"
        \/ call[c].pc = "clearing" /\ ~signal.done /\ writer.pc # "answer"

\* "a store_memory immediately followed by a retrieve_memory for the same key
\* always sees the value you just stored" (memory.md:59).  No put is lost,
\* whichever threads share a key: what is not dirty in the cache is in the
\* table, across evictions, flushes that fail and the ones that are overtaken
\* by a put.  And a get sees it, unless the last put of the key came between
\* another get's cache miss and its fill (get_sqlite): that get may put the old
\* row into the cache, where it stays until the key is put again or evicted.
ReadsOwnWrites ==
    ~Clearing => \A k \in Keys :
        /\ truth[k] = IF k \in Dirty(cache) THEN cache[k].value ELSE db[k]
        /\ k \notin overtaken => View[k] = truth[k]

\* Once the writer has joined, the file holds it all unless its last
\* transaction failed ("doesn't lose that write", memory.md:63).
ClosedIsSaved == writer.pc = "joined" /\ ~writer.failed => db = truth

\* The cache, the list and the table fit together (put_sqlite, get_sqlite,
\* clear_sqlite, flush_dirty).
StoreCoherent == StoreTypeOK /\ ReadsOwnWrites /\ ClosedIsSaved

Kv == INSTANCE KvStore WITH
    content <- truth,
    snap <- IF writer.pc = "commit" THEN Written ELSE Missing,
    saved <- db

\* The store is a map of which some whole earlier content is on disk: a crash
\* goes back to one moment, never to a mixture of two.
KvSpec == Kv!Spec

\* "When clear_memory returns, the data is actually gone" (memory.md:125).
ClearedIsGone ==
    \A k \in Keys : ~Clearing /\ truth[k] = Missing => View[k] = Missing
=============================================================================
