------------------------- MODULE SqliteStoreProofs -------------------------
(***************************************************************************)
(* Proofs about SqliteStore for any threads, keys, values and sizes of the *)
(* cache, where the threads share the keys as they like and one that       *)
(* clears is alone (ScenesApart): the store implements KvStore, no put is  *)
(* lost, a read sees what was put unless the put overtook another read,    *)
(* and what was put is on disk when the store is closed.                   *)
(***************************************************************************)
EXTENDS SqliteStore, TLAPS

Content == [Keys -> Values \cup {Missing}]
Places == {"wait", "delete", "answer", "collect", "commit", "mark", "joined"}
CallPlaces == {"idle", "wake", "select", "fill", "ask", "clearing"}

\* StoreTypeOK without the list, and with the types of the calls and of the writer.
StoreTypes ==
    /\ scene \in Scenes
    /\ db \in Content /\ truth \in Content
    /\ cache \in [Keys -> [value : Values, dirty : BOOLEAN] \cup {Missing}]
    /\ signal \in [wake : BOOLEAN, stop : BOOLEAN, clear : BOOLEAN, done : BOOLEAN]
    /\ writer \in [pc : Places, stop : BOOLEAN, batch : Content, failed : BOOLEAN]
    /\ call \in [Clients -> [pc : CallPlaces, key : Keys \cup {Missing},
                             value : Values \cup {Missing}]]
    /\ overtaken \subseteq Keys

IsDirty(k) == cache[k] # Missing /\ cache[k].dirty
IsClean(k) == cache[k] # Missing /\ ~cache[k].dirty

\* A thread that reads the table and was not overtaken by a put has found what
\* was put; a store that is being closed has no calls.
CallOK(c) ==
    /\ call[c].pc \in {"select", "fill"} =>
        /\ call[c].key \in scene.reads[c]
        /\ call[c].key \notin overtaken => ~IsDirty(call[c].key)
    /\ call[c].pc = "fill" =>
        /\ call[c].value \in Values
        /\ call[c].key \notin overtaken => call[c].value = truth[call[c].key]
    /\ call[c].pc \in {"ask", "clearing"} => c \in scene.clears
    /\ signal.stop => call[c].pc = "idle"

\* What the threads have put, key by key.
PutOK(k) == truth[k] = IF IsDirty(k) THEN cache[k].value ELSE db[k]

\* A clean entry is what the table has, unless a put overtook the get that
\* brought it; the dirty entries over the table are what was put, except
\* between the two halves of a clear, when nothing is cached.
CacheOK ==
    /\ \A k \in Keys \ overtaken : IsClean(k) => cache[k].value = db[k]
    /\ ~Clearing => \A k \in Keys : PutOK(k)
    /\ Clearing => cache = Empty /\ truth = Empty

\* The writer clears for a call that waits for it, and stops when it was asked to.
RequestsOK ==
    /\ signal.clear => \E c \in Clients : call[c].pc = "clearing" /\ ~signal.done
    /\ writer.pc \in {"delete", "answer"} => signal.clear
    /\ writer.stop => signal.stop
    /\ writer.pc = "joined" => writer.stop

\* What is being written is still dirty, unless a clear came in between; after
\* the transaction the table has it; and when the store is being closed nothing
\* is dirty that is not being written.
BatchOK ==
    /\ writer.pc \notin {"commit", "mark"} => writer.batch = Empty
    /\ \A k \in Keys : writer.batch[k] # Missing => Clearing \/ IsDirty(k)
    /\ writer.pc = "mark" =>
        ~writer.failed /\ \A k \in Keys : writer.batch[k] # Missing => db[k] = writer.batch[k]
    /\ writer.stop /\ writer.pc \in {"commit", "mark"} =>
        \A k \in Keys : IsDirty(k) => writer.batch[k] = cache[k].value
    /\ writer.pc = "joined" /\ ~writer.failed => db = truth

StoreInv ==
    /\ StoreTypes /\ CacheOK /\ RequestsOK /\ BatchOK
    /\ \A c \in Clients : CallOK(c)

-----------------------------------------------------------------------------
(* What the invariant says of a state *)

\* A thread that clears is the only one in a call that reads, puts or clears.
LEMMA ClearsAlone ==
    ASSUME ScenesApart, StoreInv, NEW c \in scene.clears, NEW d \in Clients, d # c
    PROVE  /\ scene.reads[d] = {} /\ scene.writes[d] = {} /\ d \notin scene.clears
           /\ call[d].pc \in {"idle", "wake"}
<1>1. scene \in Scenes /\ scene.clears \subseteq Clients /\ Apart(scene) /\ CallOK(d)
  BY DEF ScenesApart, StoreInv, StoreTypes
<1>2. scene.reads[d] = {} /\ scene.writes[d] = {} /\ d \notin scene.clears
  BY <1>1 DEF Apart
<1>3. call[d].pc \in CallPlaces
  BY DEF StoreInv, StoreTypes
<1> QED  BY <1>1, <1>2, <1>3 DEF CallOK, CallPlaces

\* Between the two halves of a clear its thread is in it, and alone.
LEMMA ClearingIs ==
    ASSUME ScenesApart, StoreInv, Clearing
    PROVE  /\ \E c \in scene.clears : c \in Clients /\ call[c].pc \in {"ask", "clearing"}
           /\ \A c \in Clients : call[c].pc \notin {"select", "fill"}
           /\ \A c \in Clients : call[c].pc = "idle" => scene.reads[c] = {} /\ scene.writes[c] = {}
                                                        /\ c \notin scene.clears
           /\ ~signal.stop
<1>1. PICK c \in Clients : call[c].pc \in {"ask", "clearing"}
  BY DEF Clearing
<1>2. c \in scene.clears /\ ~signal.stop
  BY <1>1 DEF StoreInv, CallOK
<1>3. ASSUME NEW d \in Clients, d # c
      PROVE  /\ scene.reads[d] = {} /\ scene.writes[d] = {} /\ d \notin scene.clears
             /\ call[d].pc \in {"idle", "wake"}
  BY <1>2, <1>3, ClearsAlone
<1> QED  BY <1>1, <1>2, <1>3

\* Eviction drops clean entries and nothing else.
LEMMA EvictsClean ==
    ASSUME NEW ca, NEW l, evict_if_needed_locked(ca, l), NEW k \in Keys
    PROVE  \/ cache'[k] = ca[k]
           \/ cache'[k] = Missing /\ ca[k] # Missing /\ ~ca[k].dirty
<1>1. cache' = [x \in Keys |-> IF x \in Evicted(ca, l) THEN Missing ELSE ca[x]]
  BY Zenon DEF evict_if_needed_locked
<1>2. k \in Evicted(ca, l) => ca[k] # Missing /\ ~ca[k].dirty
  BY Zenon DEF Evicted, Evictable
<1> QED  BY <1>1, <1>2

\* A new store is empty.
LEMMA InitStore == ASSUME ScenesApart, StoreInit PROVE StoreInv
<1>1. \A k \in Keys : db[k] = Missing /\ cache[k] = Missing /\ truth[k] = Missing
                      /\ writer.batch[k] = Missing
  BY DEF StoreInit, Empty, Waiting
<1>2. \A c \in Clients : call[c] = Idle
  BY DEF StoreInit
<1>3. StoreTypes
  BY DEF StoreInit, StoreTypes, Content, Empty, Quiet, Waiting, Idle, Places, CallPlaces
<1>4. ~Clearing
  BY <1>2 DEF Clearing, Idle
<1>5. CacheOK /\ BatchOK
  BY <1>1, <1>4 DEF StoreInit, CacheOK, PutOK, BatchOK, IsClean, IsDirty, Waiting
<1>6. RequestsOK /\ \A c \in Clients : CallOK(c)
  BY <1>2 DEF StoreInit, RequestsOK, CallOK, Idle, Quiet, Waiting
<1> QED  BY <1>3, <1>5, <1>6 DEF StoreInv

-----------------------------------------------------------------------------
(* The calls *)

\* A put: its key is dirty from now on, and overtaken if somebody is reading it.
LEMMA PutKeeps ==
    ASSUME ScenesApart, StoreInv,
           NEW c \in Clients, NEW k \in Keys, NEW v \in Values, put_sqlite(c, k, v)
    PROVE  StoreInv'
<1>1. /\ call[c] = Idle /\ ~signal.stop /\ k \in scene.writes[c]
      /\ cache' = [cache EXCEPT ![k] = Entry(v, TRUE)]
      /\ truth' = [truth EXCEPT ![k] = v]
      /\ overtaken' = IF BeingRead(k) THEN overtaken \cup {k} ELSE overtaken \ {k}
      /\ scene' = scene /\ db' = db /\ signal' = signal /\ writer' = writer
      /\ \/ call' = [call EXCEPT ![c] = Idle]
         \/ call' = [call EXCEPT ![c] = [pc |-> "wake", key |-> k, value |-> v]]
  BY DEF put_sqlite, Open, GoesOn, Return
<1>2. /\ StoreTypes /\ CacheOK /\ RequestsOK /\ BatchOK /\ \A d \in Clients : CallOK(d)
      /\ Missing \notin Values /\ Missing \notin [value : Values, dirty : BOOLEAN]
  BY DEF StoreInv, ScenesApart
<1>3. ~Clearing
  BY <1>1, ClearingIs DEF Idle
<1>4. /\ call'[c].pc \in {"idle", "wake"}
      /\ \A d \in Clients : d # c => call'[d] = call[d]
  BY <1>1, <1>2 DEF StoreTypes, Idle
<1>5. ~Clearing'
  BY <1>1, <1>3, <1>4 DEF Clearing
<1>6. /\ cache'[k] = Entry(v, TRUE) /\ cache'[k] # Missing /\ truth'[k] = v
      /\ \A j \in Keys : j # k => cache'[j] = cache[j] /\ truth'[j] = truth[j]
  <2>1. Entry(v, TRUE) \in [value : Values, dirty : BOOLEAN]
    BY DEF Entry
  <2>2. Entry(v, TRUE) # Missing
    BY <1>2, <2>1, Zenon
  <2> QED  BY ZenonT(30), <1>1, <1>2, <2>2 DEF StoreTypes, Content
<1>7. StoreTypes'
  <2>1. truth' \in Content
    BY <1>1, <1>2 DEF StoreTypes, Content
  <2>2. cache' \in [Keys -> [value : Values, dirty : BOOLEAN] \cup {Missing}]
    BY <1>1, <1>2 DEF StoreTypes, Entry
  <2>3. call' \in [Clients -> [pc : CallPlaces, key : Keys \cup {Missing},
                              value : Values \cup {Missing}]]
    BY <1>1, <1>2 DEF StoreTypes, Idle, CallPlaces
  <2>4. overtaken' \subseteq Keys
    BY <1>1, <1>2 DEF StoreTypes
  <2> QED  BY Zenon, <1>1, <1>2, <2>1, <2>2, <2>3, <2>4 DEF StoreTypes, Content
<1>8. CacheOK'
  BY <1>1, <1>2, <1>3, <1>5, <1>6 DEF CacheOK, PutOK, IsClean, IsDirty, Entry
<1>9. RequestsOK'
  BY <1>1, <1>2, <1>4 DEF RequestsOK, Idle
<1>10. BatchOK'
  BY <1>1, <1>2, <1>3, <1>6 DEF BatchOK, RequestsOK, IsDirty, Entry
<1>11. ASSUME NEW d \in Clients PROVE CallOK(d)'
  <2>1. CASE d = c
    BY <2>1, <1>1, <1>4 DEF CallOK
  <2>2. CASE d # c
    <3>1. /\ call'[d] = call[d] /\ CallOK(d)
          /\ call[d].pc \in {"select", "fill"} => call[d].key \in Keys
      BY <1>2, <1>4, <2>2 DEF CallOK, StoreTypes, ScenesApart
    <3>2. call[d].pc \in {"select", "fill"} /\ call[d].key = k => k \in overtaken'
      BY <1>1 DEF BeingRead
    <3>3. \A j \in Keys : j # k => (j \in overtaken' <=> j \in overtaken)
      BY <1>1
    <3> QED  BY ZenonT(30), <1>1, <1>6, <3>1, <3>2, <3>3 DEF CallOK, IsDirty
  <2> QED  BY <2>1, <2>2
<1> QED  BY <1>7, <1>8, <1>9, <1>10, <1>11 DEF StoreInv

\* A step of a call that only moves the call on: not into a clear or a fill, and
\* not out of the halves of one.
LEMMA CallMoves ==
    ASSUME ScenesApart, StoreInv, NEW c \in Clients,
           NEW p \in CallPlaces, NEW k \in Keys \cup {Missing}, NEW v \in Values \cup {Missing},
           call' = [call EXCEPT ![c] = [pc |-> p, key |-> k, value |-> v]],
           UNCHANGED <<scene, db, cache, writer, truth, overtaken>>,
           signal' \in [wake : BOOLEAN, stop : BOOLEAN, clear : BOOLEAN, done : BOOLEAN],
           signal'.stop = signal.stop /\ signal'.clear = signal.clear /\ signal'.done = signal.done,
           CallOK(c)', Clearing' = Clearing,
           call[c].pc = "clearing" => signal.done
    PROVE  StoreInv'
<1>1. StoreTypes /\ CacheOK /\ RequestsOK /\ BatchOK /\ \A d \in Clients : CallOK(d)
  BY DEF StoreInv
<1>2. \A d \in Clients : d # c => call'[d] = call[d]
  BY <1>1 DEF StoreTypes
<1>3. StoreTypes'
  BY <1>1 DEF StoreTypes
<1>4. CacheOK'
  BY <1>1, Zenon DEF CacheOK, PutOK, IsClean, IsDirty
<1>5. RequestsOK'
  BY <1>1, <1>2 DEF RequestsOK
<1>6. BatchOK'
  BY <1>1, ZenonT(30) DEF BatchOK, IsDirty
<1>7. \A d \in Clients : CallOK(d)'
  BY <1>1, <1>2 DEF CallOK, IsDirty
<1> QED  BY <1>3, <1>4, <1>5, <1>6, <1>7 DEF StoreInv

\* The four steps of a put or a get that only move the call on.
LEMMA PutWakesKeeps ==
    ASSUME ScenesApart, StoreInv, NEW c \in Clients, PutWakes(c)
    PROVE  StoreInv'
<1>1. StoreTypes /\ CallOK(c) /\ RequestsOK
  BY DEF StoreInv
<1>2. /\ call[c].pc = "wake" /\ signal' = [signal EXCEPT !.wake = TRUE]
      /\ call' = [call EXCEPT ![c] = [pc |-> "idle", key |-> Missing, value |-> Missing]]
      /\ UNCHANGED <<scene, db, cache, writer, truth, overtaken>>
  BY DEF PutWakes, Return, Idle
<1>3. /\ signal' \in [wake : BOOLEAN, stop : BOOLEAN, clear : BOOLEAN, done : BOOLEAN]
      /\ signal'.stop = signal.stop /\ signal'.clear = signal.clear /\ signal'.done = signal.done
  BY ZenonT(30), <1>1, <1>2 DEF StoreTypes
<1>4. call'[c].pc = "idle" /\ \A d \in Clients : d # c => call'[d] = call[d]
  BY <1>1, <1>2 DEF StoreTypes
<1>5. CallOK(c)' /\ Clearing' = Clearing
  BY <1>2, <1>3, <1>4 DEF CallOK, Clearing
<1> QED  BY ZenonT(30), <1>2, <1>3, <1>5, CallMoves DEF CallPlaces

LEMMA GetKeeps ==
    ASSUME ScenesApart, StoreInv, NEW c \in Clients, NEW k \in Keys, get_sqlite(c, k)
    PROVE  StoreInv'
<1>1. StoreTypes /\ CallOK(c) /\ RequestsOK
  BY DEF StoreInv
<1>2. /\ call[c] = Idle /\ call[c].pc = "idle" /\ ~signal.stop /\ k \in scene.reads[c]
      /\ UNCHANGED <<scene, db, cache, signal, writer, truth, overtaken>>
  BY DEF get_sqlite, Open, Idle
<1>3. \/ call' = [call EXCEPT ![c] = [pc |-> "idle", key |-> Missing, value |-> Missing]]
      \/ /\ call' = [call EXCEPT ![c] = [pc |-> "select", key |-> k, value |-> Missing]]
         /\ cache[k] = Missing
  BY DEF get_sqlite, Return, GoesOn, Idle, Cached
<1>4. PICK p \in {"idle", "select"}, j \in Keys \cup {Missing} :
        /\ call' = [call EXCEPT ![c] = [pc |-> p, key |-> j, value |-> Missing]]
        /\ p = "select" => j = k /\ cache[k] = Missing
  BY <1>3
<1>5. /\ call'[c].pc = p /\ call'[c].key = j
      /\ \A d \in Clients : d # c => call'[d] = call[d]
  BY <1>1, <1>4 DEF StoreTypes
<1>6. CallOK(c)' /\ Clearing' = Clearing
  BY <1>2, <1>4, <1>5 DEF CallOK, Clearing, IsDirty
<1> QED  BY ZenonT(30), <1>1, <1>2, <1>4, <1>6, CallMoves DEF CallPlaces, StoreTypes

LEMMA GetSelectsKeeps ==
    ASSUME ScenesApart, StoreInv, NEW c \in Clients, GetSelects(c)
    PROVE  StoreInv'
<1>1. StoreTypes /\ CallOK(c) /\ CacheOK
  BY DEF StoreInv
<1>2. call[c].pc = "select" /\ UNCHANGED <<scene, db, cache, signal, writer, truth, overtaken>>
  BY DEF GetSelects
<1> DEFINE k == call[c].key
<1>3. k \in scene.reads[c] /\ (k \notin overtaken => ~IsDirty(k)) /\ ~signal.stop
  BY <1>1, <1>2 DEF CallOK
<1>4. k \in Keys
  BY <1>1, <1>3 DEF StoreTypes, ScenesApart
<1>5. k \notin overtaken => truth[k] = db[k]
  <2>1. ~Clearing
    BY <1>2, ClearingIs
  <2> QED  BY <1>1, <1>3, <1>4, <2>1 DEF CacheOK, PutOK
<1>6. db[k] \in Values \cup {Missing}
  BY <1>1, <1>4 DEF StoreTypes, Content
<1>7. PICK p \in {"idle", "fill"}, j \in Keys \cup {Missing}, v \in Values \cup {Missing} :
        /\ call' = [call EXCEPT ![c] = [pc |-> p, key |-> j, value |-> v]]
        /\ p = "fill" => j = k /\ v = db[k] /\ v # Missing
  BY <1>4, <1>6 DEF GetSelects, Return, GoesOn, Idle
<1>8. /\ call'[c].pc = p /\ call'[c].key = j /\ call'[c].value = v
      /\ \A d \in Clients : d # c => call'[d] = call[d]
  BY <1>1, <1>7 DEF StoreTypes
<1> HIDE DEF k
<1>9. CallOK(c)'
  BY <1>2, <1>3, <1>5, <1>6, <1>7, <1>8 DEF CallOK, IsDirty
<1>10. Clearing' = Clearing
  BY <1>2, <1>7, <1>8 DEF Clearing
<1> QED  BY ZenonT(30), <1>1, <1>2, <1>7, <1>9, <1>10, CallMoves DEF CallPlaces, StoreTypes

LEMMA ClearReturnsKeeps ==
    ASSUME ScenesApart, StoreInv, NEW c \in Clients, ClearReturns(c)
    PROVE  StoreInv'
<1>1. StoreTypes /\ CallOK(c)
  BY DEF StoreInv
<1>2. /\ call[c].pc = "clearing" /\ signal.done
      /\ call' = [call EXCEPT ![c] = [pc |-> "idle", key |-> Missing, value |-> Missing]]
      /\ UNCHANGED <<scene, db, cache, signal, writer, truth, overtaken>>
  BY DEF ClearReturns, Return, Idle
<1>3. call'[c].pc = "idle" /\ \A d \in Clients : d # c => call'[d] = call[d]
  BY <1>1, <1>2 DEF StoreTypes
<1>4. CallOK(c)' /\ Clearing' = Clearing
  BY <1>2, <1>3 DEF CallOK, Clearing
<1> QED  BY ZenonT(30), <1>1, <1>2, <1>4, CallMoves DEF CallPlaces, StoreTypes

\* A get fills the cache with what the table still has, if it was not overtaken.
LEMMA GetFillsKeeps ==
    ASSUME ScenesApart, StoreInv, NEW c \in Clients, GetFills(c)
    PROVE  StoreInv'
<1>1. /\ StoreTypes /\ CacheOK /\ RequestsOK /\ BatchOK /\ \A d \in Clients : CallOK(d)
      /\ Missing \notin [value : Values, dirty : BOOLEAN]
  BY DEF StoreInv, ScenesApart
<1>2. /\ call[c].pc = "fill" /\ UNCHANGED <<scene, db, signal, writer, truth, overtaken>>
      /\ call' = [call EXCEPT ![c] = Idle]
  BY DEF GetFills, Return
<1> DEFINE k == call[c].key
           v == call[c].value
           ca == [cache EXCEPT ![k] = Entry(v, FALSE)]
<1>3. k \in Keys /\ v \in Values /\ (k \notin overtaken => v = truth[k] /\ ~IsDirty(k))
  BY <1>1, <1>2 DEF CallOK, StoreTypes, ScenesApart
<1>4. ~Clearing /\ ~Clearing'
  <2>1. ~Clearing
    BY <1>2, ClearingIs
  <2>2. call'[c].pc = "idle" /\ \A d \in Clients : d # c => call'[d] = call[d]
    BY <1>1, <1>2 DEF StoreTypes, Idle
  <2> QED  BY <1>2, <2>1, <2>2 DEF Clearing
<1>5. Entry(v, FALSE) \in [value : Values, dirty : BOOLEAN] /\ Entry(v, FALSE) # Missing
  <2>1. Entry(v, FALSE) \in [value : Values, dirty : BOOLEAN]
    BY <1>3 DEF Entry
  <2> QED  BY <1>1, <2>1, Zenon
<1>6. \/ cache' = cache
      \/ cache[k] = Missing /\ evict_if_needed_locked(ca, <<k>> \o lru)
  BY <1>3 DEF GetFills, Cached
<1>7. cache' \in [Keys -> [value : Values, dirty : BOOLEAN] \cup {Missing}]
  <2>1. ca \in [Keys -> [value : Values, dirty : BOOLEAN] \cup {Missing}]
    BY ZenonT(30), <1>1, <1>5 DEF StoreTypes
  <2>2. ASSUME evict_if_needed_locked(ca, <<k>> \o lru)
        PROVE  cache' = [x \in Keys |-> IF x \in Evicted(ca, <<k>> \o lru) THEN Missing ELSE ca[x]]
    BY <2>2, Zenon DEF evict_if_needed_locked
  <2> HIDE DEF ca
  <2> QED  BY <1>1, <1>6, <2>1, <2>2 DEF StoreTypes
<1>8. ASSUME NEW j \in Keys
      PROVE  \/ cache'[j] = cache[j]
             \/ IsClean(j) /\ cache'[j] = Missing
             \/ /\ j = k /\ cache[k] = Missing
                /\ cache'[k] = Missing \/ cache'[k] = Entry(v, FALSE)
  <2>1. CASE cache' = cache
    BY <2>1
  <2>2. CASE cache[k] = Missing /\ evict_if_needed_locked(ca, <<k>> \o lru)
    <3>1. \/ cache'[j] = ca[j]
          \/ cache'[j] = Missing /\ ca[j] # Missing /\ ~ca[j].dirty
      BY <2>2, EvictsClean, Zenon
    <3>2. ca[j] = IF j = k THEN Entry(v, FALSE) ELSE cache[j]
      BY <1>1, <1>3 DEF StoreTypes
    <3> HIDE DEF ca, k, v
    <3> QED  BY ZenonT(30), <2>2, <3>1, <3>2 DEF IsClean
  <2> QED  BY ZenonT(30), <1>6, <2>1, <2>2
<1>9. \A j \in Keys : IsDirty(j)' <=> IsDirty(j)
  BY <1>5, <1>8 DEF IsDirty, IsClean, Entry
<1>10. StoreTypes'
  BY <1>1, <1>2, <1>7 DEF StoreTypes, Idle, CallPlaces
<1>11. k \notin overtaken => db[k] = v
  BY <1>1, <1>3, <1>4 DEF CacheOK, PutOK
<1> HIDE DEF k, v, ca
<1>12. CacheOK'
  <2> SUFFICES ASSUME NEW j \in Keys
               PROVE  /\ j \notin overtaken /\ IsClean(j)' => cache'[j].value = db'[j]
                      /\ PutOK(j)'
    BY <1>2, <1>4 DEF CacheOK
  <2>1. PutOK(j) /\ (j \notin overtaken /\ IsClean(j) => cache[j].value = db[j])
    BY <1>1, <1>4 DEF CacheOK
  <2>2. Entry(v, FALSE).value = v
    BY DEF Entry
  <2>3. IsDirty(j) => cache'[j] = cache[j]
    BY ZenonT(30), <1>8 DEF IsDirty, IsClean
  <2>4. PutOK(j)'
    BY ZenonT(30), <1>2, <1>9, <2>1, <2>3 DEF PutOK
  <2>5. j \notin overtaken /\ IsClean(j)' => cache'[j].value = db'[j]
    BY ZenonT(30), <1>2, <1>8, <1>11, <2>1, <2>2 DEF IsClean
  <2> QED  BY <2>4, <2>5
<1>13. RequestsOK'
  BY <1>1, <1>2 DEF RequestsOK, StoreTypes
<1>14. BatchOK'
  <2>1. \A j \in Keys : IsDirty(j) => cache'[j] = cache[j]
    BY ZenonT(30), <1>3, <1>8 DEF IsDirty, IsClean
  <2> QED  BY <1>1, <1>2, <1>4, <1>9, <2>1 DEF BatchOK
<1>15. ASSUME NEW d \in Clients PROVE CallOK(d)'
  <2>1. d # c => call'[d] = call[d]
    BY <1>1, <1>2 DEF StoreTypes
  <2>2. call'[c].pc = "idle"
    BY <1>1, <1>2 DEF StoreTypes, Idle
  <2>3. call[d].pc \in {"select", "fill"} => call[d].key \in Keys
    BY <1>1 DEF CallOK, StoreTypes, ScenesApart
  <2> QED  BY <1>1, <1>2, <1>9, <2>1, <2>2, <2>3 DEF CallOK
<1> QED  BY <1>10, <1>12, <1>13, <1>14, <1>15 DEF StoreInv

\* The first half of a clear: its thread is alone, so nothing is being read.
LEMMA ClearKeeps ==
    ASSUME ScenesApart, StoreInv, NEW c \in Clients, clear_sqlite(c)
    PROVE  StoreInv'
<1>1. StoreTypes /\ CacheOK /\ RequestsOK /\ BatchOK /\ \A d \in Clients : CallOK(d)
  BY DEF StoreInv
<1>2. /\ call[c] = Idle /\ ~signal.stop /\ c \in scene.clears
      /\ cache' = Empty /\ truth' = Empty
      /\ call' = [call EXCEPT ![c] = [pc |-> "ask", key |-> Missing, value |-> Missing]]
      /\ UNCHANGED <<scene, db, signal, writer, overtaken>>
  BY DEF clear_sqlite, Open, GoesOn
<1>3. call'[c].pc = "ask" /\ \A d \in Clients : d # c => call'[d] = call[d]
  BY <1>1, <1>2 DEF StoreTypes
<1>4. Clearing'
  BY <1>3 DEF Clearing
<1>5. StoreTypes'
  BY <1>1, <1>2 DEF StoreTypes, Content, Empty, CallPlaces
<1>6. \A k \in Keys : cache'[k] = Missing
  BY <1>2 DEF Empty
<1>7. CacheOK'
  BY <1>2, <1>4, <1>6 DEF CacheOK, PutOK, IsClean, IsDirty
<1>8. RequestsOK'
  BY <1>1, <1>2, <1>3 DEF RequestsOK, Idle
<1>9. BatchOK'
  BY <1>1, <1>2, <1>4, <1>6 DEF BatchOK, RequestsOK, IsDirty
<1>10. ASSUME NEW d \in Clients PROVE CallOK(d)'
  <2>1. CASE d = c
    BY <1>2, <1>3, <2>1 DEF CallOK
  <2>2. CASE d # c
    <3>1. call[d].pc \in {"idle", "wake"}
      BY <1>2, <2>2, ClearsAlone
    <3> QED  BY <1>1, <1>2, <1>3, <2>2, <3>1 DEF CallOK
  <2> QED  BY <2>1, <2>2
<1> QED  BY <1>5, <1>7, <1>8, <1>9, <1>10 DEF StoreInv

\* The writer is asked to clear; it is not answering anybody else.
LEMMA ClearAsksKeeps ==
    ASSUME ScenesApart, StoreInv, NEW c \in Clients, ClearAsks(c)
    PROVE  StoreInv'
<1>1. StoreTypes /\ CacheOK /\ RequestsOK /\ BatchOK /\ \A d \in Clients : CallOK(d)
  BY DEF StoreInv
<1>2. /\ call[c].pc = "ask" /\ signal' = [signal EXCEPT !.clear = TRUE, !.done = FALSE]
      /\ call' = [call EXCEPT ![c] = [pc |-> "clearing", key |-> Missing, value |-> Missing]]
      /\ UNCHANGED <<scene, db, cache, writer, truth, overtaken>>
  BY DEF ClearAsks, GoesOn
<1>3. /\ call'[c].pc = "clearing" /\ \A d \in Clients : d # c => call'[d] = call[d]
      /\ signal'.clear /\ ~signal'.done /\ signal'.stop = signal.stop
  BY <1>1, <1>2 DEF StoreTypes
<1>4. c \in scene.clears /\ ~signal.stop
  BY <1>1, <1>2 DEF CallOK
<1>5. writer.pc # "answer"
  <2>1. ASSUME NEW d \in Clients PROVE call[d].pc # "clearing"
    BY <1>2, <1>4, <2>1, ClearsAlone
  <2> QED  BY <1>1, <2>1 DEF RequestsOK
<1>6. Clearing /\ Clearing'
  BY <1>2, <1>3, <1>5 DEF Clearing
<1>7. StoreTypes'
  BY ZenonT(30), <1>1, <1>2 DEF StoreTypes, CallPlaces
<1>8. CacheOK' /\ BatchOK'
  BY <1>1, <1>2, <1>6, ZenonT(30) DEF CacheOK, PutOK, BatchOK, IsClean, IsDirty
<1>9. RequestsOK'
  BY <1>1, <1>2, <1>3, <1>4 DEF RequestsOK
<1>10. \A d \in Clients : CallOK(d)'
  BY <1>1, <1>2, <1>3, <1>4 DEF CallOK, IsDirty
<1> QED  BY <1>7, <1>8, <1>9, <1>10 DEF StoreInv

-----------------------------------------------------------------------------
(* The writer *)

\* A step of the writer between two pieces of work.
LEMMA WriterWakesKeeps ==
    ASSUME ScenesApart, StoreInv, WriterWakes
    PROVE  StoreInv'
<1>1. StoreTypes /\ CacheOK /\ RequestsOK /\ BatchOK /\ \A d \in Clients : CallOK(d)
  BY DEF StoreInv
<1>2. /\ writer.pc = "wait"
      /\ writer' = [writer EXCEPT !.pc = IF signal.clear THEN "delete" ELSE "collect",
                                  !.stop = signal.stop]
      /\ signal' = [signal EXCEPT !.wake = FALSE]
      /\ UNCHANGED <<scene, db, cache, call, truth, overtaken>>
  BY DEF WriterWakes
<1>3. /\ writer'.pc = IF signal.clear THEN "delete" ELSE "collect"
      /\ writer'.stop = signal.stop /\ writer'.batch = writer.batch
      /\ signal'.stop = signal.stop /\ signal'.clear = signal.clear /\ signal'.done = signal.done
  BY <1>1, <1>2 DEF StoreTypes
<1>4. Clearing' = Clearing
  BY <1>2, <1>3 DEF Clearing
<1>5. StoreTypes'
  BY ZenonT(30), <1>1, <1>2 DEF StoreTypes, Places
<1>6. CacheOK'
  BY <1>1, <1>2, <1>4, ZenonT(30) DEF CacheOK, PutOK, IsClean, IsDirty
<1>7. BatchOK'
  BY <1>1, <1>2, <1>3, <1>4 DEF BatchOK, IsDirty
<1>8. RequestsOK'
  BY <1>1, <1>2, <1>3 DEF RequestsOK
<1>9. \A d \in Clients : CallOK(d)'
  BY <1>1, <1>2, <1>3 DEF CallOK, IsDirty
<1> QED  BY <1>5, <1>6, <1>7, <1>8, <1>9 DEF StoreInv

\* While the writer deletes or answers, one thread waits for it and is alone.
LEMMA ClearWaits ==
    ASSUME ScenesApart, StoreInv, writer.pc \in {"delete", "answer"}
    PROVE  /\ ~signal.stop /\ ~signal.done
           /\ \A c \in Clients : call[c].pc \in {"idle", "wake", "clearing"}
           /\ writer.pc = "delete" => Clearing
<1>1. PICK c \in Clients : call[c].pc = "clearing" /\ ~signal.done
  BY DEF StoreInv, RequestsOK
<1>2. c \in scene.clears /\ ~signal.stop
  BY <1>1 DEF StoreInv, CallOK
<1>3. ASSUME NEW d \in Clients PROVE call[d].pc \in {"idle", "wake", "clearing"}
  <2>1. CASE d = c
    BY <1>1, <2>1
  <2>2. CASE d # c
    BY <1>2, <2>2, ClearsAlone
  <2> QED  BY <2>1, <2>2
<1>4. writer.pc = "delete" => Clearing
  BY <1>1 DEF Clearing
<1> QED  BY <1>1, <1>2, <1>3, <1>4

\* The second half of a clear: the table is emptied, or its rows count again.
LEMMA WriterDeletesKeeps ==
    ASSUME ScenesApart, StoreInv, WriterDeletes
    PROVE  StoreInv'
<1>1. StoreTypes /\ CacheOK /\ RequestsOK /\ BatchOK /\ \A d \in Clients : CallOK(d)
  BY DEF StoreInv
<1>2. /\ writer.pc = "delete" /\ writer' = [writer EXCEPT !.pc = "answer"]
      /\ \/ db' = Empty /\ truth' = truth
         \/ truth' = db /\ db' = db
      /\ UNCHANGED <<scene, cache, signal, call, overtaken>>
  BY DEF WriterDeletes
<1>3. /\ ~signal.stop /\ Clearing
      /\ \A c \in Clients : call[c].pc \in {"idle", "wake", "clearing"}
  BY <1>2, ClearWaits
<1>4. cache = Empty /\ truth = Empty
  BY <1>1, <1>3 DEF CacheOK
<1>5. writer'.pc = "answer" /\ writer'.batch = Empty /\ writer'.stop = writer.stop
  BY <1>1, <1>2 DEF StoreTypes, BatchOK
<1>6. ~Clearing'
  BY <1>2, <1>3, <1>5 DEF Clearing
<1>7. StoreTypes'
  BY <1>1, <1>2 DEF StoreTypes, Content, Empty, Places
<1>8. CacheOK'
  BY <1>2, <1>4, <1>6 DEF CacheOK, PutOK, IsClean, IsDirty, Empty
<1>9. RequestsOK'
  BY <1>1, <1>2, <1>5 DEF RequestsOK
<1>10. BatchOK'
  BY <1>5 DEF BatchOK, Empty
<1>11. \A d \in Clients : CallOK(d)'
  BY <1>1, <1>2, <1>3 DEF CallOK
<1> QED  BY <1>7, <1>8, <1>9, <1>10, <1>11 DEF StoreInv

LEMMA WriterAnswersKeeps ==
    ASSUME ScenesApart, StoreInv, WriterAnswers
    PROVE  StoreInv'
<1>1. StoreTypes /\ CacheOK /\ RequestsOK /\ BatchOK /\ \A d \in Clients : CallOK(d)
  BY DEF StoreInv
<1>2. /\ writer.pc = "answer" /\ writer' = [writer EXCEPT !.pc = "collect"]
      /\ signal' = [signal EXCEPT !.clear = FALSE, !.done = TRUE]
      /\ UNCHANGED <<scene, db, cache, call, truth, overtaken>>
  BY DEF WriterAnswers
<1>3. ~signal.stop /\ \A c \in Clients : call[c].pc \in {"idle", "wake", "clearing"}
  BY <1>2, ClearWaits
<1>4. /\ writer'.pc = "collect" /\ writer'.batch = Empty /\ writer'.stop = writer.stop
      /\ signal'.done /\ ~signal'.clear /\ signal'.stop = signal.stop
  BY <1>1, <1>2 DEF StoreTypes, BatchOK
<1>5. ~Clearing /\ ~Clearing'
  BY <1>2, <1>3, <1>4 DEF Clearing
<1>6. StoreTypes'
  BY ZenonT(30), <1>1, <1>2 DEF StoreTypes, Places
<1>7. CacheOK'
  BY <1>1, <1>2, <1>5, ZenonT(30) DEF CacheOK, PutOK, IsClean, IsDirty
<1>8. RequestsOK'
  BY <1>1, <1>4 DEF RequestsOK
<1>9. BatchOK'
  BY <1>4 DEF BatchOK, Empty
<1>10. \A d \in Clients : CallOK(d)'
  BY <1>1, <1>2, <1>3, <1>4 DEF CallOK
<1> QED  BY <1>6, <1>7, <1>8, <1>9, <1>10 DEF StoreInv

\* A step that leaves all but the writer's place and batch as they are.
LEMMA WriterMoves ==
    ASSUME ScenesApart, StoreInv, UNCHANGED <<scene, db, cache, signal, call, truth, overtaken>>,
           writer.pc \in {"collect", "commit"}, writer'.pc \notin {"delete", "answer"},
           writer' \in [pc : Places, stop : BOOLEAN, batch : Content, failed : BOOLEAN],
           writer'.stop = writer.stop, writer'.pc = "joined" => writer.stop, BatchOK'
    PROVE  StoreInv'
<1>1. StoreTypes /\ CacheOK /\ RequestsOK /\ BatchOK /\ \A d \in Clients : CallOK(d)
  BY DEF StoreInv
<1>2. Clearing' = Clearing
  BY DEF Clearing
<1>3. CacheOK'
  BY <1>1, <1>2, ZenonT(30) DEF CacheOK, PutOK, IsClean, IsDirty
<1>4. StoreTypes' /\ RequestsOK'
  BY <1>1 DEF StoreTypes, RequestsOK
<1>5. \A d \in Clients : CallOK(d)'
  BY <1>1, ZenonT(30) DEF CallOK, IsDirty
<1> QED  BY <1>3, <1>4, <1>5 DEF StoreInv

\* Without dirty entries the table is what was put, but for a clear.
LEMMA CleanIsSaved ==
    ASSUME ScenesApart, StoreInv, ~Clearing, NEW k \in Keys, ~IsDirty(k)
    PROVE  db[k] = truth[k]
  BY DEF StoreInv, CacheOK, PutOK

\* Two contents that agree on every key are the same.
LEMMA SameContent ==
    ASSUME NEW f \in Content, NEW g \in Content, \A k \in Keys : f[k] = g[k]
    PROVE  f = g
  BY DEF Content

\* flush_dirty begins: nothing to write, or all that is dirty.
LEMMA WriterCollectsKeeps ==
    ASSUME ScenesApart, StoreInv, WriterCollects
    PROVE  StoreInv'
<1>1. StoreTypes /\ CacheOK /\ RequestsOK /\ BatchOK /\ \A d \in Clients : CallOK(d)
  BY DEF StoreInv
<1>2. /\ writer.pc = "collect" /\ writer.batch = Empty
      /\ UNCHANGED <<scene, db, cache, signal, call, truth, overtaken>>
  BY <1>1 DEF WriterCollects, BatchOK
<1>3. \A k \in Keys : k \in Dirty(cache) <=> IsDirty(k)
  BY DEF Dirty, IsDirty
<1>4. CASE Dirty(cache) = {}
  <2>1. writer' = [writer EXCEPT !.pc = AfterFlush]
    BY <1>4 DEF WriterCollects
  <2>2. /\ writer'.pc \in {"joined", "wait"} /\ (writer'.pc = "joined" => writer.stop)
        /\ writer'.batch = Empty /\ writer'.stop = writer.stop
        /\ writer' \in [pc : Places, stop : BOOLEAN, batch : Content, failed : BOOLEAN]
    BY <1>1, <1>2, <2>1 DEF StoreTypes, AfterFlush, Places
  <2>3. writer.stop => db = truth
    <3> SUFFICES ASSUME writer.stop PROVE db = truth
      OBVIOUS
    <3>1. ~Clearing
      BY <1>1, ClearingIs DEF RequestsOK
    <3>2. \A k \in Keys : db[k] = truth[k]
      BY <1>3, <1>4, <3>1, CleanIsSaved
    <3> QED  BY <1>1, <3>2, SameContent DEF StoreTypes
  <2>4. BatchOK'
    BY <1>2, <2>2, <2>3 DEF BatchOK, Empty
  <2> QED  BY <1>2, <2>2, <2>4, WriterMoves
<1>5. CASE Dirty(cache) # {}
  <2> DEFINE b == [k \in Keys |-> IF k \in Dirty(cache) THEN cache[k].value ELSE Missing]
  <2>1. writer' = [writer EXCEPT !.pc = "commit", !.batch = b]
    BY <1>5 DEF WriterCollects
  <2>2. b \in Content
    BY <1>1 DEF StoreTypes, Content, Dirty
  <2>3. \A k \in Keys : b[k] = IF IsDirty(k) THEN cache[k].value ELSE Missing
    BY <1>3
  <2> HIDE DEF b
  <2>4. /\ writer'.pc = "commit" /\ writer'.batch = b /\ writer'.stop = writer.stop
        /\ writer' \in [pc : Places, stop : BOOLEAN, batch : Content, failed : BOOLEAN]
    BY ZenonT(30), <1>1, <2>1, <2>2 DEF StoreTypes, Places
  <2>5. BatchOK'
    BY <1>2, <2>3, <2>4 DEF BatchOK, IsDirty
  <2> QED  BY <1>2, <2>4, <2>5, WriterMoves
<1> QED  BY <1>4, <1>5

\* The transaction: what is written was dirty, so a read sees no difference.
LEMMA WriterCommitsKeeps ==
    ASSUME ScenesApart, StoreInv, WriterCommits
    PROVE  StoreInv'
<1>1. StoreTypes /\ CacheOK /\ RequestsOK /\ BatchOK /\ \A d \in Clients : CallOK(d)
  BY DEF StoreInv
<1>2. writer.pc = "commit" /\ UNCHANGED <<scene, cache, signal, call, truth, overtaken>>
  BY DEF WriterCommits
<1>3. CASE db' = Written /\ writer' = [writer EXCEPT !.pc = "mark", !.failed = FALSE]
  <2>1. /\ db' \in Content
        /\ \A k \in Keys : db'[k] = IF writer.batch[k] = Missing THEN db[k] ELSE writer.batch[k]
    BY <1>1, <1>3 DEF Written, StoreTypes, Content
  <2>2. /\ writer'.pc = "mark" /\ ~writer'.failed /\ writer'.batch = writer.batch
        /\ writer'.stop = writer.stop
        /\ writer' \in [pc : Places, stop : BOOLEAN, batch : Content, failed : BOOLEAN]
    BY ZenonT(30), <1>1, <1>3 DEF StoreTypes, Places
  <2>3. Clearing' = Clearing
    BY <1>2, <2>2 DEF Clearing
  <2>4. StoreTypes'
    BY <1>1, <1>2, <2>1, <2>2 DEF StoreTypes
  <2>5. CacheOK'
    <3>1. ASSUME NEW k \in Keys, ~IsDirty(k)
          PROVE  Clearing \/ db'[k] = db[k]
      BY <1>1, <2>1, <3>1 DEF BatchOK
    <3>2. ~Clearing' => \A k \in Keys : PutOK(k)'
      BY <1>1, <1>2, <2>3, <3>1 DEF CacheOK, PutOK, IsDirty
    <3>3. Clearing => \A k \in Keys : ~IsClean(k)
      BY <1>1 DEF CacheOK, IsClean, Empty
    <3>4. \A k \in Keys \ overtaken' : IsClean(k)' => cache'[k].value = db'[k]
      BY <1>1, <1>2, <3>1, <3>3 DEF CacheOK, IsClean, IsDirty
    <3>5. Clearing' => cache' = Empty /\ truth' = Empty
      BY <1>1, <1>2, <2>3 DEF CacheOK
    <3> QED  BY <3>2, <3>4, <3>5 DEF CacheOK
  <2>6. RequestsOK'
    BY <1>1, <1>2, <2>2 DEF RequestsOK
  <2>7. BatchOK'
    BY <1>1, <1>2, <2>1, <2>2, <2>3 DEF BatchOK, IsDirty
  <2>8. \A d \in Clients : CallOK(d)'
    BY <1>1, <1>2, ZenonT(30) DEF CallOK, IsDirty
  <2> QED  BY <2>4, <2>5, <2>6, <2>7, <2>8 DEF StoreInv
<1>4. CASE /\ writer' = [writer EXCEPT !.pc = AfterFlush, !.batch = Empty, !.failed = TRUE]
           /\ db' = db
  <2>1. Empty \in Content
    BY DEF Empty, Content
  <2>2. /\ writer'.pc \in {"joined", "wait"} /\ (writer'.pc = "joined" => writer.stop)
        /\ writer'.batch = Empty /\ writer'.failed /\ writer'.stop = writer.stop
        /\ writer' \in [pc : Places, stop : BOOLEAN, batch : Content, failed : BOOLEAN]
    BY ZenonT(30), <1>1, <1>4, <2>1 DEF StoreTypes, AfterFlush, Places
  <2>3. BatchOK'
    BY <2>2 DEF BatchOK, Empty
  <2> QED  BY <1>2, <1>4, <2>2, <2>3, WriterMoves
<1> QED  BY <1>3, <1>4 DEF WriterCommits

\* After the transaction: what was written and has not been put since is clean,
\* and clean entries may go.
LEMMA WriterMarksKeeps ==
    ASSUME ScenesApart, StoreInv, WriterMarks
    PROVE  StoreInv'
<1>1. /\ StoreTypes /\ CacheOK /\ RequestsOK /\ BatchOK /\ \A d \in Clients : CallOK(d)
      /\ Missing \notin [value : Values, dirty : BOOLEAN] /\ Missing \notin Values
  BY DEF StoreInv, ScenesApart
<1> DEFINE ca == [k \in Keys |-> IF k \in Cached /\ writer.batch[k] # Missing /\ CleanNow(k)
                                 THEN Entry(cache[k].value, FALSE) ELSE cache[k]]
<1>2. /\ writer.pc = "mark" /\ evict_if_needed_locked(ca, lru)
      /\ writer' = [writer EXCEPT !.pc = AfterFlush, !.batch = Empty]
      /\ UNCHANGED <<scene, db, signal, call, truth, overtaken>>
  BY DEF WriterMarks
<1>3. ASSUME NEW k \in Keys
      PROVE  \/ ca[k] = cache[k]
             \/ /\ IsDirty(k) /\ cache[k].value = db[k] /\ cache[k].value \in Values
                /\ ca[k] = Entry(cache[k].value, FALSE)
  <2>1. cache[k] # Missing => cache[k].value \in Values
    BY <1>1 DEF StoreTypes
  <2> QED  BY ZenonT(30), <1>1, <1>2, <2>1 DEF Cached, CleanNow, BatchOK, IsDirty
<1>4. ca \in [Keys -> [value : Values, dirty : BOOLEAN] \cup {Missing}]
  <2>1. \A k \in Keys : ca[k] \in [value : Values, dirty : BOOLEAN] \cup {Missing}
    BY ZenonT(30), <1>1, <1>3 DEF StoreTypes, Entry
  <2> QED  BY ZenonT(30), <2>1
<1>5. cache' = [x \in Keys |-> IF x \in Evicted(ca, lru) THEN Missing ELSE ca[x]]
  BY <1>2, Zenon DEF evict_if_needed_locked
<1>6. \A k \in Keys : \/ cache'[k] = ca[k]
                      \/ cache'[k] = Missing /\ ca[k] # Missing /\ ~ca[k].dirty
  BY <1>2, EvictsClean, Zenon
<1> HIDE DEF ca
<1>7. cache' \in [Keys -> [value : Values, dirty : BOOLEAN] \cup {Missing}]
  BY <1>4, <1>5
<1>8. ASSUME NEW k \in Keys
      PROVE  \/ cache'[k] = cache[k]
             \/ IsClean(k) /\ cache'[k] = Missing
             \/ /\ IsDirty(k) /\ cache[k].value = db[k]
                /\ \/ cache'[k] = Missing
                   \/ IsClean(k)' /\ cache'[k].value = cache[k].value
  <2>2. CASE ca[k] = cache[k]
    BY <1>6, <2>2 DEF IsClean
  <2>3. CASE /\ IsDirty(k) /\ cache[k].value = db[k] /\ cache[k].value \in Values
             /\ ca[k] = Entry(cache[k].value, FALSE)
    <3>1. Entry(cache[k].value, FALSE) \in [value : Values, dirty : BOOLEAN]
      BY <2>3 DEF Entry
    <3>2. Entry(cache[k].value, FALSE) # Missing
      BY <1>1, <3>1, Zenon
    <3>3. Entry(cache[k].value, FALSE).value = cache[k].value /\ ~Entry(cache[k].value, FALSE).dirty
      BY DEF Entry
    <3> QED  BY ZenonT(30), <1>6, <2>3, <3>2, <3>3 DEF IsClean, IsDirty
  <2> QED  BY ZenonT(30), <1>3, <2>2, <2>3
<1>9. \A k \in Keys : IsDirty(k)' => IsDirty(k)
  BY <1>8 DEF IsDirty, IsClean
<1>10. /\ writer'.pc \in {"joined", "wait"} /\ (writer'.pc = "joined" => writer.stop)
       /\ writer'.batch = Empty /\ writer'.stop = writer.stop
       /\ writer' \in [pc : Places, stop : BOOLEAN, batch : Content, failed : BOOLEAN]
  <2>1. Empty \in Content
    BY DEF Empty, Content
  <2> QED  BY ZenonT(30), <1>1, <1>2, <2>1 DEF StoreTypes, AfterFlush, Places
<1>11. Clearing' = Clearing
  BY <1>2, <1>10 DEF Clearing
<1>12. StoreTypes'
  BY <1>1, <1>2, <1>7, <1>10 DEF StoreTypes
<1>13. CacheOK'
  <2>1. \A k \in Keys \ overtaken' : IsClean(k)' => cache'[k].value = db'[k]
    BY <1>1, <1>2, <1>8 DEF CacheOK, IsClean
  <2>2. ~Clearing' => \A k \in Keys : PutOK(k)'
    BY <1>1, <1>2, <1>8, <1>11 DEF CacheOK, PutOK, IsClean, IsDirty
  <2>3. Clearing' => cache' = Empty /\ truth' = Empty
    <3> SUFFICES ASSUME Clearing PROVE cache' = Empty /\ truth' = Empty
      BY <1>11
    <3>1. cache = Empty /\ truth = Empty
      BY <1>1 DEF CacheOK
    <3>2. \A k \in Keys : cache'[k] = Missing
      BY <1>8, <3>1 DEF Empty, IsClean, IsDirty
    <3> QED  BY <1>2, <1>7, <3>1, <3>2 DEF Empty
  <2> QED  BY <2>1, <2>2, <2>3 DEF CacheOK
<1>14. RequestsOK'
  BY <1>1, <1>2, <1>10 DEF RequestsOK
<1>15. BatchOK'
  <2>1. ASSUME writer.stop PROVE db = truth
    <3>1. ~Clearing
      BY <1>1, <2>1, ClearingIs DEF RequestsOK
    <3>2. ASSUME NEW k \in Keys, IsDirty(k) PROVE db[k] = truth[k]
      <4>1. writer.batch[k] = cache[k].value /\ cache[k].value \in Values
        BY <1>1, <1>2, <2>1, <3>2 DEF BatchOK, StoreTypes, IsDirty
      <4>2. db[k] = cache[k].value
        BY <1>1, <1>2, <4>1 DEF BatchOK
      <4> QED  BY <1>1, <3>1, <3>2, <4>2 DEF CacheOK, PutOK
    <3>3. \A k \in Keys : db[k] = truth[k]
      BY <3>1, <3>2, CleanIsSaved
    <3> QED  BY <1>1, <3>3, SameContent DEF StoreTypes
  <2> QED  BY <1>2, <1>10, <2>1 DEF BatchOK, Empty
<1>16. ASSUME NEW d \in Clients PROVE CallOK(d)'
  <2>1. call[d].pc \in {"select", "fill"} => call[d].key \in Keys
    BY <1>1 DEF CallOK, StoreTypes, ScenesApart
  <2> QED  BY <1>1, <1>2, <1>9, <2>1 DEF CallOK
<1> QED  BY <1>12, <1>13, <1>14, <1>15, <1>16 DEF StoreInv

-----------------------------------------------------------------------------
(* The life of the store *)

LEMMA CloseKeeps ==
    ASSUME ScenesApart, StoreInv, Close
    PROVE  StoreInv'
<1>1. StoreTypes /\ CacheOK /\ RequestsOK /\ BatchOK /\ \A d \in Clients : CallOK(d)
  BY DEF StoreInv
<1>2. /\ \A c \in Clients : call[c].pc = "idle"
      /\ signal' = [signal EXCEPT !.stop = TRUE]
      /\ UNCHANGED <<scene, db, cache, writer, call, truth, overtaken>>
  BY DEF Close, Open, Idle
<1>3. signal'.clear = signal.clear /\ signal'.done = signal.done /\ signal'.stop
  BY <1>1, <1>2 DEF StoreTypes
<1>4. Clearing' = Clearing
  BY <1>2, <1>3 DEF Clearing
<1>5. StoreTypes'
  BY ZenonT(30), <1>1, <1>2 DEF StoreTypes
<1>6. CacheOK' /\ BatchOK'
  BY <1>1, <1>2, <1>4, ZenonT(30) DEF CacheOK, PutOK, BatchOK, IsClean, IsDirty
<1>7. RequestsOK' /\ \A d \in Clients : CallOK(d)'
  BY <1>1, <1>2, <1>3 DEF RequestsOK, CallOK
<1> QED  BY <1>5, <1>6, <1>7 DEF StoreInv

\* After a crash or a close, the file is opened and what it holds counts.
LEMMA OpenedKeeps ==
    ASSUME ScenesApart, StoreInv, Opened
    PROVE  StoreInv'
<1>1. /\ cache' = Empty /\ signal' = Quiet /\ writer' = Waiting
      /\ call' = [c \in Clients |-> Idle] /\ truth' = db /\ scene' = scene /\ db' = db
      /\ overtaken' = {}
  BY DEF Opened
<1>2. StoreTypes'
  BY <1>1 DEF StoreInv, StoreTypes, Content, Empty, Quiet, Waiting, Idle, Places, CallPlaces
<1>3. \A c \in Clients : call'[c].pc = "idle"
  BY <1>1 DEF Idle
<1>4. ~Clearing'
  BY <1>3 DEF Clearing
<1>5. CacheOK'
  BY <1>1, <1>4 DEF CacheOK, PutOK, IsClean, IsDirty, Empty
<1>6. RequestsOK' /\ BatchOK'
  BY <1>1 DEF RequestsOK, BatchOK, Quiet, Waiting, Empty
<1>7. \A c \in Clients : CallOK(c)'
  BY <1>3 DEF CallOK
<1> QED  BY <1>2, <1>5, <1>6, <1>7 DEF StoreInv

LEMMA StoreStep == ASSUME ScenesApart, StoreInv, [StoreNext]_storeVars PROVE StoreInv'
<1>1. CASE UNCHANGED storeVars
  <2>1. scene' = scene /\ db' = db /\ cache' = cache /\ signal' = signal /\ writer' = writer
        /\ call' = call /\ truth' = truth /\ overtaken' = overtaken
    BY <1>1 DEF storeVars
  <2>2. StoreTypes' /\ RequestsOK'
    BY <2>1, ZenonT(30) DEF StoreInv, StoreTypes, RequestsOK
  <2>3. CacheOK'
    BY <2>1, ZenonT(30) DEF StoreInv, CacheOK, PutOK, IsClean, IsDirty, Clearing
  <2>4. BatchOK'
    BY <2>1, ZenonT(30) DEF StoreInv, BatchOK, IsDirty, Clearing
  <2>5. \A c \in Clients : CallOK(c)'
    BY <2>1, ZenonT(30) DEF StoreInv, CallOK, IsDirty
  <2> QED  BY <2>2, <2>3, <2>4, <2>5 DEF StoreInv
<1>2. CASE \E c \in Clients, k \in Keys, v \in Values : put_sqlite(c, k, v)
  BY <1>2, PutKeeps, Zenon
<1>3. CASE \E c \in Clients, k \in Keys : get_sqlite(c, k)
  BY <1>3, GetKeeps, Zenon
<1>4. CASE \E c \in Clients : \/ PutWakes(c) \/ GetSelects(c) \/ GetFills(c)
                              \/ clear_sqlite(c) \/ ClearAsks(c) \/ ClearReturns(c)
  BY <1>4, PutWakesKeeps, GetSelectsKeeps, GetFillsKeeps, ClearKeeps, ClearAsksKeeps,
     ClearReturnsKeeps, Zenon
<1>5. CASE \/ WriterWakes \/ WriterDeletes \/ WriterAnswers
           \/ WriterCollects \/ WriterCommits \/ WriterMarks
  BY <1>5, WriterWakesKeeps, WriterDeletesKeeps, WriterAnswersKeeps, WriterCollectsKeeps,
     WriterCommitsKeeps, WriterMarksKeeps, Zenon
<1>6. CASE Close \/ open_sqlite \/ StoreCrash
  BY <1>6, CloseKeeps, OpenedKeeps, Zenon DEF open_sqlite, StoreCrash
<1> QED  BY <1>1, <1>2, <1>3, <1>4, <1>5, <1>6, Zenon DEF StoreNext

\* StoreInv holds in every reachable state of the store.
THEOREM StoreInvariance == ASSUME ScenesApart PROVE StoreSpec => []StoreInv
<1>1. StoreInit => StoreInv
  BY InitStore
<1>2. StoreInv /\ [StoreNext]_storeVars => StoreInv'
  BY StoreStep
<1> QED  BY <1>1, <1>2, PTL DEF StoreSpec

\* For any threads, keys and cache, and threads that share keys as they like:
\* no put is lost, whatever the writer thread is doing and whichever of its
\* transactions fail; what get_sqlite returns is what put_sqlite and
\* clear_sqlite have added up to, except for a key whose last put came between
\* the cache miss and the fill of another get; and a store that was closed has
\* all of it in the file unless the last transaction failed.
THEOREM ReadsSeeWrites == ASSUME ScenesApart PROVE StoreSpec => [](ReadsOwnWrites /\ ClosedIsSaved)
<1>1. ASSUME StoreInv PROVE ReadsOwnWrites /\ ClosedIsSaved
  <2>1. CacheOK /\ BatchOK
    BY <1>1 DEF StoreInv
  <2>2. ASSUME ~Clearing, NEW k \in Keys
        PROVE  /\ truth[k] = IF k \in Dirty(cache) THEN cache[k].value ELSE db[k]
               /\ k \notin overtaken => View[k] = truth[k]
    <3>1. /\ PutOK(k) /\ (k \notin overtaken /\ IsClean(k) => cache[k].value = db[k])
          /\ k \in Dirty(cache) <=> IsDirty(k)
      BY <2>1, <2>2 DEF CacheOK, Dirty, IsDirty
    <3>2. View[k] = IF cache[k] # Missing THEN cache[k].value ELSE db[k]
      BY DEF View, Cached
    <3> QED  BY <3>1, <3>2 DEF PutOK, IsDirty, IsClean
  <2> QED  BY <2>1, <2>2 DEF ReadsOwnWrites, ClosedIsSaved, BatchOK
<1> QED  BY <1>1, StoreInvariance, PTL

-----------------------------------------------------------------------------
(* The promise of KvStore *)

\* Every step of the store is one of the map, or none.
LEMMA KvStep ==
    ASSUME ScenesApart, StoreInv, [StoreNext]_storeVars
    PROVE  [Kv!Next]_Kv!vars
<1> DEFINE snap == IF writer.pc = "commit" THEN Written ELSE Missing
<1>1. StoreTypes /\ CacheOK /\ BatchOK
  BY DEF StoreInv
<1>2. ASSUME truth' = truth, db' = db, snap' = snap PROVE [Kv!Next]_Kv!vars
  BY <1>2 DEF Kv!vars
<1>3. ASSUME writer' = writer, db' = db PROVE snap' = snap
  BY <1>3 DEF Written
<1>4. Written \in Content /\ Written # Missing
  <2>1. Written \in Content
    BY <1>1 DEF Written, StoreTypes, Content
  <2> QED  BY <2>1, Zenon DEF ScenesApart, Content
<1>5. ASSUME NEW c \in Clients, NEW k \in Keys, NEW v \in Values, put_sqlite(c, k, v)
      PROVE  [Kv!Next]_Kv!vars
  <2>1. truth' = [truth EXCEPT ![k] = v] /\ db' = db /\ writer' = writer
    BY <1>5 DEF put_sqlite
  <2>2. Kv!put(k, v)
    BY <1>3, <2>1 DEF Kv!put
  <2> QED  BY <2>2 DEF Kv!Next
<1>6. ASSUME NEW c \in Clients, clear_sqlite(c) PROVE [Kv!Next]_Kv!vars
  <2>1. truth' = Empty /\ db' = db /\ writer' = writer
    BY <1>6 DEF clear_sqlite
  <2>2. Kv!clear
    BY <1>3, <2>1 DEF Kv!clear, Kv!Empty, Empty
  <2> QED  BY <2>2 DEF Kv!Next
<1>7. ASSUME WriterDeletes PROVE [Kv!Next]_Kv!vars
  <2>1. writer.pc = "delete" /\ writer'.pc = "answer"
    BY <1>1, <1>7 DEF WriterDeletes, StoreTypes
  <2>2. snap = Missing /\ snap' = Missing
    BY <2>1
  <2>3. truth = Empty
    BY <1>1, <2>1, ClearWaits DEF CacheOK
  <2>4. CASE db' = Empty /\ truth' = truth
    BY <2>2, <2>3, <2>4 DEF Kv!Next, Kv!Wipe, Kv!Empty, Empty
  <2>5. CASE truth' = db /\ db' = db
    BY <2>2, <2>5 DEF Kv!Next, Kv!Forget
  <2> QED  BY <1>7, <2>4, <2>5 DEF WriterDeletes
<1>8. ASSUME WriterCollects PROVE [Kv!Next]_Kv!vars
  <2>1. writer.pc = "collect" /\ UNCHANGED <<db, truth, cache>> /\ snap = Missing
    BY <1>8 DEF WriterCollects
  <2>2. CASE Dirty(cache) = {}
    <3>1. writer'.pc \in {"joined", "wait"}
      BY <1>1, <1>8, <2>2 DEF WriterCollects, AfterFlush, StoreTypes
    <3>2. snap' = Missing
      BY <3>1
    <3> QED  BY <1>2, <2>1, <3>2
  <2>3. CASE Dirty(cache) # {}
    <3> DEFINE b == [k \in Keys |-> IF k \in Dirty(cache) THEN cache[k].value ELSE Missing]
    <3>1. writer' = [writer EXCEPT !.pc = "commit", !.batch = b]
      BY <1>8, <2>3 DEF WriterCollects
    <3>2. writer'.pc = "commit" /\ writer'.batch = b
      BY <1>1, <3>1 DEF StoreTypes
    <3>3. Written' = truth
      <4>1. ~Clearing
        BY <1>1, <2>3 DEF CacheOK, Dirty, Empty
      <4>2. ASSUME NEW k \in Keys PROVE (IF b[k] = Missing THEN db[k] ELSE b[k]) = truth[k]
        <5>1. CASE IsDirty(k)
          <6>1. cache[k].value = truth[k] /\ cache[k].value \in Values /\ k \in Dirty(cache)
            BY <1>1, <4>1, <5>1 DEF CacheOK, PutOK, StoreTypes, IsDirty, Dirty
          <6>2. Missing \notin Values
            BY DEF ScenesApart
          <6> QED  BY <6>1, <6>2
        <5>2. CASE ~IsDirty(k)
          BY <4>1, <5>2, CleanIsSaved DEF IsDirty, Dirty
        <5> QED  BY <5>1, <5>2
      <4>3. Written' = [k \in Keys |-> IF b[k] = Missing THEN db[k] ELSE b[k]]
        BY <2>1, <3>2, Zenon DEF Written
      <4> HIDE DEF b
      <4> QED  BY <1>1, <4>2, <4>3 DEF StoreTypes, Content
    <3>4. Kv!Take
      BY <2>1, <3>2, <3>3 DEF Kv!Take
    <3> QED  BY <3>4 DEF Kv!Next
  <2> QED  BY <2>2, <2>3
<1>9. ASSUME WriterCommits PROVE [Kv!Next]_Kv!vars
  <2>1. writer.pc = "commit" /\ truth' = truth /\ writer'.pc \in {"mark", "joined", "wait"}
    BY ZenonT(30), <1>1, <1>9 DEF WriterCommits, StoreTypes, AfterFlush
  <2>2. snap = Written /\ snap' = Missing
    BY <2>1
  <2>3. db' = Written \/ db' = db
    BY <1>9 DEF WriterCommits
  <2>4. Kv!Save \/ Kv!Drop
    BY <1>4, <2>1, <2>2, <2>3 DEF Kv!Save, Kv!Drop
  <2> QED  BY <2>4 DEF Kv!Next
<1>10. ASSUME Opened PROVE [Kv!Next]_Kv!vars
  <2>1. truth' = db /\ db' = db /\ snap' = Missing
    BY <1>10 DEF Opened, Waiting
  <2>2. Kv!Forget
    BY <2>1 DEF Kv!Forget
  <2> QED  BY <2>2 DEF Kv!Next
<1>11. ASSUME WriterWakes \/ WriterAnswers \/ WriterMarks PROVE [Kv!Next]_Kv!vars
  <2>1. /\ truth' = truth /\ db' = db /\ writer.pc # "commit"
        /\ writer'.pc \in {"delete", "collect", "joined", "wait"}
    BY ZenonT(30), <1>1, <1>11 DEF WriterWakes, WriterAnswers, WriterMarks, AfterFlush, StoreTypes
  <2>2. snap' = Missing /\ snap = Missing
    BY <2>1
  <2> QED  BY <1>2, <2>1, <2>2
<1>12. ASSUME truth' = truth, db' = db, writer' = writer PROVE [Kv!Next]_Kv!vars
  BY <1>2, <1>3, <1>12
<1>13. ASSUME NEW c \in Clients,
              \/ \E k \in Keys : get_sqlite(c, k)
              \/ PutWakes(c) \/ GetSelects(c) \/ GetFills(c) \/ ClearAsks(c) \/ ClearReturns(c)
       PROVE  truth' = truth /\ db' = db /\ writer' = writer
  BY <1>13, Zenon DEF get_sqlite, PutWakes, GetSelects, GetFills, ClearAsks, ClearReturns
<1>14. ASSUME UNCHANGED storeVars \/ Close PROVE truth' = truth /\ db' = db /\ writer' = writer
  BY <1>14, Zenon DEF storeVars, Close
<1> HIDE DEF snap
<1> QED
  BY <1>5, <1>6, <1>7, <1>8, <1>9, <1>10, <1>11, <1>12, <1>13, <1>14, ZenonT(30)
     DEF StoreNext, open_sqlite, StoreCrash

\* For any threads, keys and cache the SQLite store implements KvStore: a crash,
\* a failed transaction or a failed clear goes back to the whole content of one
\* earlier moment, never to a mixture of two (flush_dirty, writer_loop).
THEOREM StoreIsAMap == ASSUME ScenesApart PROVE StoreSpec => KvSpec
<1>1. StoreInit => Kv!Init
  BY DEF StoreInit, Kv!Init, Kv!Empty, Empty, Waiting
<1>2. StoreInv /\ [StoreNext]_storeVars => [Kv!Next]_Kv!vars
  BY KvStep
<1> QED  BY <1>1, <1>2, StoreInvariance, PTL DEF StoreSpec, KvSpec, Kv!Spec
=============================================================================
