--------------------------- MODULE MCPersistence ---------------------------
(***************************************************************************)
(* What is kept beyond a turn, side by side: how the events of a graph run *)
(* are batched (RunEvents), how a checkpointer stores checkpoints and      *)
(* batches (Checkpointers), the memory store under one of them             *)
(* (SqliteStore), and the retrieval index (RagIndex) with its chunks       *)
(* (Chunker).  Each layer relies on the promise of the one below it, not   *)
(* on its state, so a behaviour moves one layer and leaves the others.     *)
(***************************************************************************)
EXTENDS Checkpointers, SqliteStore

CONSTANTS
    MaxEvents, Capacity, Happens,
    Layers,     \* the layers that move in this model
    Racing,     \* whether a reader runs beside a thread that clears
    Docs, Stores, Dims, MaxCalls, MaxFaults,
    ChunkSize, Overlap, MaxText,
    c1, c2, k1, k2

\* Every thread reads and puts every key.
Shared == [reads |-> [c \in Clients |-> Keys], writes |-> [c \in Clients |-> Keys], clears |-> {}]

Only(c) == [d \in Clients |-> IF d = c THEN Keys ELSE {}]

\* One thread does everything.
Alone == [reads |-> Only(c1), writes |-> Only(c1), clears |-> {c1}]

\* One thread writes and clears while the others read.
Reader == [Alone EXCEPT !.reads = [c \in Clients |-> Keys]]

MCScenes == IF Racing THEN {Reader} ELSE {Shared, Alone}

ASSUME BoundsTyped ==
    /\ {MaxEvents, MaxCached, MaxCalls, MaxFaults, MaxText} \subseteq Nat
    /\ 0 \notin Dims /\ ChunkSize > 1 /\ Overlap < ChunkSize
    /\ {Capacity, Threshold} \subseteq Nat \ {0}
    /\ Happens \subseteq {"put", "crash"}
    /\ c1 \in Clients /\ k1 \in Keys
    /\ Layers \subseteq {"events", "checkpointer", "store", "index", "chunks"}

\* The scenes are ones that the proofs about SqliteStore speak of.
ASSUME StoreUsedApart == Racing \/ ScenesApart

VARIABLES
    layer,      \* the layer that moves
    logged, persisted, pc, dur, queue, log, crashed, written, refused,
    vstore, opened, model, tableDims, rows, vecs, byId, tx, running, told, unsure, torn,
    calls, faults,
    sample      \* a text to cut into chunks

\* A document of two chunks, one of one, and an empty one.
DocTexts == {<< >>, <<"a", "_", "a", "/", "a">>, <<"a", "~">>}

E == INSTANCE RunEvents
R == INSTANCE RagIndex

runEventsVars == <<logged, persisted, pc, dur, queue, log, crashed, written, refused>>
checkpointerVars == vars
indexVars == <<vstore, opened, model, tableDims, rows, vecs, byId, tx, running, told, unsure,
               torn, calls, faults>>
allVars == <<layer, runEventsVars, checkpointerVars, storeVars, indexVars, sample>>

\* A layer that does not move starts in one way only.
LayersInit ==
    /\ layer \in Layers /\ E!Init /\ Init /\ StoreInit /\ R!Init
    /\ sample \in (IF layer = "chunks" THEN R!Texts(MaxText) ELSE {<< >>})
    /\ layer # "checkpointer" => backend = CHOOSE b \in Backends : TRUE
    /\ layer # "store" => scene = CHOOSE s \in Scenes : TRUE
    /\ layer # "index" => vstore = "memory" /\ model = CHOOSE d \in Dims : TRUE

LayersNext ==
    /\ UNCHANGED <<layer, sample>>
    /\ \/ layer = "events" /\ E!Next /\ UNCHANGED <<checkpointerVars, storeVars, indexVars>>
       \/ layer = "checkpointer" /\ Next /\ UNCHANGED <<runEventsVars, storeVars, indexVars>>
       \/ layer = "store" /\ StoreNext /\ UNCHANGED <<runEventsVars, checkpointerVars, indexVars>>
       \/ layer = "index" /\ R!Next /\ UNCHANGED <<runEventsVars, checkpointerVars, storeVars>>
       \/ layer = "chunks" /\ UNCHANGED allVars

LayersSpec == LayersInit /\ [][LayersNext]_allVars

-----------------------------------------------------------------------------
(* The properties of the layers, as they are stated there *)

\* The stored event log is what was logged: in order, and complete unless a
\* write was refused (write_checkpoint, finish).
LogExact == E!LogExact

\* The retrieval index has every chunk of the documents it was given, with its
\* own vector, and no chunk of an erased one (rag_index, mem_erase, vs_upsert);
\* chunk_text leaves out nothing but spaces and cuts no character in two.
IndexExact ==
    /\ R!IndexExact
    /\ layer = "chunks" =>
        \A size \in 2 .. 4 : \A overlap \in 0 .. size - 1 : R!ChunksCover(sample, size, overlap)

\* What the event log, memory and retrieval return is what they were given.
StoresCoherent == LogExact /\ StoreCoherent /\ IndexExact

\* "rag_erase removes all of a document's chunks" (rag.md:172); see README.md.
ErasedIsGone == R!ErasedIsGone
=============================================================================
