----------------------------- MODULE RagIndex -----------------------------
(***************************************************************************)
(* The retrieval index: rag_index, rag_erase and rag_query (rag_pipeline.cpp *)
(* under src/src/core/rag) over the vector store in memory                 *)
(* (in_memory_vector_store.cpp) or over sqlite-vec (vs_* of                *)
(* sqlite_vec_data_source.cpp), with the embedding calls of engine_tasks.cpp. *)
(*                                                                         *)
(* A vector is the text it was made from and the number of its dimensions. *)
(* Each call of the store holds its mutex, and a transaction in SQLite, so *)
(* it is one step; the calls of rag_index are many.                        *)
(***************************************************************************)
EXTENDS Chunker

CONSTANTS
    Docs, DocTexts,       \* documents, and what they say in turn
    ChunkSize, Overlap,
    Stores,               \* subset of {"memory", "sqlite"}
    Dims,                 \* dimensions of the embedding models
    MaxCalls, MaxFaults   \* bounds on the calls, and on failures and restarts

VARIABLES
    vstore,     \* the VectorStoreOps of the index
    opened,     \* dimensions of the open store, 0 before open_rag_index
    model,      \* dimensions that the embedding session returns
    tableDims,  \* dimensions that the tables were created with, or 0
    rows, vecs, byId, \* the store
    tx,         \* what an open transaction started from, or NoTx
    running,    \* the call of the pipeline that runs, or NoCall
    told,       \* the chunks that the last call that succeeded left of a document
    unsure,     \* documents about which a call failed half-way
    torn,       \* documents whose chunks may have a gap
    calls, faults

ragVars == <<vstore, opened, model, tableDims, rows, vecs, byId, tx, running, told, unsure, torn,
             calls, faults>>

NoTx == [open |-> FALSE]
NoCall == [doc |-> "none"]
Gone == << >>           \* the chunks of a document that is not in the index
Sqlite == vstore = "sqlite"
Chunks(text) ==
    LET c == chunk_text(text, ChunkSize, Overlap)
    IN  [i \in DOMAIN c |-> SubSeq(text, c[i].from + 1, c[i].to)]
chunk_id(d, n) == <<d, n>>

Empty == IF Sqlite THEN {} ELSE << >>
Init ==
    /\ vstore \in Stores /\ model \in Dims
    /\ opened = 0 /\ tableDims = 0
    /\ rows = Empty /\ vecs = Empty /\ byId = << >>
    /\ tx = NoTx /\ running = NoCall
    /\ told = [d \in Docs |-> Gone] /\ unsure = {} /\ torn = {}
    /\ calls = 0 /\ faults = 0

-----------------------------------------------------------------------------
(* The store *)

Vector(text) == [text |-> text, dims |-> model]
RowsOf(id) == {r \in rows : r.id = id}
Has(id) == IF Sqlite THEN RowsOf(id) # {} ELSE id \in DOMAIN byId
NewRow == IF rows = {} THEN 1 ELSE Largest({r.row : r \in rows}) + 1

\* mem_upsert: check_dims, then the row of the id or a new one at the end.
mem_upsert(id, text) ==
    /\ model = opened
    /\ LET row == IF Has(id) THEN byId[id] ELSE Len(rows) + 1
           entry == [id |-> id, text |-> text]
       IN  IF Has(id)
             THEN /\ rows' = [rows EXCEPT ![row] = entry]
                  /\ vecs' = [vecs EXCEPT ![row] = Vector(text)]
                  /\ UNCHANGED byId
             ELSE /\ rows' = Append(rows, entry) /\ vecs' = Append(vecs, Vector(text))
                  /\ byId' = [i \in DOMAIN byId \cup {id} |-> IF i = id THEN row ELSE byId[i]]

\* vs_upsert_locked: update and delete, or insert; then the new vector, which
\* must have the dimensions of the table.
vs_upsert_locked(id, text) ==
    /\ ~tx.open /\ model = opened /\ model = tableDims
    /\ LET row == IF Has(id) THEN (CHOOSE r \in RowsOf(id) : TRUE).row ELSE NewRow
       IN  /\ rows' = {r \in rows : r.id # id} \cup {[row |-> row, id |-> id, text |-> text]}
           /\ vecs' = {v \in vecs : v.row # row} \cup {[row |-> row, vec |-> Vector(text)]}
    /\ UNCHANGED byId
upsert(id, text) == IF Sqlite THEN vs_upsert_locked(id, text) ELSE mem_upsert(id, text)
Refused == model # opened \/ (Sqlite /\ (tx.open \/ model # tableDims))

\* mem_erase: the last row moves into the hole.
mem_erase(id) ==
    LET row == byId[id]
        last == Len(rows)
    IN  /\ rows' = SubSeq([rows EXCEPT ![row] = rows[last]], 1, last - 1)
        /\ vecs' = SubSeq([vecs EXCEPT ![row] = vecs[last]], 1, last - 1)
        /\ byId' = [i \in DOMAIN byId \ {id} |-> IF byId[i] = last THEN row ELSE byId[i]]

\* vs_erase: the vector and the row, in one transaction.
vs_erase(id) ==
    LET gone == {r.row : r \in RowsOf(id)}
    IN  /\ vecs' = {v \in vecs : v.row \notin gone}
        /\ rows' = {r \in rows : r.row \notin gone}
        /\ UNCHANGED byId
erase(id) == IF Sqlite THEN vs_erase(id) ELSE mem_erase(id)

\* The tables of SQLite keep what they have and the dimensions they were made with.
vs_open(dims) == tableDims' = IF tableDims = 0 THEN dims ELSE tableDims
open_rag_index ==
    /\ opened' = IF opened = 0 THEN model ELSE opened
    /\ vs_open(opened')

-----------------------------------------------------------------------------
(* The pipeline *)

Call == running = NoCall /\ calls < MaxCalls /\ calls' = calls + 1
Returns == running' = NoCall
\* A call that has changed something leaves the document unsure until it is done.
Begun(d) == unsure' = unsure \cup {d} /\ UNCHANGED told
Settled(d, chunks) == told' = [told EXCEPT ![d] = chunks] /\ unsure' = unsure \ {d}

\* rag_index: the chunks are embedded before the store is opened.  Without a
\* chunk the call only erases, and a store that is not open has nothing.
rag_index(d, t) ==
    /\ Call
    /\ \E chunks \in {Chunks(t)} :
        IF chunks = << >> /\ opened = 0
          THEN Settled(d, Gone) /\ torn' = torn \cup {d} /\ UNCHANGED <<opened, tableDims, running>>
          ELSE /\ running' = [doc |-> d, chunks |-> chunks, n |-> 0]
               /\ IF chunks = << >> THEN UNCHANGED <<opened, tableDims>> ELSE open_rag_index
               /\ UNCHANGED <<told, unsure, torn>>
    /\ UNCHANGED <<vstore, model, rows, vecs, byId, tx, faults>>

\* embed fails, is cancelled or returns too few vectors: nothing is opened or stored.
EmbedFails ==
    /\ Call /\ faults < MaxFaults /\ faults' = faults + 1
    /\ UNCHANGED <<vstore, opened, model, tableDims, rows, vecs, byId, tx, running, told, unsure, torn>>

\* rag_erase is erase_chunks_from the first chunk.
rag_erase(d) ==
    /\ Call
    /\ IF opened = 0
         THEN Settled(d, Gone) /\ torn' = torn \cup {d} /\ UNCHANGED running
         ELSE running' = [doc |-> d, chunks |-> << >>, n |-> 0] /\ UNCHANGED <<told, unsure, torn>>
    /\ UNCHANGED <<vstore, opened, model, tableDims, rows, vecs, byId, tx, faults>>

\* rag_query, also from the search_knowledge tool: it opens the store.
rag_query ==
    /\ Call /\ opened = 0
    /\ open_rag_index
    /\ UNCHANGED <<vstore, model, rows, vecs, byId, tx, running, told, unsure, torn, faults>>

UpsertChunk ==
    /\ running # NoCall /\ running.n < Len(running.chunks)
    /\ upsert(chunk_id(running.doc, running.n), running.chunks[running.n + 1])
    /\ running' = [running EXCEPT !.n = @ + 1]
    /\ Begun(running.doc)
    /\ UNCHANGED <<vstore, opened, model, tableDims, tx, torn, calls, faults>>

\* erase_chunks_from: the higher chunks go, until one is missing.
EraseChunk ==
    /\ running # NoCall /\ running.n >= Len(running.chunks) /\ ~tx.open
    /\ LET id == chunk_id(running.doc, running.n)
       IN  IF Has(id)
             THEN /\ erase(id)
                  /\ running' = [running EXCEPT !.n = @ + 1]
                  /\ Begun(running.doc)
             ELSE /\ Settled(running.doc, running.chunks)
                  /\ Returns
                  /\ UNCHANGED <<rows, vecs, byId>>
    /\ UNCHANGED <<vstore, opened, model, tableDims, tx, torn, calls, faults>>

\* A call of the store that fails, by itself or for what the store refuses,
\* ends rag_index and rag_erase where they are.
Torn == IF running.n > Len(running.chunks) THEN torn \cup {running.doc} ELSE torn
StoreFails ==
    /\ running # NoCall
    /\ \/ faults < MaxFaults /\ faults' = faults + 1
       \/ UNCHANGED faults /\ ((running.n < Len(running.chunks) /\ Refused) \/ tx.open)
    /\ Returns /\ torn' = Torn
    /\ UNCHANGED <<vstore, opened, model, tableDims, rows, vecs, byId, tx, told, unsure, calls>>

\* clear of the store.
Clear ==
    /\ Call /\ opened # 0 /\ ~tx.open
    /\ rows' = Empty /\ vecs' = Empty /\ byId' = << >>
    /\ told' = [d \in Docs |-> Gone] /\ unsure' = {} /\ torn' = {}
    /\ UNCHANGED <<vstore, opened, model, tableDims, tx, running, faults>>

\* vs_clear runs its statements in one exec: when a DELETE fails the transaction
\* stays open, and no later BEGIN succeeds.
vs_clear_fails ==
    /\ Call /\ Sqlite /\ opened # 0 /\ ~tx.open
    /\ faults < MaxFaults /\ faults' = faults + 1
    /\ tx' = [open |-> TRUE, rows |-> rows, vecs |-> vecs]
    /\ vecs' \in {vecs, {}}
    /\ UNCHANGED <<vstore, opened, model, tableDims, rows, byId, running, told, unsure, torn>>

\* The process ends and another one opens the index, maybe with another model.
Restart ==
    /\ faults < MaxFaults /\ faults' = faults + 1
    /\ opened' = 0 /\ model' \in Dims /\ Returns
    /\ IF Sqlite
         THEN /\ rows' = IF tx.open THEN tx.rows ELSE rows
              /\ vecs' = IF tx.open THEN tx.vecs ELSE vecs
              /\ torn' = (IF running = NoCall THEN torn ELSE Torn)
              /\ UNCHANGED <<tableDims, told, unsure>>
         ELSE /\ rows' = Empty /\ vecs' = Empty /\ tableDims' = 0
              /\ told' = [d \in Docs |-> Gone] /\ unsure' = {} /\ torn' = {}
    /\ byId' = << >> /\ tx' = NoTx
    /\ UNCHANGED <<vstore, calls>>

Next ==
    \/ \E d \in Docs, t \in DocTexts : rag_index(d, t)
    \/ \E d \in Docs : rag_erase(d)
    \/ rag_query \/ EmbedFails \/ UpsertChunk \/ EraseChunk \/ StoreFails \/ Clear \/ vs_clear_fails \/ Restart
    \/ running = NoCall /\ calls = MaxCalls /\ UNCHANGED ragVars

Spec == Init /\ [][Next]_ragVars

-----------------------------------------------------------------------------
(* Properties *)

Entries == IF Sqlite THEN rows ELSE {rows[i] : i \in DOMAIN rows}
OfDoc(d) == {e \in Entries : e.id[1] = d}
\* The vector that a query compares for an entry.
VectorOf(e) ==
    IF Sqlite THEN {v.vec.text : v \in {w \in vecs : w.row = e.row}}
    ELSE {vecs[i].text : i \in {j \in DOMAIN rows : rows[j] = e}}

\* A hit of query_topk is the text whose vector was compared, also after rows
\* have moved (mem_erase) or a transaction was rolled back, and a document that
\* rag_index returned ok for has every chunk of its text and, unless an erase
\* of it was ever cut short, no other.
IndexExact ==
    /\ ~tx.open =>
        /\ \A e \in Entries : VectorOf(e) = {e.text}
        /\ \A e, f \in Entries : e.id = f.id => e = f
    /\ ~Sqlite => \A id \in DOMAIN byId : byId[id] \in DOMAIN rows /\ rows[byId[id]].id = id
    /\ \A d \in Docs \ unsure :
        LET now == {[id |-> e.id, text |-> e.text] : e \in OfDoc(d)}
            due == {[id |-> chunk_id(d, i - 1), text |-> told[d][i]] : i \in DOMAIN told[d]}
        IN  due \subseteq now /\ (d \notin torn => now = due)

\* "rag_erase removes all of a document's chunks" (rag.md:172).
ErasedIsGone == \A d \in Docs \ unsure : told[d] = Gone => OfDoc(d) = {}
=============================================================================
