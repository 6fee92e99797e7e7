------------------------------ MODULE KvStore ------------------------------
(***************************************************************************)
(* What a memory store promises: a map from keys to values, of which some  *)
(* earlier content, always a whole one, is on disk.  The in-memory store   *)
(* of src/src/core/memory/in_memory_store.cpp is this map under a mutex,   *)
(* with nothing saved; SqliteStore is shown to implement it.               *)
(***************************************************************************)
CONSTANTS Keys, Values, Missing

VARIABLES
    content,  \* what get returns for each key
    snap,     \* the content being written to disk, or Missing
    saved     \* the content on disk

vars == <<content, snap, saved>>

Content == [Keys -> Values \cup {Missing}]
Empty == [k \in Keys |-> Missing]

Init == content = Empty /\ snap = Missing /\ saved = Empty

put(k, v) ==
    /\ content' = [content EXCEPT ![k] = v]
    /\ UNCHANGED <<snap, saved>>

clear ==
    /\ content' = Empty
    /\ UNCHANGED <<snap, saved>>

\* The content of one moment is written, or is not, as a whole.
Take == snap' = content /\ UNCHANGED <<content, saved>>
Save == snap # Missing /\ saved' = snap /\ snap' = Missing /\ UNCHANGED content
Drop == snap' = Missing /\ UNCHANGED <<content, saved>>

\* A cleared store is emptied on disk too.
Wipe == content = Empty /\ saved' = Empty /\ UNCHANGED <<content, snap>>

\* The process dies, or could not clear the disk: what is on disk counts.
Forget == content' = saved /\ snap' = Missing /\ UNCHANGED saved

Next ==
    \/ \E k \in Keys, v \in Values : put(k, v)
    \/ clear \/ Take \/ Save \/ Drop \/ Wipe \/ Forget

Spec == Init /\ [][Next]_vars
=============================================================================
