--------------------------- MODULE CheckpointQueue ---------------------------
(***************************************************************************)
(* What the Async checkpoint writer promises to the graph runs that share  *)
(* it (src/src/core/graph/graph_internal.hpp, class AsyncWriter): accepted *)
(* writes are attempted one at a time, in the order they were accepted and *)
(* each exactly once; a flush returns to a run only when none of its       *)
(* writes is outstanding; a failed write is reported by some later flush.  *)
(* The condition variables, the counters and the thread that AsyncWriter   *)
(* needs to keep these promises do not appear here.                        *)
(***************************************************************************)
EXTENDS Naturals, Sequences

CONSTANTS
    Runs,       \* the graph runs that share one Checkpointer
    Limit       \* writes that can be outstanding: the queue and one in flight

VARIABLES
    accepted,   \* accepted[r]: writes the writer took from run r
    pending,    \* writes accepted and not attempted yet, oldest first
    attempted,  \* writes handed to the checkpointer, in order
    failed      \* the writes whose failure no flush has reported yet

vars == <<accepted, pending, attempted, failed>>

Writes == Runs \X Nat

Init ==
    /\ accepted = [r \in Runs |-> 0]
    /\ pending = << >>
    /\ attempted = << >>
    /\ failed = {}

\* The queue takes run r's next write.
Accept(r) ==
    /\ Len(pending) < Limit
    /\ accepted' = [accepted EXCEPT ![r] = @ + 1]
    /\ pending' = Append(pending, <<r, accepted[r] + 1>>)
    /\ UNCHANGED <<attempted, failed>>

\* The oldest outstanding write reaches the checkpointer, which may refuse it.
Attempt ==
    /\ pending # << >>
    /\ attempted' = Append(attempted, Head(pending))
    /\ pending' = Tail(pending)
    /\ failed' \in {failed, failed \cup {Head(pending)}}
    /\ UNCHANGED accepted

\* A flush of run r returns: nothing of r is outstanding, and every failure
\* that happened so far is reported (by its first error) and forgotten.
Flush(r) ==
    /\ \A i \in 1 .. Len(pending) : pending[i][1] # r
    /\ failed' = {}
    /\ UNCHANGED <<accepted, pending, attempted>>

Next == Attempt \/ \E r \in Runs : Accept(r) \/ Flush(r)

Spec == Init /\ [][Next]_vars
=============================================================================
