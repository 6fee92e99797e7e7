----------------------------- MODULE MCGraphRun -----------------------------
(***************************************************************************)
(* Runs of a graph, and turns of the conversations of its Agent nodes.  A  *)
(* behaviour is about one or the other: GraphRun needs of a turn only that *)
(* it ends with an answer, a pause or an error.                            *)
(*                                                                         *)
(* The graph: an Agent node that may go on to a Parallel node or jump past *)
(* it, the Parallel node with a branch of an Agent and a Function node and *)
(* a branch of one Agent node, and a Function node after the join.  The    *)
(* budgets of the turns are small enough for a history of three or four    *)
(* messages to be compressed and pruned.                                   *)
(***************************************************************************)
EXTENDS GraphRun

CONSTANTS
    a, f, z, p, q, r, b1, b2,
    Layers,                                   \* "run", "turn" or both
    AutoLength, AutoKeep, MaxRounds, Scenes   \* of TurnExecutor

VARIABLES
    layer,    \* what this behaviour is about
    scene, hist, saved, stack, active, rejects, cancel, abandoned   \* of TurnExecutor

T == INSTANCE TurnExecutor

FixedEdges == [n \in Nodes |-> CASE n = a -> {f, z} [] n = f -> {z} [] n = z -> {End}
                                 [] OTHER -> {}]

FixedChain == [b \in Branches |-> IF b = b1 THEN <<p, q>> ELSE <<r>>]

\* Large and small messages, compress_context calls, paused turns.
Editing == [budget |-> 5, autoTokens |-> 4, calls |-> 2, sizes |-> {1, 2}, keeps |-> {1, 2},
            nesting |-> {}, injected |-> TRUE, happens |-> {"fail", "summary", "pause"}]

\* Turns in tools, on a Session of their own; media, every way to fail; cancel.
Nested == [budget |-> 3, autoTokens |-> 3, calls |-> 2, sizes |-> {1}, keeps |-> {1},
           nesting |-> {"other"}, injected |-> FALSE,
           happens |-> {"fail", "crashed", "arena", "cancel", "media"}]

\* Histories that are stored, and read again by the next process.
Stored == [budget |-> 3, autoTokens |-> 2, calls |-> 1, sizes |-> {1}, keeps |-> {},
           nesting |-> {}, injected |-> FALSE, happens |-> {"fail", "pause", "save", "restart"}]

AllScenes == {Editing, Nested, Stored}

ASSUME TurnsTyped ==
    /\ Layers \subseteq {"run", "turn"}
    /\ {AutoLength, AutoKeep, MaxRounds} \subseteq Nat
    /\ Scenes \subseteq T!Scene

turnVars == <<scene, hist, saved, stack, active, rejects, cancel, abandoned>>
mcVars == <<layer, vars, turnVars>>

\* What does not move starts in one way only.
MCInit ==
    /\ layer \in Layers /\ Init /\ T!Init
    /\ layer # "run" => happens = CHOOSE s \in Scenarios : TRUE
    /\ layer # "turn" => scene = (CHOOSE s \in Scenes : TRUE) /\ hist.main = << >>

MCNext ==
    /\ UNCHANGED layer
    /\ \/ layer = "run" /\ Next /\ UNCHANGED turnVars
       \/ layer = "turn" /\ T!Next /\ UNCHANGED vars

MCSpec == MCInit /\ [][MCNext]_mcVars

-----------------------------------------------------------------------------
(* The properties of TurnExecutor, as they are stated there *)

\* What a turn sends is a well-formed conversation that fits the token budget
\* (run_turn_with_media, prune_history_state).
SentIsWellFormed == T!SentIsWellFormed /\ T!PrunedToBudget

\* A turn inside a tool leaves the outer turn as it was.
NestingIsTransparent == T!NestingIsTransparent
=============================================================================
