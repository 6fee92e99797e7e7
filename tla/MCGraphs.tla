------------------------------ MODULE MCGraphs ------------------------------
(***************************************************************************)
(* What the commands of the program run, side by side.  agent run: how     *)
(* agent.json becomes a graph and where a walk over it goes (GraphLoader), *)
(* and what the values of a run are, made of what the builders return      *)
(* (GraphState).  agent chat: the loop over a conversation (Chat).  A      *)
(* behaviour is about one of the three.                                    *)
(*                                                                         *)
(* Documents of four nodes.  Nodes 1 and 2 are of any kind, with one or    *)
(* two branches or steps anywhere and an edge or none, node 1 also with a  *)
(* route; nodes 3 and 4 are plain.  One document is the plain entry        *)
(* alone, with all sorts of servers, tools and functions; another has a    *)
(* name that does not exist.                                               *)
(*                                                                         *)
(* Values: a Function and a Tool node in sequence; a loop behind an Agent  *)
(* node, whose body has a router; a fan-out of a loop and an Agent node; a *)
(* fan-out inside a loop; a fan-out of two Function nodes that write; and  *)
(* graphs that validate refuses.                                           *)
(***************************************************************************)
EXTENDS GraphLoader

CONSTANTS
    Layers,     \* some of "load", "values" and "chat"
    Threads, TempKeys, ScopedKeys, KeyOrder, Values, MaxFaults, None,
    Models, Default, Texts, MaxChats, MaxTurns,   \* of Chat
    s1, s2, f1, t1, t2

ASSUME LayersTyped == Layers \subseteq {"load", "values", "chat"}

VARIABLES
    layer,      \* what this behaviour is about
    scene, store, ckpt, pc, thread, run, state, index, todo, result, progress, br, answers,
    calls, faults, promised, earlier,
    budget, where, model, seat, generating, raised, id, history, kept, listed, rest, filter,
    roomy, moments, chats, taken, lapses, received, shown, pressed, ending   \* of Chat

-----------------------------------------------------------------------------
(* The documents *)

Members(n) == {<<a>> : a \in Node \ {n}} \cup {<<a, b>> : a, b \in Node \ {n}}
Straight == {{}} \cup {{t} : t \in Node}
Edges == Straight \cup {{End, 2}, {End, 3}, {2, 3}}
Workflow(n, edges) ==
    [kind : {"loop"}, of : {<<b>> : b \in Node \ {n}}, edge : edges]
    \cup [kind : {"parallel"}, edge : edges,
          of : {p \in Members(n) : Len(p) = 1 \/ p[1] < p[2]}]
    \cup [kind : {"sequential"}, of : Members(n), edge : edges]
Leaf(edges) == {[Plain EXCEPT !.edge = e] : e \in edges}

MCDocuments ==
    ((Leaf(Straight) \cup Workflow(1, Edges)) \X (Leaf(Straight) \cup Workflow(2, Straight))
        \X Leaf({{}, {2}, {4}}) \X Leaf({{}, {3}}))
    \cup {[[n \in Node |-> Plain] EXCEPT ![1].edge = {Unknown}]}

MCWants == [servers : {<< >>, <<s1>>, <<s1, s2>>, <<s1, s1>>},
            tools : SUBSET {s1, s2}, functions : SUBSET {f1}, ill : SUBSET {"source", "field", "server"}]

-----------------------------------------------------------------------------
(* The graphs whose values are followed *)

B == INSTANCE GraphState WITH Scenes <- {}

F == B!make_graph(B!Node("F", "Function"))
X == B!make_graph(B!Node("x", "Function"))
Y == B!make_graph(B!Node("y", "Function"))
T == B!make_graph([B!Node("T", "Tool") EXCEPT !.in = "a", !.out = "user:v"])
G == B!make_graph([B!Node("g", "Agent") EXCEPT !.hist = "h", !.out = "b"])

Scene(g, x, y, seeds, n) ==
    [graph |-> g, seeds |-> {<< >>} \cup seeds, calls |-> n,
     writes |-> [name \in {"x", "y", "F"} |-> CASE name = "x" -> x [] name = "y" -> y
                                                [] OTHER -> {<<"a", 1>>, <<"user:u", 2>>}]]

RoutedX == [X EXCEPT !.edges = <<[from |-> "x", to |-> {B!End}]>>]
Seed == [k \in {"a", "user:u"} |-> 2]

Scenes == {
    Scene(B!make_sequential(<<F, T>>), {}, {}, {Seed}, 3),
    Scene(B!make_sequential(<<G, B!make_loop("L", RoutedX, 2)>>), {}, {}, {}, 3),
    Scene(B!make_parallel("P", <<B!make_loop("L", X, 2), G>>), {<<"user:u", 1>>, <<"a", None>>}, {}, {Seed}, 2),
    Scene(B!make_loop("M", B!make_parallel("P", <<X, G>>), 2), {}, {}, {}, 2),
    Scene(B!make_parallel("P", <<X, Y>>), {<<"user:u", 1>>}, {<<"user:u", 2>>, <<B!HumanInput, 1>>},
          {Seed}, 2),
    Scene(B!make_sequential(<<X, X>>), {}, {}, {}, 1),
    Scene(B!make_loop("L", X, 0), {}, {}, {}, 1)}

V == INSTANCE GraphState

ASSUME KeysTyped ==
    /\ TempKeys \cup ScopedKeys \subseteq ToSet(KeyOrder) /\ V!HumanInput \in TempKeys
    /\ MaxFaults \in Nat
    /\ \A s \in Scenes : s.calls \in Nat

\* A tool call and the text after it; a tag that is begun twice and not finished.
MCTexts == {<<"<", "t", ">", "<", "/", "t", "\n", "b">>, <<"<", "<", "t">>}

C == INSTANCE Chat

MCKeyOrder == <<"a", "b", "temp:human_input", "user:u", "user:v">>
ThreadSymmetry == {[t \in Threads |-> IF t = t1 THEN t2 ELSE t1], [t \in Threads |-> t]}

-----------------------------------------------------------------------------
valueVars == <<scene, store, ckpt, pc, thread, run, state, index, todo, result, progress, br,
               answers, calls, faults, promised, earlier>>
chatVars == <<budget, where, model, seat, generating, raised, id, history, kept, listed, roomy, moments, rest,
              filter, chats, taken, lapses, received, shown, pressed, ending>>
graphVars == <<layer, vars, valueVars, chatVars>>

\* What does not move starts in one way only.
MCInit ==
    /\ layer \in Layers
    /\ V!Init /\ C!ChatInit
    /\ layer # "load" => doc = [n \in Node |-> Plain] /\ want = NoWants /\ registry = {}
    /\ layer # "values" => scene = CHOOSE s \in Scenes : TRUE
    /\ layer # "chat" => budget /\ roomy
    /\ Init

MCNext ==
    /\ UNCHANGED layer
    /\ \/ layer = "load" /\ Next /\ UNCHANGED <<valueVars, chatVars>>
       \/ layer = "values" /\ V!Next /\ UNCHANGED <<vars, chatVars>>
       \/ layer = "chat" /\ C!ChatNext /\ UNCHANGED <<vars, valueVars>>

MCSpec == MCInit /\ [][MCNext]_graphVars

-----------------------------------------------------------------------------
(* The properties of GraphState and Chat, as they are stated there *)

\* user: and app: values that were persisted are seen by every later node of
\* every thread (persist_scoped_value, load_scoped_state).
ScopedVisible == V!ScopedVisible

\* The join merges what the branches wrote (run_parallel_node), but for keys
\* that a branch left as they were in the input.
JoinExact == V!JoinExact

\* "At the join, every key a branch wrote is merged back" (graph.md:203); see
\* README.md.
JoinMergesWrites == V!JoinMergesWrites

\* A loop's count is the number of its iterations (run_loop_node).
LoopExact == V!LoopExact

\* Checkpoints have no temp: key, and records rebuild their branches
\* (encode_values, save_branch).
RecordsExact == V!RecordsExact

\* Values survive: those that are persisted, in every later run, and those of a
\* paused or failed run, in its checkpoint and records.
ValuesKept == ScopedVisible /\ RecordsExact

\* The two kinds of node that work on the state themselves do what they say.
WorkflowsExact == JoinExact /\ LoopExact

\* A graph that loads does what its document says, and ends unless the loader
\* warned.
LoadsAsWritten == RunsAsWritten /\ UnwarnedEnds

\* The chat prints what the filter lets through, stops a turn only for its own
\* Ctrl-C, holds one model and keeps the turns that succeeded (run_chat).
ChatsExact == C!ChatsExact
=============================================================================
