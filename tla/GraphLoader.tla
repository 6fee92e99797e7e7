---------------------------- MODULE GraphLoader ----------------------------
(***************************************************************************)
(* agent.json: load_graph_json of src/src/core/graph/graph_json.cpp, and   *)
(* the walk of the executor (drive, run_branch, run_loop_node and          *)
(* resolve_next in graph_executor.cpp) over the graph it builds.           *)
(*                                                                         *)
(* A document names its nodes 1 .. Size; the node "<n>#done" that the      *)
(* loader adds for a sequential node n is n + Size.  A walk follows one    *)
(* branch of a Parallel node, any one, to the join.  Beside the walk goes  *)
(* a structured one, with a stack of the bodies, branches and steps it is  *)
(* in, which does what docs/api/agent-json.md says of them.                *)
(***************************************************************************)
EXTENDS Integers, Sequences, SequencesExt, FiniteSets

CONSTANTS
    Size,     \* nodes of a document
    Documents, \* functions that give each node its [kind, of, edge]
    Times,    \* max_iterations of a loop node
    MaxSteps, \* max_steps
    Servers,  \* MCP servers
    Functions, \* names of C++ functions
    Wants     \* what a document asks for besides its nodes: its mcp_servers, the
              \* servers whose tools its Tool nodes name, the functions of its
              \* Function nodes, and its ill-formed parts

End == 0       \* "__end__"
Unknown == -1  \* a name that no node has
Nowhere == -2  \* no exit_to
Node == 1 .. Size

\* A node's kind, its body, branches or steps, and the possible targets of its
\* edge: none without an edge, one for "to", several for a route.
Plain == [kind |-> "plain", of |-> << >>, edge |-> {}]
NodeShape == [kind : {"plain", "loop", "parallel", "sequential"},
              of : Seq(Node \cup {Unknown}), edge : SUBSET (Node \cup {End, Unknown})]
NoWants == [servers |-> << >>, tools |-> {}, functions |-> {}, ill |-> {}]

ASSUME ShapesTyped ==
    /\ Size \in Nat \ {0} /\ Times \in Int /\ MaxSteps \in Nat
    /\ Wants \subseteq [servers : Seq(Servers), tools : SUBSET Servers,
                        functions : SUBSET Functions, ill : SUBSET {"source", "field", "server"}]

VARIABLES
    doc,      \* the nodes of the document; node 1 is the entry
    want,     \* what else it asks for
    phase,    \* "parse", "connect", "run", "ended", "stopped", "rejected" or "failed"
    graph,    \* what parse_document has built: the exits, and the warnings
    registry, \* the functions registered in the process
    session,  \* the servers connected in the session
    load,     \* load_graph_json: servers seen at the start, those it connected,
              \* and the next one to connect
    others,   \* history: the servers the program had connected before
    at,       \* the node the executor is at
    joins,    \* the Parallel nodes whose branches it is in, innermost last
    steps,    \* nodes run so far, by drive and by each of these branches
    count,    \* the iteration count a loop node keeps in the state
    stack,    \* structured walk: the scopes it is in, innermost last
    here      \* structured walk: the node it is at

loadVars == <<registry, session, load, others>>
walkVars == <<at, joins, steps, count, stack, here>>
vars == <<doc, want, phase, graph, registry, session, load, others, at, joins, steps, count, stack, here>>

Entry == 1
NoGraph == [exit |-> << >>, unreachable |-> {}, cycles |-> {}]

\* A document that asks for more has only the entry for a node.
Init ==
    /\ doc \in Documents
    /\ want \in IF doc = [n \in Node |-> Plain] THEN Wants ELSE {NoWants}
    /\ phase = "parse" /\ graph = NoGraph
    /\ registry \in IF want = NoWants THEN {{}} ELSE SUBSET Functions
    /\ session = {} /\ others = {}
    /\ load = [existing |-> {}, connected |-> << >>, next |-> 1]
    /\ at = Entry /\ here = Entry
    /\ joins = << >> /\ steps = <<0>> /\ stack = << >>
    /\ count = [n \in Node |-> 0]

-----------------------------------------------------------------------------
(* parse_document *)

Done(n) == n + Size
All == Node \cup {Done(n) : n \in {m \in Node : doc[m].kind = "sequential"}}
Kind(n) == IF n \in Node THEN doc[n].kind ELSE "plain"
Sequential(n) == Kind(n) = "sequential"
Known == Node

\* read_source and the JSON parser; the fields' types, ranges and names; those
\* of the servers.
Readable == "source" \notin want.ill
FieldsTyped == "field" \notin want.ill
ServersTyped == "server" \notin want.ill /\ IsInjective(want.servers)

\* Every kind has the fields it needs, and a function that is registered.
NodesOk ==
    /\ \A n \in Node : doc[n].kind # "plain" => doc[n].of # << >>
    /\ \A n \in Node : doc[n].kind = "loop" => Times >= 1
    /\ want.functions \subseteq registry

\* Workflow nodes refer to nodes other than themselves, to a step once.
ReferencesOk ==
    \A n \in Node : /\ ToSet(doc[n].of) \subseteq Known \ {n}
                    /\ Sequential(n) => IsInjective(doc[n].of)

\* Edges and routes lead to a node or to __end__.
EdgesOk == \A n \in Node : doc[n].edge \subseteq Known \cup {End}

DocumentOk == Readable /\ FieldsTyped /\ ServersTyped /\ NodesOk /\ ReferencesOk /\ EdgesOk

\* The edges of the graph: a sequential node leads to its first step, and its
\* own edge belongs to its #done node.
Edge(n) ==
    IF n \notin Node THEN doc[n - Size].edge
    ELSE IF Sequential(n) THEN {Head(doc[n].of)} ELSE doc[n].edge

\* Builder::successors, which takes workflow nodes as opaque.
successors(n) == IF Sequential(n) THEN {Done(n)} ELSE Edge(n) \ {End}

\* What "next" leads to from "start", one set after the other, without what is
\* in "stop": the work lists of chain and warn_unreachable.
Closure(start, stop, next(_)) ==
    LET grow[i \in Nat] ==
            IF i = 0 THEN {start} \ stop
            ELSE LET reached == grow[i - 1]
                 IN  (reached \cup UNION {next(n) : n \in reached}) \ stop
    IN  grow[2 * Size]

\* Builder::chain
chain(start, stop) == Closure(start, {stop}, successors)

\* Where the i-th step of a sequential node exits to.
AfterStep(n, i) == IF i < Len(doc[n].of) THEN doc[n].of[i + 1] ELSE Done(n)

\* The claims of assign_exits: <<node, exit target>>.
Claims ==
    {<<m, Nowhere>> : m \in chain(Entry, Nowhere)}
    \cup UNION {LET target(i) == IF Sequential(n) THEN AfterStep(n, i) ELSE n
                IN  UNION {{<<m, target(i)>> : m \in chain(doc[n].of[i], target(i))} :
                           i \in DOMAIN doc[n].of} : n \in {m \in Node : doc[m].kind # "plain"}}

\* Mutant of ClaimsAgree: whoever claims a node first gets it.
ClaimsFirst == TRUE

\* Builder::claim refuses a node that two scopes with different ends claim.
ClaimsAgree == LET claims == Claims IN \A c, d \in claims : c[1] = d[1] => c[2] = d[2]

Exits ==
    LET claims == Claims
    IN  [n \in All |-> LET ends == {c[2] : c \in {d \in claims : d[1] = n}}
                       IN  IF ends = {} THEN Nowhere ELSE CHOOSE t \in ends : TRUE]

\* warn_unreachable looks at every way to get to a node.
Unreachable(exit) ==
    LET ways(n) == successors(n) \cup ({exit[n]} \ {Nowhere})
                   \cup (IF n \in Node THEN ToSet(doc[n].of) ELSE {})
    IN  Node \ Closure(Entry, {}, ways)

\* Where a node goes whatever the state is: nowhere for a route or a loop.
static_next(n, exit) ==
    IF Kind(n) = "loop" \/ Cardinality(Edge(n)) > 1 THEN {}
    ELSE IF Edge(n) \ {End} # {} THEN Edge(n) \ {End}
    ELSE {exit[n]} \ {Nowhere}

\* The nodes on the cycles that warn_static_cycles names.
StaticCycles(exit) ==
    LET next(n) == static_next(n, exit)
    IN  {n \in All : \E m \in next(n) : n \in Closure(m, {}, next)}

\* parse_graph_json: the document is refused or gives a graph.
Parse ==
    /\ phase = "parse"
    /\ IF DocumentOk /\ ClaimsAgree
         THEN LET exit == Exits
              IN  /\ phase' = "connect"
                  /\ graph' = [exit |-> exit, unreachable |-> Unreachable(exit),
                               cycles |-> StaticCycles(exit)]
         ELSE phase' = "rejected" /\ UNCHANGED graph
    /\ load' = [load EXCEPT !.existing = session]
    /\ UNCHANGED <<doc, want, registry, session, others, walkVars>>

-----------------------------------------------------------------------------
(* load_graph_json: the session *)

Fail(connected) ==
    /\ phase' = "failed"
    /\ session' = session \ ToSet(connected)
    /\ UNCHANGED <<doc, want, graph, registry, load, others, walkVars>>

\* Mutant of rollback: the servers that were there before go too.
RollbackAll == Fail(want.servers)

\* The servers this call connected are disconnected again.
rollback == Fail(load.connected)

\* The next server: already there at the start, connected now, or refused.
ConnectServer ==
    /\ phase = "connect" /\ load.next <= Len(want.servers)
    /\ LET s == want.servers[load.next]
       IN  \/ /\ s \in load.existing
              /\ load' = [load EXCEPT !.next = @ + 1]
              /\ UNCHANGED <<doc, want, graph, registry, phase, session, others, walkVars>>
           \/ /\ s \notin load.existing
              /\ session' = session \cup {s}
              /\ load' = [load EXCEPT !.next = @ + 1, !.connected = Append(@, s)]
              /\ UNCHANGED <<doc, want, graph, registry, phase, others, walkVars>>
           \/ s \notin load.existing /\ rollback

\* The tools that its nodes name are looked up.
CheckTools ==
    /\ phase = "connect" /\ load.next > Len(want.servers)
    /\ IF want.tools \subseteq session
         THEN /\ phase' = "run"
              /\ UNCHANGED <<doc, want, graph, loadVars, walkVars>>
         ELSE rollback

\* The program has connected a server before it loads the document.
PriorConnect(s) ==
    /\ phase = "parse" /\ want # NoWants /\ s \notin session
    /\ session' = session \cup {s} /\ others' = others \cup {s}
    /\ UNCHANGED <<doc, want, graph, registry, phase, load, walkVars>>

\* Any thread registers and unregisters functions at any time; a graph that is
\* loaded has the pointer and does not see it.
RegisterFunction(f) ==
    /\ phase = "parse" /\ want # NoWants
    /\ registry' = registry \cup {f}
    /\ UNCHANGED <<doc, want, graph, phase, session, load, others, walkVars>>
UnregisterFunction(f) ==
    /\ phase = "parse" /\ want # NoWants
    /\ registry' = registry \ {f}
    /\ UNCHANGED <<doc, want, graph, phase, session, load, others, walkVars>>

-----------------------------------------------------------------------------
(* The executor's walk, with the target t that the edge or the router gives *)

resolve_next(n, t) == IF t = End /\ graph.exit[n] # Nowhere THEN graph.exit[n] ELSE t

Targets(n) == IF Edge(n) = {} THEN {End} ELSE Edge(n)

\* The structured walk, in the scopes stk, has completed a node that leads to
\* t.  To reach __end__, or the place where the innermost scope ends, finishes
\* that scope: a step goes on with the next one or leaves the sequential node,
\* a body or a branch returns to its owner.
ScopeEnd(s) == IF Sequential(s.of) THEN AfterStep(s.of, s.step) ELSE s.of
Proceed(stk, t) ==
    IF stk = << >> THEN [stack |-> << >>, here |-> t]
    ELSE LET s == Last(stk)
         IN  IF t \notin {End, ScopeEnd(s)} THEN [stack |-> stk, here |-> t]
             ELSE [here |-> ScopeEnd(s),
                   stack |-> IF ~Sequential(s.of) THEN stk
                             ELSE IF s.step = Len(doc[s.of].of) THEN Front(stk)
                             ELSE Append(Front(stk), [s EXCEPT !.step = @ + 1])]

Follow(p) == here' = p.here /\ stack' = p.stack
Enter(stk, n, i) == here' = doc[n].of[i] /\ stack' = Append(stk, [of |-> n, step |-> i])
Inside(n) == stack # << >> /\ Last(stack).of = n

Counted == [steps EXCEPT ![Len(steps)] = @ + 1]

\* A Function, Agent or Tool node.
StepNode(t) ==
    /\ Kind(at) \in {"plain", "sequential"}
    /\ at' = resolve_next(at, t)
    /\ IF Sequential(here) THEN Enter(stack, here, 1) ELSE Follow(Proceed(stack, t))
    /\ steps' = Counted
    /\ UNCHANGED <<joins, count>>

LoopExits(n, stop) == count[n] >= Times \/ (count[n] > 0 /\ stop)

\* run_loop_node; "stop" is what until says.
StepLoop(t, stop) ==
    /\ Kind(at) = "loop"
    /\ count' = [count EXCEPT ![at] = IF LoopExits(at, stop) THEN 0 ELSE @ + 1]
    /\ at' = IF LoopExits(at, stop) THEN resolve_next(at, t) ELSE Head(doc[at].of)
    /\ LET runs == IF Inside(here) THEN Last(stack).step ELSE 0
           outer == IF Inside(here) THEN Front(stack) ELSE stack
       IN  IF runs = Times \/ (runs > 0 /\ stop) THEN Follow(Proceed(outer, t))
           ELSE /\ here' = Head(doc[here].of)
                /\ stack' = Append(outer, [of |-> here, step |-> runs + 1])
    /\ steps' = Counted
    /\ UNCHANGED joins

\* run_parallel_node starts a branch.
StepFork(i) ==
    /\ Kind(at) = "parallel" /\ i \in DOMAIN doc[at].of
    /\ joins' = Append(joins, at) /\ steps' = Append(Counted, 0)
    /\ at' = doc[at].of[i]
    /\ Enter(stack, here, i)
    /\ UNCHANGED count

\* run_branch ends at the join, or at __end__; the Parallel node goes on when
\* all of them have.
BranchEnds == joins # << >> /\ at \in {End, Last(joins)}
StepJoin(t) ==
    /\ BranchEnds
    /\ joins' = Front(joins) /\ steps' = Front(steps)
    /\ at' = resolve_next(Last(joins), t)
    /\ Follow(Proceed(IF Inside(here) THEN Front(stack) ELSE stack, t))
    /\ UNCHANGED count

Walk ==
    /\ phase = "run"
    /\ \/ /\ BranchEnds
          /\ \E t \in Targets(Last(joins)) : StepJoin(t)
       \/ /\ ~BranchEnds /\ at # End /\ Last(steps) < MaxSteps
          /\ \/ \E t \in Targets(at) : \/ StepNode(t)
                                       \/ \E stop \in BOOLEAN : StepLoop(t, stop)
             \/ \E i \in 1 .. Size : StepFork(i)
    /\ UNCHANGED <<doc, want, graph, phase, loadVars>>

\* drive and run_branch give up after max_steps nodes.
Stopped ==
    /\ phase = "run" /\ ~BranchEnds /\ at # End /\ Last(steps) = MaxSteps
    /\ phase' = "stopped"
    /\ UNCHANGED <<doc, want, graph, loadVars, walkVars>>

\* drive: the run is over.
Ended ==
    /\ phase = "run" /\ at = End /\ joins = << >>
    /\ phase' = "ended"
    /\ UNCHANGED <<doc, want, graph, loadVars, walkVars>>

Next ==
    \/ Parse \/ ConnectServer \/ CheckTools
    \/ \E s \in Servers : PriorConnect(s)
    \/ \E f \in Functions : RegisterFunction(f) \/ UnregisterFunction(f)
    \/ Walk \/ Stopped \/ Ended

Spec == Init /\ [][Next]_vars

-----------------------------------------------------------------------------
(* Properties *)

TypeOK ==
    /\ doc \in [Node -> NodeShape]
    /\ phase \in {"parse", "connect", "run", "ended", "stopped", "rejected", "failed"}
    /\ session \subseteq Servers /\ registry \subseteq Functions

\* A document that loads passes the executor's validate: every name that the
\* graph holds, "exit_to" included, is the name of a node.
Valid ==
    /\ \A n \in All : /\ graph.exit[n] \in All \cup {Nowhere}
                      /\ Edge(n) \subseteq All \cup {End}

\* agent-json.md:125-131: "When the sub-graph reaches __end__, it finishes the
\* body, branch or step": with exit_to alone, no stack of scopes, the executor
\* is always where the structured walk is, for every document that claim lets
\* through; and it never gets to a node that was warned of as unreachable.
RunsAsWritten ==
    /\ TypeOK
    /\ phase = "connect" => Valid
    /\ phase \in {"run", "ended"} => at = here /\ at \notin graph.unreachable

\* load_graph_json leaves nothing behind: a call that failed has disconnected
\* what it connected and nothing that others had.
FailedLoadLeavesNothing ==
    phase = "failed" => session = others

\* No edge of the document is a route.
NoConditions == \A n \in All : Cardinality(Edge(n)) <= 1

\* Where a loop node goes once its iterations are over, or another node.
Onward(n) ==
    IF Kind(n) = "loop" THEN {resolve_next(n, t) : t \in Targets(n)} \ {End}
    ELSE static_next(n, graph.exit)

\* No loop node comes back to itself that way.
LoopsAreLeft ==
    \A n \in {m \in Node : doc[m].kind = "loop"} :
        \A m \in Onward(n) : n \notin Closure(m, {}, Onward)

\* A document without a route, without a warning about a cycle and without a
\* way from the exit of a loop node back to it never runs into max_steps:
\* warn_static_cycles may leave out the loop nodes, whose iterations are
\* bounded, and misses no other cycle.
UnwarnedEnds ==
    phase = "stopped" => ~NoConditions \/ graph.cycles # {} \/ ~LoopsAreLeft

\* "Cycles that pass through a loop node are bounded by max_iterations"
\* (agent-json.md:172).
LoopCyclesEnd == phase = "stopped" => ~NoConditions \/ graph.cycles # {}
=============================================================================
