----------------------------- MODULE GraphState -----------------------------
(***************************************************************************)
(* The values of a graph run: what the nodes of                            *)
(* src/src/core/graph/graph_executor.cpp do to GraphState, what a          *)
(* checkpoint keeps of it (graph_checkpoint.cpp), what user: and app: keys *)
(* leave in the memory store, how the branches of a fan-out copy the state *)
(* and are merged, and what run_graph, resume_graph and fork_graph_run     *)
(* start from.  The graphs are made by the builders of graph_builders.cpp. *)
(*                                                                         *)
(* Durability is Sync and checkpoints are written without errors; GraphRun *)
(* has the other modes.  Fan-outs are those of the top-level chain.        *)
(***************************************************************************)
EXTENDS Integers, Sequences, SequencesExt, FiniteSets, Functions

CONSTANTS
    Scenes,      \* what a behaviour is about: a graph, the <<key, value>> that each
                 \* Function node may set (None to erase), the values a caller may
                 \* seed, and a bound on the calls
    Threads,     \* thread ids
    TempKeys,    \* keys that start with temp:
    ScopedKeys,  \* keys that start with user: or app:
    KeyOrder,    \* the keys that nodes write, in the order of std::map
    Values,      \* their values
    MaxFaults,   \* bound on pauses, failures and crashes
    None         \* no node, graph or progress

End == "__end__"
HumanInput == "temp:human_input"

VARIABLES
    scene,      \* the graph of the calls, and what they do
    store,      \* the memory store: [values, index] of the scoped keys
    ckpt,       \* [Threads -> checkpoints by step]
    pc,         \* where the call is; "idle" between calls
    thread,     \* its thread id
    run,         \* run.step, run.next_node and run.status
    state,      \* the state of the top-level chain
    index,      \* the call's ScopedIndex
    todo,       \* keys still to be persisted or merged
    result,     \* the outcome of the node that was run
    progress,   \* ParallelProgress of an unfinished fan-out, or None
    br,         \* the Branch objects, by entry node
    answers,    \* branch_resume
    calls, faults,
    promised,   \* history: the scoped values persisted last
    earlier     \* what a crash may leave: what was kept at some moment since the last

callVars == <<thread, run, state, index, todo, result, progress, br, answers>>
vars == <<scene, store, ckpt, pc, callVars, calls, faults, promised, earlier>>

graph == scene.graph

\* Maps.
Nothing == << >>
Put(map, k, v) == [x \in DOMAIN map \cup {k} |-> IF x = k THEN v ELSE map[x]]
Over(top, map) == [x \in DOMAIN top \cup DOMAIN map |-> IF x \in DOMAIN top THEN top[x] ELSE map[x]]
Without(map, K) == Restrict(map, DOMAIN map \ K)

-----------------------------------------------------------------------------
(* Graphs, and the builders *)

Node(name, kind) ==
    [name |-> name, kind |-> kind, exit |-> None, branches |-> << >>, body |-> None, max |-> 1,
     in |-> None, out |-> None, hist |-> name]

make_graph(node) == [entry |-> node.name, nodes |-> <<node>>, edges |-> << >>]

\* Every node without an exit_to of its own exits to the target.
chain_exits(g, target) ==
    [g EXCEPT !.nodes = [i \in DOMAIN @ |-> IF @[i].exit = None THEN [@[i] EXCEPT !.exit = target]
                                           ELSE @[i]]]

append(g, h) == [g EXCEPT !.nodes = @ \o h.nodes, !.edges = @ \o h.edges]

make_sequential(steps) ==
    LET joined[i \in 1 .. Len(steps)] ==
            LET step == IF i < Len(steps) THEN chain_exits(steps[i], steps[i + 1].entry) ELSE steps[i]
            IN  IF i = 1 THEN step ELSE append(joined[i - 1], step)
    IN  joined[Len(steps)]

make_parallel(name, branches) ==
    LET fan == make_graph([Node(name, "Parallel") EXCEPT
                               !.branches = [i \in DOMAIN branches |-> branches[i].entry]])
        joined[i \in 0 .. Len(branches)] ==
            IF i = 0 THEN fan ELSE append(joined[i - 1], chain_exits(branches[i], name))
    IN  joined[Len(branches)]

make_loop(name, body, max) ==
    append(make_graph([Node(name, "Loop") EXCEPT !.body = body.entry, !.max = max]),
           chain_exits(body, name))

Names(g) == {g.nodes[i].name : i \in DOMAIN g.nodes}
find_node(name) == graph.nodes[SelectInSeq(graph.nodes, LAMBDA n : n.name = name)]

\* validate: the call is refused before it touches anything.
validate(g) ==
    LET known == Names(g) IN
    /\ g.entry \in known /\ End \notin known
    /\ IsInjective([i \in DOMAIN g.nodes |-> g.nodes[i].name])
    /\ \A i \in DOMAIN g.nodes :
        LET n == g.nodes[i] IN
        /\ n.exit \in known \cup {None}
        /\ n.kind = "Parallel" => n.branches # << >> /\ ToSet(n.branches) \subseteq known
        /\ n.kind = "Loop" => n.body \in known /\ n.max >= 1
    /\ \A i \in DOMAIN g.edges : g.edges[i].from \in known
    /\ IsInjective([i \in DOMAIN g.edges |-> g.edges[i].from])

-----------------------------------------------------------------------------
(* The state of a chain of nodes *)

\* Values, keys written since the last drain_writes, and conversations (the
\* number of turns); history: what the loop bodies have completed in this visit.
Blank == [values |-> Nothing, written |-> << >>, hist |-> Nothing, ran |-> 0]

set_state(c, k, v) == [c EXCEPT !.values = Put(@, k, v), !.written = Append(@, k)]

has_state(c, k) == k \in DOMAIN c.values

InternalKeys == Names(graph)   \* a loop's counter is kept under the loop's name

clear_temp(values) == Without(values, TempKeys)

Outcome(res, c, to) == [res |-> res, state |-> c, to |-> to]
Results == {"ok", "interrupted", "failed"}

\* A Function node sets a key, erases one from the values or does neither,
\* and returns, interrupts or fails.
run_function_node(n, c) ==
    LET write(w) == IF w[2] = None THEN [c EXCEPT !.values = Without(@, {w[1]})]
                    ELSE set_state(c, w[1], w[2])
    IN  {Outcome(res, d, None) : res \in Results, d \in {c} \cup {write(w) : w \in scene.writes[n.name]}}

\* What the tool answers: its argument, or nothing for "{}".
ToolResult(arg) == arg

\* A Tool node reads its input key and sets its output key.
run_tool_node(n, c) ==
    LET args == IF has_state(c, n.in) THEN c.values[n.in] ELSE 0
    IN  {Outcome("failed", c, None), Outcome("ok", set_state(c, n.out, ToolResult(args)), None)}

\* history_for: a branch continues the conversation of the enclosing chain.
history_for(n, c, outer) ==
    IF n.hist \in DOMAIN c.hist THEN c.hist[n.hist]
    ELSE IF n.hist \in DOMAIN outer THEN outer[n.hist] ELSE 0

\* An Agent node adds a turn to its conversation and sets its output key.
run_agent_node(n, c, outer) ==
    LET turn == [c EXCEPT !.hist = Put(@, n.hist, history_for(n, c, outer) + 1)]
    IN  {Outcome("failed", turn, None)}
        \cup {Outcome("ok", set_state(turn, n.out, v), None) : v \in Values}

\* A Loop node counts an iteration and jumps into the body, or erases the
\* count and exits; after an iteration "until" says which, or fails.
run_loop_node(n, c) ==
    LET done == IF has_state(c, n.name) THEN c.values[n.name] ELSE 0
        exit == Outcome("ok", [c EXCEPT !.values = Without(@, {n.name})], None)
        again == Outcome("ok", [c EXCEPT !.values = Put(@, n.name, done + 1)], n.body)
    IN  IF done >= n.max THEN {exit}
        ELSE IF done = 0 THEN {again}
        ELSE {exit, again, Outcome("failed", c, None)}

\* run_node, but for Parallel nodes.
run_node(n, c, outer) ==
    CASE n.kind = "Function" -> run_function_node(n, c)
      [] n.kind = "Tool" -> run_tool_node(n, c)
      [] n.kind = "Agent" -> run_agent_node(n, c, outer)
      [] n.kind = "Loop" -> run_loop_node(n, c)

\* Where a node leads: a loop's body, the targets of its edge or router, the
\* end, and from there its exit_to.
resolve_next(n, to) ==
    LET edge == SelectSeq(graph.edges, LAMBDA e : e.from = n.name)
        targets == IF edge = << >> THEN {End} ELSE Head(edge).to
    IN  IF to # None THEN {to}
        ELSE {IF t = End /\ n.exit # None THEN n.exit ELSE t : t \in targets}

\* History: an iteration is complete when its last node leads back to a loop
\* that has a count, and the visit is over when the loop has led on.
Counted(n, c, to, next) ==
    LET done == next # End /\ find_node(next).kind = "Loop" /\ has_state(c, next)
    IN  [c EXCEPT !.ran = IF n.kind = "Loop" /\ to = None THEN 0
                          ELSE IF n.kind # "Loop" /\ done THEN @ + 1 ELSE @]

-----------------------------------------------------------------------------
(* Checkpoints *)

StatusName == [Pending |-> "pending", Running |-> "running", Completed |-> "completed",
               Interrupted |-> "interrupted", Failed |-> "failed"]
status_name(s) == StatusName[s]
parse_status(name) ==
    IF \E s \in DOMAIN StatusName : StatusName[s] = name
    THEN CHOOSE s \in DOMAIN StatusName : StatusName[s] = name ELSE "Pending"

BranchStatusName == [Pending |-> "pending", Running |-> "running", Done |-> "done",
                     Interrupted |-> "interrupted", Failed |-> "failed"]
parse_branch_status(name) ==
    IF \E s \in DOMAIN BranchStatusName : BranchStatusName[s] = name
    THEN CHOOSE s \in DOMAIN BranchStatusName : BranchStatusName[s] = name ELSE "Pending"

encode_values(values) == clear_temp(values)

encode_progress(p) ==
    IF p = None THEN None
    ELSE [p EXCEPT !.recs = [b \in DOMAIN @ |-> [@[b] EXCEPT !.status = BranchStatusName[@],
                                                           !.values = encode_values(@)]]]

\* What is written of a run at a, in state c, with the progress p.
encode_checkpoint(a, c, p) ==
    [next |-> a.next, status |-> status_name(a.status), values |-> encode_values(c.values),
     hist |-> c.hist, ran |-> c.ran, parallel |-> encode_progress(p)]

decode_progress(p) ==
    IF p = None THEN None
    ELSE [p EXCEPT !.recs = [b \in DOMAIN @ |-> [@[b] EXCEPT !.status = parse_branch_status(@)]]]

\* What is read back: the values and conversations of the chain, and where the
\* run was.
decode_state(ck) == [values |-> ck.values, written |-> << >>, hist |-> ck.hist, ran |-> ck.ran]
decode_place(ck, step) == [step |-> step, next |-> ck.next, status |-> parse_status(ck.status)]

LatestStep(t) == Max(DOMAIN ckpt[t])
get_latest(t) == ckpt[t][LatestStep(t)]

write_checkpoint(t, a, c, p) == ckpt' = [ckpt EXCEPT ![t] = Put(@, a.step, encode_checkpoint(a, c, p))]

\* Mutant of load_scoped_state: what the checkpoint has wins.
LoadMissingScoped(values) == Over(values, Restrict(store.values, store.index \cap DOMAIN store.values))

\* The scoped keys of the index replace what the checkpoint has of them.
load_scoped_state(values) == Over(Restrict(store.values, store.index \cap DOMAIN store.values), values)

-----------------------------------------------------------------------------
(* The calls *)

NoPlace == [step |-> 0, next |-> None, status |-> "Pending"]
Seeded == [node |-> None, res |-> "seeded", to |-> None]

Kept(m, p, c) == [store |-> m, promised |-> p, ckpt |-> c]

Init ==
    /\ scene \in Scenes
    /\ store = [values |-> Nothing, index |-> {}]
    /\ ckpt = [t \in Threads |-> Nothing]
    /\ pc = "idle" /\ thread = None /\ run = NoPlace /\ state = Blank /\ index = {}
    /\ todo = << >> /\ result = Seeded /\ progress = None /\ br = Nothing /\ answers = {}
    /\ calls = 0 /\ faults = 0 /\ promised = Nothing
    /\ earlier = {Kept(store, promised, ckpt)}

Fault == faults < MaxFaults /\ faults' = faults + 1

\* The call has returned; its GraphRun is the caller's to throw away.
Return ==
    /\ pc' = "idle" /\ thread' = None /\ run' = NoPlace /\ state' = Blank /\ index' = {}
    /\ todo' = << >> /\ result' = Seeded /\ progress' = None /\ br' = Nothing /\ answers' = {}

\* finish: the final checkpoint, with this status.
finish(status, c) ==
    /\ write_checkpoint(thread, [run EXCEPT !.status = status], c, progress)
    /\ Return

ScopedOf(seq) == SelectSeq(seq, LAMBDA k : k \in ScopedKeys)
SeedKeys(seed) == SelectSeq(KeyOrder, LAMBDA k : k \in DOMAIN seed)

\* drive begins: the keys the caller seeded are drained first.
Begin(t, place, c, p) ==
    /\ thread' = t /\ run' = [place EXCEPT !.status = "Running"]
    /\ state' = [c EXCEPT !.written = << >>] /\ todo' = ScopedOf(c.written)
    /\ index' = store.index
    /\ result' = Seeded /\ progress' = p /\ br' = Nothing
    /\ pc' = "drain"

\* Mutant of run_graph: the loop counters of the last run are kept.
RunKeepsInternal(t, seed) ==
    /\ pc = "idle" /\ calls < scene.calls /\ validate(graph)
    /\ LET first == ckpt[t] = Nothing
           c == IF first THEN Blank ELSE decode_state(get_latest(t))
           step == IF first THEN 0 ELSE LatestStep(t)
       IN  Begin(t, [step |-> step, next |-> graph.entry, status |-> "Pending"],
                 [c EXCEPT !.values = Over(seed, load_scoped_state(@)),
                           !.written = SeedKeys(seed), !.ran = 0], None)
    /\ answers' = {} /\ calls' = calls + 1
    /\ UNCHANGED <<scene, store, ckpt, faults, promised>>

\* run_graph: the thread's values without loop counters, the scoped keys, the
\* caller's seeds; from the entry.
run_graph(t, seed) ==
    /\ pc = "idle" /\ calls < scene.calls /\ validate(graph)
    /\ LET first == ckpt[t] = Nothing
           c == IF first THEN Blank ELSE decode_state(get_latest(t))
           step == IF first THEN 0 ELSE LatestStep(t)
       IN  Begin(t, [step |-> step, next |-> graph.entry, status |-> "Pending"],
                 [c EXCEPT !.values = Over(seed, load_scoped_state(Without(@, InternalKeys))),
                           !.written = SeedKeys(seed), !.ran = 0], None)
    /\ answers' = {} /\ calls' = calls + 1
    /\ UNCHANGED <<scene, store, ckpt, faults, promised>>

\* The branches of a paused fan-out.
Paused(p) == IF p = None THEN {} ELSE {b \in DOMAIN p.recs : p.recs[b].status = "Interrupted"}

\* resume_graph: the thread's latest checkpoint, the scoped keys, and an answer
\* to a set S of paused branches, or to the top-level chain.
resume_graph(t, S) ==
    /\ pc = "idle" /\ calls < scene.calls /\ validate(graph) /\ ckpt[t] # Nothing
    /\ LET place == decode_place(get_latest(t), LatestStep(t))
           p == decode_progress(get_latest(t).parallel)
           c == [decode_state(get_latest(t)) EXCEPT !.values = load_scoped_state(@)]
       IN  /\ place.status # "Completed"
           /\ S \subseteq Paused(p)
           /\ Begin(t, place, IF p = None THEN set_state(c, HumanInput, 1) ELSE c, p)
    /\ answers' = S /\ calls' = calls + 1
    /\ UNCHANGED <<scene, store, ckpt, faults, promised>>

\* fork_graph_run: the checkpoint of a step, the scoped keys and the seeds are
\* the first checkpoint of a new thread, which goes on from there unless it is
\* paused or complete.
fork_graph_run(from, step, t, seed) ==
    /\ pc = "idle" /\ calls < scene.calls /\ validate(graph)
    /\ t # from /\ ckpt[t] = Nothing /\ step \in DOMAIN ckpt[from]
    /\ LET place == decode_place(ckpt[from][step], step)
           p == decode_progress(ckpt[from][step].parallel)
           c == [decode_state(ckpt[from][step]) EXCEPT
                     !.values = Over(seed, load_scoped_state(@)), !.written = SeedKeys(seed)]
       IN  /\ write_checkpoint(t, place, c, p)
           /\ IF place.status \in {"Completed", "Interrupted"} THEN Return
              ELSE Begin(t, place, c, p) /\ answers' = {}
    /\ calls' = calls + 1
    /\ UNCHANGED <<scene, store, faults, promised>>

\* A graph that validate refuses.
Refused ==
    /\ pc = "idle" /\ ~validate(graph)
    /\ UNCHANGED vars

\* The process dies.  The memory store goes back to the content of one moment:
\* the SQLite store writes behind, the in-memory store is empty again (KvStore).
\* The checkpoints go back with it when they are kept in it, and stay when they
\* have a database of their own.
Crash ==
    /\ Fault
    /\ Return
    /\ \E s \in earlier :
        /\ store' = s.store /\ promised' = s.promised
        /\ ckpt' \in {s.ckpt, ckpt}
    /\ UNCHANGED <<scene, calls>>

\* What a later crash may go back to; none, when no fault is left.
Remembers ==
    earlier' = IF faults' = MaxFaults THEN {} ELSE earlier \cup {Kept(store', promised', ckpt')}

-----------------------------------------------------------------------------
(* drive: one node of the top-level chain *)

\* A node that is not a Parallel node runs; then its writes are drained.
DriveNode ==
    /\ pc = "drive" /\ find_node(run.next).kind # "Parallel"
    /\ \E o \in run_node(find_node(run.next), state, Nothing) :
        IF o.res = "failed"
        THEN Fault /\ finish("Failed", o.state)
        ELSE /\ IF o.res = "interrupted" THEN Fault ELSE UNCHANGED faults
             /\ state' = [o.state EXCEPT !.written = << >>]
             /\ todo' = ScopedOf(o.state.written)
             /\ result' = [node |-> run.next, res |-> o.res, to |-> o.to]
             /\ pc' = "drain"
             /\ UNCHANGED <<ckpt, thread, run, index, progress, br, answers>>
    /\ UNCHANGED <<scene, store, calls, promised>>

Owner(k) == CHOOSE b \in DOMAIN br : k \in br[b].writes
Value(k) == IF pc = "drain" THEN state.values[k] ELSE br[Owner(k)].state.values[k]

\* persist_scoped_value: the value, and then the index if the key is new; either
\* may fail, which ends the call.  The join inserts the value before.
PutValue ==
    /\ pc \in {"drain", "merge"} /\ todo # << >> /\ Head(todo) \in ScopedKeys
    /\ LET k == Head(todo)
           v == Value(k)
           c == IF pc = "merge" THEN [state EXCEPT !.values = Put(@, k, v)] ELSE state
       IN  \/ /\ store' = [store EXCEPT !.values = Put(@, k, v)]
              /\ state' = c
              /\ IF k \in index
                 THEN /\ todo' = Tail(todo) /\ promised' = Put(promised, k, v)
                      /\ UNCHANGED <<pc, index>>
                 ELSE /\ pc' = IF pc = "drain" THEN "drain index" ELSE "merge index"
                      /\ index' = index \cup {k}
                      /\ UNCHANGED <<todo, promised>>
              /\ UNCHANGED <<ckpt, faults, thread, run, result, progress, br, answers>>
           \/ /\ Fault /\ finish("Failed", c)
              /\ UNCHANGED <<store, promised>>
    /\ UNCHANGED <<scene, calls>>

PutIndex ==
    /\ pc \in {"drain index", "merge index"}
    /\ \/ /\ store' = [store EXCEPT !.index = index]
          /\ promised' = Put(promised, Head(todo), store.values[Head(todo)])
          /\ todo' = Tail(todo)
          /\ pc' = IF pc = "drain index" THEN "drain" ELSE "merge"
          /\ UNCHANGED <<ckpt, faults, thread, run, state, index, result, progress, br, answers>>
       \/ /\ Fault /\ finish("Failed", state)
          /\ UNCHANGED <<store, promised>>
    /\ UNCHANGED <<scene, calls>>

\* The seeds are drained: the first node.
DrainedSeeds ==
    /\ pc = "drain" /\ todo = << >> /\ result.res = "seeded"
    /\ pc' = "drive"
    /\ UNCHANGED <<scene, store, ckpt, callVars, calls, faults, promised>>

\* The node had paused: next_node stays.
DrainedPause ==
    /\ pc = "drain" /\ todo = << >> /\ result.res = "interrupted"
    /\ finish("Interrupted", state)
    /\ UNCHANGED <<scene, store, calls, faults, promised>>

\* The node is complete: the checkpoint of the step, or the end.
Advance ==
    /\ pc = "drain" /\ todo = << >> /\ result.res = "ok"
    /\ \E next \in resolve_next(find_node(result.node), result.to) :
        LET c == Counted(find_node(result.node), state, result.to, next)
            place == [run EXCEPT !.step = @ + 1, !.next = IF next = End THEN None ELSE next,
                                !.status = IF next = End THEN "Completed" ELSE @]
        IN  /\ write_checkpoint(thread, place, c, progress)
            /\ IF next = End THEN Return
               ELSE /\ pc' = "drive" /\ run' = place /\ state' = c
                    /\ UNCHANGED <<thread, index, todo, result, progress, br, answers>>
    /\ UNCHANGED <<scene, store, calls, faults, promised>>

Routed(name) == \E i \in DOMAIN graph.edges : graph.edges[i].from = name

\* The router fails: the node is not complete, but what it did stays.
RouterFails ==
    /\ pc = "drain" /\ todo = << >> /\ result.res = "ok"
    /\ Routed(result.node) /\ result.to = None
    /\ Fault /\ finish("Failed", state)
    /\ UNCHANGED <<scene, store, calls, promised>>

-----------------------------------------------------------------------------
(* Fan-outs *)

\* BranchProgress; history: the values the branch wrote last.
FreshRec(b) ==
    [status |-> "Pending", next |-> b, values |-> Nothing, erased |-> {}, writes |-> {},
     hist |-> Nothing, ran |-> 0, last |-> Nothing]

\* The values of a branch: those of the chain with the branch's changes.
Restored(rec) == Without(Over(rec.values, state.values), rec.erased)

\* The Branch object of a record.
BranchOf(b, rec) ==
    LET answered == rec.status = "Interrupted" /\ b \in answers
        values == IF answered THEN Put(Restored(rec), HumanInput, 1) ELSE Restored(rec)
    IN  [st |-> IF rec.status = "Done" THEN "done"
                ELSE IF rec.status = "Interrupted" /\ ~answered THEN "paused" ELSE "run",
         next |-> rec.next, writes |-> rec.writes, last |-> rec.last,
         state |-> [Blank EXCEPT !.values = values, !.hist = rec.hist, !.ran = rec.ran]]

\* run_parallel_node takes up the progress of the fan-out or begins it.
DriveFan ==
    /\ pc = "drive" /\ find_node(run.next).kind = "Parallel"
    /\ LET entries == ToSet(find_node(run.next).branches)
           fresh == IF progress = None THEN TRUE
                    ELSE progress.node # run.next \/ DOMAIN progress.recs # entries
           p == IF fresh THEN [node |-> run.next, recs |-> [b \in entries |-> FreshRec(b)]] ELSE progress
       IN  /\ progress' = p
           /\ br' = [b \in entries |-> BranchOf(b, p.recs[b])]
    /\ pc' = "fan"
    /\ UNCHANGED <<scene, store, ckpt, thread, run, state, index, todo, result, answers, calls, faults, promised>>

\* A branch's values relative to the fan-out's input, without temp: keys.
Diff(values) ==
    [values |-> Restrict(values, {k \in DOMAIN values \ TempKeys :
                                    k \notin DOMAIN state.values \/ state.values[k] # values[k]}),
     erased |-> DOMAIN state.values \ (DOMAIN values \cup TempKeys)]

\* save_branch: a failure keeps values and conversations as of the last node.
save_branch(b, new, status) ==
    LET old == progress.recs[b]
        diff == Diff(new.state.values)
        rec == IF status = "Failed" THEN [old EXCEPT !.status = status, !.next = new.next]
               ELSE [status |-> status, next |-> new.next, values |-> diff.values,
                     erased |-> diff.erased, writes |-> new.writes, hist |-> new.state.hist,
                     ran |-> new.state.ran, last |-> new.last]
        p == [progress EXCEPT !.recs[b] = rec]
    IN  /\ progress' = p
        /\ br' = [br EXCEPT ![b] = new]
        /\ write_checkpoint(thread, run, state, p)

\* The branch after its node, whose writes are drained into its own list.
Drained(b, o) ==
    LET written == ToSet(o.state.written) IN
    [br[b] EXCEPT !.state = [o.state EXCEPT !.written = << >>],
                  !.writes = @ \cup written,
                  !.last = Over([k \in written |-> o.state.values[k]], @)]

\* run_branch: one node of a branch, and its record.
BranchNode(b) ==
    /\ pc = "fan" /\ br[b].st = "run"
    /\ LET n == find_node(br[b].next) IN
       \E o \in run_node(n, br[b].state, state.hist) :
        \/ /\ o.res = "failed" /\ Fault
           /\ save_branch(b, [br[b] EXCEPT !.st = "failed"], "Failed")
        \/ /\ o.res = "interrupted" /\ Fault
           /\ save_branch(b, [Drained(b, o) EXCEPT !.st = "paused"], "Interrupted")
        \/ /\ o.res = "ok" /\ Routed(n.name) /\ o.to = None /\ Fault
           /\ save_branch(b, [br[b] EXCEPT !.st = "failed"], "Failed")
        \/ /\ o.res = "ok" /\ UNCHANGED faults
           /\ \E next \in resolve_next(n, o.to) :
                LET ends == next \in {End, run.next}
                    new == [Drained(b, o) EXCEPT !.next = next, !.state = Counted(n, @, o.to, next),
                                                 !.st = IF ends THEN "done" ELSE "run"]
                IN  save_branch(b, new, IF ends THEN "Done" ELSE "Running")
    /\ UNCHANGED <<scene, store, pc, thread, run, state, index, todo, result, answers, calls, promised>>

Stopped(S) == pc = "fan" /\ \A b \in DOMAIN br : br[b].st \in S

FanFails ==
    /\ Stopped({"done", "paused", "failed"}) /\ \E b \in DOMAIN br : br[b].st = "failed"
    /\ finish("Failed", state)
    /\ UNCHANGED <<scene, store, calls, faults, promised>>

FanPauses ==
    /\ Stopped({"done", "paused"}) /\ \E b \in DOMAIN br : br[b].st = "paused"
    /\ finish("Interrupted", state)
    /\ UNCHANGED <<scene, store, calls, faults, promised>>

\* Two branches wrote one key or used one conversation.
Conflict ==
    \E b, c \in DOMAIN br :
        /\ b # c
        /\ \/ br[b].writes \cap br[c].writes # {}
           \/ DOMAIN br[b].state.hist \cap DOMAIN br[c].state.hist # {}

FanConflict ==
    /\ Stopped({"done"}) /\ Conflict
    /\ finish("Failed", state)
    /\ UNCHANGED <<scene, store, calls, faults, promised>>

\* The join: each key that a branch wrote and still has, in their order.
Join ==
    /\ Stopped({"done"}) /\ ~Conflict
    /\ todo' = SelectSeq(KeyOrder, LAMBDA k : \E b \in DOMAIN br :
                                        k \in br[b].writes /\ has_state(br[b].state, k))
    /\ pc' = "merge"
    /\ UNCHANGED <<scene, store, ckpt, thread, run, state, index, result, progress, br, answers, calls, faults, promised>>

MergeKey ==
    /\ pc = "merge" /\ todo # << >> /\ Head(todo) \notin ScopedKeys
    /\ state' = [state EXCEPT !.values = Put(@, Head(todo), Value(Head(todo)))]
    /\ todo' = Tail(todo)
    /\ UNCHANGED <<scene, store, ckpt, pc, thread, run, index, result, progress, br, answers, calls, faults, promised>>

\* All merged: the conversations follow, and the progress is dropped.
Joined ==
    /\ pc = "merge" /\ todo = << >>
    /\ state' = [state EXCEPT !.hist =
                   [h \in DOMAIN @ \cup UNION {DOMAIN br[b].state.hist : b \in DOMAIN br} |->
                      IF \E b \in DOMAIN br : h \in DOMAIN br[b].state.hist
                      THEN br[CHOOSE b \in DOMAIN br : h \in DOMAIN br[b].state.hist].state.hist[h]
                      ELSE @[h]]]
    /\ progress' = None /\ br' = Nothing /\ answers' = {}
    /\ result' = [node |-> run.next, res |-> "ok", to |-> None]
    /\ pc' = "drain"
    /\ UNCHANGED <<scene, store, ckpt, thread, run, index, todo, calls, faults, promised>>

-----------------------------------------------------------------------------
Steps ==
    \/ \E t \in Threads :
        \/ \E seed \in scene.seeds : run_graph(t, seed)
        \/ \E S \in SUBSET Names(graph) : resume_graph(t, S)
        \/ \E from \in Threads : \E step \in DOMAIN ckpt[from] :
            \E seed \in scene.seeds : fork_graph_run(from, step, t, seed)
    \/ DriveNode \/ PutValue \/ PutIndex \/ DrainedSeeds \/ DrainedPause \/ Advance \/ RouterFails
    \/ DriveFan \/ FanFails \/ FanPauses \/ FanConflict \/ Join \/ MergeKey \/ Joined
    \/ \E b \in DOMAIN br : BranchNode(b)

Next ==
    \/ Steps /\ Remembers
    \/ Crash /\ earlier' = IF faults' = MaxFaults THEN {} ELSE {Kept(store', promised', ckpt')}
    \/ Refused

Spec == Init /\ [][Next]_vars

-----------------------------------------------------------------------------
(* Properties *)

\* "They are loaded at the start of every run and are visible to every thread"
\* (graph.md:198): whatever fails, a user: or app: value that was persisted
\* stays listed with its value, and a node of any thread that runs next sees
\* that value and no older one, also none that a checkpoint has; a crash takes
\* back the values the store had not written yet, and nothing before them
\* (persist_scoped_value, load_scoped_state).
ScopedVisible ==
    \A k \in DOMAIN promised :
        /\ k \in store.index /\ store.values[k] = promised[k]
        /\ pc = "drive" => has_state(state, k) /\ state.values[k] = promised[k]

\* "At the join, every key a branch wrote is merged back" (graph.md:203), with
\* the value the branch wrote last, over pauses, failures and restarts.
JoinMergesWrites ==
    pc = "merge" =>
        \A b \in DOMAIN br : \A k \in br[b].writes \ TempKeys :
            has_state(br[b].state, k) => br[Owner(k)].state.values[k] = br[b].last[k]

\* The same, but for a key that the branch left as it was in the fan-out's
\* input: its record has no value for it, and the input may be another one by
\* now, since a call loads the scoped keys and a fork adds its seeds.
JoinExact ==
    pc = "merge" =>
        \A b \in DOMAIN br : \A k \in br[b].writes \ TempKeys :
            \/ ~has_state(br[b].state, k)
            \/ br[Owner(k)].state.values[k] = br[b].last[k]
            \/ k \notin DOMAIN progress.recs[b].values

\* The count a loop keeps in the state is the number of iterations that were
\* completed since the loop was entered, in the chain of the run or of a
\* branch, over pauses, crashes, retries, forks and new runs: a body is never
\* run too often or too seldom (run_loop_node).  A router of the loop node that
\* fails is another matter: the count is erased by then.
CountExact(c, next) ==
    next # None /\ next # End =>
        \A i \in DOMAIN graph.nodes :
            LET n == graph.nodes[i] IN
            n.kind = "Loop" /\ (next = n.name \/ next = n.body) /\ ~Routed(n.name) =>
                (IF has_state(c, n.name) THEN c.values[n.name] ELSE 0) =
                    c.ran + IF next = n.body THEN 1 ELSE 0

LoopExact ==
    /\ pc = "drive" => CountExact(state, run.next)
    /\ pc = "fan" => \A b \in DOMAIN br : br[b].st = "run" => CountExact(br[b].state, br[b].next)

\* What a checkpoint keeps is what a call needs to go on: no temp: key, and of
\* every branch that has not failed the changes that rebuild its values from
\* the input of the fan-out (save_branch, run_parallel_node).
RecordsExact ==
    /\ \A t \in Threads : \A step \in DOMAIN ckpt[t] :
        LET ck == ckpt[t][step] IN
        /\ DOMAIN ck.values \cap TempKeys = {}
        /\ ck.parallel # None =>
            \A b \in DOMAIN ck.parallel.recs : DOMAIN ck.parallel.recs[b].values \cap TempKeys = {}
    /\ pc = "fan" =>
        \A b \in DOMAIN br :
            progress.recs[b].status \in {"Running", "Done"} /\ br[b].st # "failed" =>
                /\ clear_temp(Restored(progress.recs[b])) = clear_temp(br[b].state.values)
                /\ progress.recs[b].hist = br[b].state.hist
=============================================================================
