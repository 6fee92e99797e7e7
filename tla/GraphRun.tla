------------------------------ MODULE GraphRun ------------------------------
(***************************************************************************)
(* run_graph and resume_graph on one thread id                             *)
(* (src/src/core/graph/graph_executor.cpp): the chain of nodes that drive  *)
(* runs, the fan-out of a top-level Parallel node with its per-branch      *)
(* progress, the three durability modes, and what a crash or a failing     *)
(* checkpointer leaves for the next call.                                  *)
(*                                                                         *)
(* A state value is abstracted to the nodes whose effects it carries: the  *)
(* trace of completed nodes.  A conversation is abstracted to whether its  *)
(* last assistant message has unanswered tool calls ("open").  The Async   *)
(* writer is the FIFO that CheckpointQueue specifies.                      *)
(***************************************************************************)
EXTENDS Naturals, Sequences, FiniteSets

CONSTANTS
    Nodes, Entry, End,
    Edges,      \* [Nodes -> possible next nodes, End included]
    AgentNodes, \* nodes that may pause before tool calls; the others may interrupt
    Fan,        \* the Parallel node
    Branches,
    Chain,      \* [Branches -> sequence of the branch's nodes]
    Limit,      \* checkpoints the Async writer can have outstanding
    MaxStart,   \* bound on the nodes completed before a run_graph
    MaxRouter,  \* bound on the router failures of a thread
    Modes,      \* the durabilities the callers use
    Scenarios,  \* the sets of Mishaps that the environment may have in store
    None        \* no node, checkpoint, progress or durability

Mishaps == {"fail", "router", "put", "crash", "noanswer"}

Durability == {"Exit", "Async", "Sync"}

ASSUME GraphTyped ==
    /\ Entry \in Nodes /\ End \notin Nodes /\ Fan \in Nodes /\ AgentNodes \subseteq Nodes
    /\ Edges \in [Nodes -> SUBSET (Nodes \cup {End})]
    /\ Fan \notin AgentNodes
    /\ \A b \in Branches : Chain[b] \in Seq(Nodes) /\ Chain[b] # << >>
    /\ Limit \in Nat \ {0} /\ MaxStart \in Nat /\ MaxRouter \in Nat
    /\ Scenarios \subseteq SUBSET Mishaps
    /\ Modes \subseteq Durability

VARIABLES
    disk,       \* what get_latest returns: the thread's checkpoint of the highest step, or None
    queue,      \* checkpoints handed to the Async writer, oldest first
    pc,         \* where the call is; "idle" between calls
    dur,        \* run.durability of the call, None between calls
    run,        \* the GraphRun of the call, as a checkpoint of it would be now
    answered,   \* paused branches (or Top) this call has an answer for
    br,         \* the fan-out's Branch objects
    happens,    \* the mishaps of this behaviour, fixed at the start
    settled,    \* history: the checkpoint the last returning call left, or None
    spoiled     \* history: a prompt was added to an open conversation

vars == <<disk, queue, pc, dur, run, answered, br, happens, settled, spoiled>>

Top == "top"

\* The checkpoint of a thread that has none.
Blank == [step |-> 0, next |-> Entry, status |-> "Pending", trace |-> << >>,
          from |-> 0, open |-> {}, pending |-> FALSE, progress |-> None]

Latest == IF disk = None THEN Blank ELSE disk

Idle == [st |-> "none", at |-> 1, eff |-> << >>, open |-> FALSE, resume |-> FALSE]

Init ==
    /\ disk = None
    /\ queue = << >>
    /\ pc = "idle" /\ dur = None /\ run = Blank
    /\ answered = {}
    /\ br = [b \in Branches |-> Idle]
    /\ happens \in Scenarios
    /\ settled = None /\ spoiled = FALSE

-----------------------------------------------------------------------------
(* The calls *)

\* Mutant of answer_abandoned_calls: the conversations are left as they are.
KeepAbandoned(open) == open

\* Every unanswered tool call of every conversation gets an error answer.
answer_abandoned_calls(open) == {}

\* run_graph: values and histories of the latest checkpoint, with abandoned
\* tool calls answered; the run starts at the entry, without branch progress.
run_graph(d) ==
    /\ pc = "idle" /\ Latest.step < MaxStart
    /\ run' = [Latest EXCEPT !.next = Entry, !.status = "Running",
                             !.open = answer_abandoned_calls(@),
                             !.from = Len(Latest.trace), !.pending = FALSE,
                             !.progress = None]
    /\ pc' = "drive" /\ dur' = d /\ answered' = {}
    /\ settled' = None
    /\ UNCHANGED <<disk, queue, br, spoiled>>

Paused(ck) ==
    IF ck.progress # None
    THEN {b \in Branches : ck.progress[b].st = "Interrupted"}
    ELSE IF ck.status = "Interrupted" THEN {Top} ELSE {}

\* The answers resume_graph distributes: one for every paused node, but none
\* for the branches of a failure; or, with the span overload, a list.
Answers(ck) ==
    {IF ck.progress = None THEN {Top}
     ELSE IF ck.status = "Interrupted" THEN Paused(ck) ELSE {}}
    \cup {S \in SUBSET Paused(ck) : S # {} \/ "noanswer" \in happens}

\* Mutant of resume_graph: like run_graph, it starts at the entry.
ResumeAtEntry(d, S) ==
    /\ pc = "idle"
    /\ disk # None /\ Latest.status # "Completed"
    /\ S \in Answers(Latest)
    /\ run' = [Latest EXCEPT !.next = Entry, !.status = "Running", !.pending = FALSE]
    /\ answered' = IF Latest.pending THEN S ELSE S \ {Top}
    /\ pc' = "drive" /\ dur' = d
    /\ settled' = None
    /\ UNCHANGED <<disk, queue, br, spoiled>>

\* resume_graph: the latest checkpoint as it is, with the caller's answers.
resume_graph(d, S) ==
    /\ pc = "idle"
    /\ disk # None /\ Latest.status # "Completed"
    /\ S \in Answers(Latest)
    /\ run' = [Latest EXCEPT !.status = "Running", !.pending = FALSE]
    /\ answered' = IF Latest.pending THEN S ELSE S \ {Top}
    /\ pc' = "drive" /\ dur' = d
    /\ settled' = None
    /\ UNCHANGED <<disk, queue, br, spoiled>>

\* Nothing to resume: no checkpoint (an error) or a completed run (ok).
resume_returns ==
    /\ pc = "idle"
    /\ disk = None \/ Latest.status = "Completed"
    /\ UNCHANGED vars

-----------------------------------------------------------------------------
(* Checkpoints *)

\* put: the checkpoint of a step replaces an earlier one of the same step, and
\* get_latest returns the highest.
Put(ck) == disk' = IF ck.step < Latest.step THEN disk ELSE ck

\* write_checkpoint through the Async writer.
Enqueue(ck) ==
    /\ Len(queue) < Limit
    /\ queue' = Append(queue, ck)

\* What write_checkpoint does in the middle of a call.  ok: what it returns.
Write(ck, ok) ==
    \/ dur = "Exit" /\ ok /\ UNCHANGED <<disk, queue>>
    \/ dur = "Async" /\ ok /\ Enqueue(ck) /\ UNCHANGED disk
    \/ dur = "Sync" /\ ok /\ Put(ck) /\ UNCHANGED queue
    \/ dur = "Sync" /\ ~ok /\ "put" \in happens /\ UNCHANGED <<disk, queue>>

\* The writer thread stores the oldest checkpoint, or fails to.
WriterPut ==
    /\ queue # << >>
    /\ queue' = Tail(queue)
    /\ \/ Put(Head(queue))
       \/ "put" \in happens /\ UNCHANGED disk
    /\ UNCHANGED <<pc, dur, run, answered, br, settled, spoiled>>

\* After a node: its checkpoint, then the next node.
SaveStep ==
    /\ pc = "save"
    /\ \E ok \in BOOLEAN :
        /\ Write(run, ok)
        /\ pc' = IF ok THEN "drive" ELSE "finish"
        /\ run' = IF ok THEN run ELSE [run EXCEPT !.status = "Failed"]
    /\ UNCHANGED <<dur, answered, br, settled, spoiled>>

\* The call is over; the next one starts from what is stored.
Leave ==
    /\ pc' = "idle" /\ dur' = None /\ run' = Blank /\ answered' = {}
    /\ br' = [b \in Branches |-> Idle]

\* Mutant of finish: the final checkpoint does not wait for the queued ones.
FinishUnflushed ==
    /\ pc = "finish"
    /\ \/ Put(run) /\ settled' = run
       \/ "put" \in happens /\ settled' = None /\ UNCHANGED disk
    /\ Leave
    /\ UNCHANGED <<queue, spoiled>>

\* finish: flush the writer, write the final checkpoint, return.
finish ==
    /\ pc = "finish"
    /\ queue = << >>
    /\ \/ Put(run) /\ settled' = run
       \/ "put" \in happens /\ settled' = None /\ UNCHANGED disk
    /\ Leave
    /\ UNCHANGED <<queue, spoiled>>

\* The process dies: memory and the queue are gone.
Crash ==
    /\ "crash" \in happens
    /\ pc # "idle"
    /\ queue' = << >>
    /\ Leave
    /\ UNCHANGED <<disk, settled, spoiled>>

-----------------------------------------------------------------------------
(* drive: one node of the chain *)

\* The turn of an Agent node answers the open tool calls when the call brought
\* answers, and otherwise adds the node's prompt to the conversation.
PromptsOpen(n) == n \in AgentNodes /\ n \in run.open /\ Top \notin answered

\* The node is done: where the run is after it.
Advanced(n, next) ==
    [run EXCEPT !.trace = Append(@, n), !.step = @ + 1, !.open = @ \ {n},
                !.progress = None,
                !.next = IF next = End THEN None ELSE next,
                !.status = IF next = End THEN "Completed" ELSE @]

Advance(n, next) ==
    /\ next \in Edges[n]
    /\ run' = Advanced(n, next)
    /\ pc' = IF next = End THEN "finish" ELSE "save"
    /\ UNCHANGED <<disk, queue, dur, settled>>

NodeCompletes(n, next) ==
    /\ pc = "drive" /\ run.next = n /\ n # Fan
    /\ Advance(n, next)
    /\ answered' = answered \ {Top}
    /\ spoiled' = (spoiled \/ PromptsOpen(n))
    /\ UNCHANGED br

\* finish with an error.
Fails(last) ==
    /\ run' = [last EXCEPT !.status = "Failed"]
    /\ pc' = "finish"
    /\ UNCHANGED <<disk, queue, dur, settled>>

\* The node fails: before its turn began (the model cannot be loaded, the
\* context provider fails, max_steps), in the turn, or at the tool-round limit,
\* which leaves the last round of tool calls unanswered.
NodeFails(n) ==
    /\ pc = "drive" /\ run.next = n /\ n # Fan
    /\ "fail" \in happens
    /\ \/ Fails(run) /\ UNCHANGED spoiled
       \/ /\ n \in AgentNodes
          /\ \E o \in {run.open \ {n}, run.open \cup {n}} : Fails([run EXCEPT !.open = o])
          /\ spoiled' = (spoiled \/ PromptsOpen(n))
    /\ answered' = answered \ {Top}
    /\ UNCHANGED br

\* A node too many in the trace is a router failure of this thread.
RouterMayFail == "router" \in happens /\ Len(run.trace) < run.step + MaxRouter

\* The node completes and its router, or the store of a user: key it wrote,
\* fails: next_node and step stay.
RouterFails(n) ==
    /\ pc = "drive" /\ run.next = n /\ n # Fan
    /\ RouterMayFail
    /\ Fails([run EXCEPT !.trace = Append(@, n), !.open = @ \ {n}])
    /\ answered' = answered \ {Top}
    /\ spoiled' = (spoiled \/ PromptsOpen(n))
    /\ UNCHANGED br

\* The node pauses: before tool calls (Agent) or with request_interrupt.
NodeInterrupts(n) ==
    /\ pc = "drive" /\ run.next = n /\ n # Fan
    /\ run' = [run EXCEPT !.status = "Interrupted",
                          !.pending = n \in AgentNodes,
                          !.open = IF n \in AgentNodes THEN @ \cup {n} ELSE @]
    /\ pc' = "finish"
    /\ answered' = answered \ {Top}
    /\ spoiled' = (spoiled \/ PromptsOpen(n))
    /\ UNCHANGED <<disk, queue, dur, br, settled>>

-----------------------------------------------------------------------------
(* run_parallel_node and run_branch *)

FreshRecord == [st |-> "Running", at |-> 1, eff |-> << >>, open |-> FALSE, pending |-> FALSE]

\* The Branch made from a record: done, still paused, or to run, with the
\* answer to its pending tool calls.
BranchFrom(b, rec) ==
    [st |-> IF rec.st = "Done" THEN "done"
            ELSE IF rec.st = "Interrupted" /\ b \notin answered THEN "paused"
            ELSE "run",
     at |-> rec.at, eff |-> rec.eff, open |-> rec.open,
     resume |-> rec.st = "Interrupted" /\ rec.pending]

FanOut ==
    /\ pc = "drive" /\ run.next = Fan
    /\ LET progress == IF run.progress = None THEN [b \in Branches |-> FreshRecord]
                       ELSE run.progress
       IN  /\ run' = [run EXCEPT !.progress = progress]
           /\ br' = [b \in Branches |-> BranchFrom(b, progress[b])]
    /\ pc' = "fan"
    /\ answered' = answered \ {Top}
    /\ UNCHANGED <<disk, queue, dur, settled, spoiled>>

NodeOf(b) == Chain[b][br[b].at]
AtJoin(b) == br[b].at > Len(Chain[b])

\* Branch b runs its next node, whose turn began or not, with this outcome.
Step(b, turn, outcome) ==
    /\ pc = "fan" /\ br[b].st = "run" /\ ~AtJoin(b)
    /\ br' = [br EXCEPT ![b] = outcome]
    /\ spoiled' = (spoiled \/ (/\ turn /\ NodeOf(b) \in AgentNodes
                               /\ br[b].open /\ ~br[b].resume))
    /\ UNCHANGED <<disk, queue, pc, dur, run, answered, settled>>

BranchNodeCompletes(b) ==
    Step(b, TRUE, [br[b] EXCEPT !.st = "save", !.eff = Append(@, NodeOf(b)), !.at = @ + 1,
                                !.open = FALSE, !.resume = FALSE])

BranchNodeInterrupts(b) ==
    Step(b, TRUE, [br[b] EXCEPT !.st = "pause", !.resume = FALSE,
                                !.open = NodeOf(b) \in AgentNodes])

BranchNodeFails(b) ==
    /\ "fail" \in happens
    /\ \E turn \in BOOLEAN : Step(b, turn, [br[b] EXCEPT !.st = "fail", !.resume = FALSE])

\* As at the top level; the branch's own copy of the state keeps the effects.
BranchRouterFails(b) ==
    /\ "router" \in happens
    /\ Step(b, TRUE, [br[b] EXCEPT !.st = "fail", !.resume = FALSE,
                                   !.eff = Append(@, NodeOf(b))])

\* A branch that a failed write stopped at the join is done without a node.
BranchAtJoin(b) ==
    /\ pc = "fan" /\ br[b].st = "run" /\ AtJoin(b)
    /\ br' = [br EXCEPT ![b].st = "done"]
    /\ UNCHANGED <<disk, queue, pc, dur, run, answered, settled, spoiled>>

\* The record save_branch makes.  A failure keeps values and histories as of
\* the last completed node.
RecordOf(b) ==
    IF br[b].st = "fail"
    THEN [run.progress[b] EXCEPT !.st = "Failed", !.at = br[b].at]
    ELSE [st |-> IF br[b].st = "pause" THEN "Interrupted"
                 ELSE IF AtJoin(b) THEN "Done" ELSE "Running",
          at |-> br[b].at, eff |-> br[b].eff, open |-> br[b].open,
          pending |-> br[b].st = "pause" /\ br[b].open]

\* What the branch does once its record is saved, or could not be.
AfterSave(b, ok) ==
    CASE br[b].st = "fail" -> "failed"
      [] br[b].st = "pause" -> IF ok THEN "paused" ELSE "failed"
      [] br[b].st = "save" -> IF ~ok THEN "fail" ELSE IF AtJoin(b) THEN "done" ELSE "run"

\* save_branch, under progress_mutex.
save_branch(b) ==
    /\ pc = "fan" /\ br[b].st \in {"save", "pause", "fail"}
    /\ \E ok \in BOOLEAN :
        LET saved == [run EXCEPT !.progress[b] = RecordOf(b)] IN
        /\ run' = saved
        /\ Write(saved, ok)
        /\ br' = [br EXCEPT ![b].st = AfterSave(b, ok)]
    /\ UNCHANGED <<pc, dur, answered, settled, spoiled>>

LeaveFan ==
    /\ br' = [b \in Branches |-> Idle]
    /\ answered' = {}
    /\ UNCHANGED spoiled

Stopped(S) == pc = "fan" /\ \A b \in Branches : br[b].st \in S

\* Every branch has stopped and one of them failed: so does the node.
FanFails ==
    /\ Stopped({"done", "paused", "failed"})
    /\ \E b \in Branches : br[b].st = "failed"
    /\ Fails(run)
    /\ LeaveFan

FanInterrupts ==
    /\ Stopped({"done", "paused"})
    /\ \E b \in Branches : br[b].st = "paused"
    /\ run' = [run EXCEPT !.status = "Interrupted",
                          !.pending = \E b \in Branches : run.progress[b].pending]
    /\ pc' = "finish"
    /\ LeaveFan
    /\ UNCHANGED <<disk, queue, dur, settled>>

\* The join: the branches' effects are merged, and the run goes on.
FanJoins(next) ==
    /\ Stopped({"done"})
    /\ Advance(Fan, next)
    /\ LeaveFan

\* Two branches wrote one key or used one history.
JoinConflict ==
    /\ Stopped({"done"})
    /\ "fail" \in happens
    /\ Fails(run)
    /\ LeaveFan

FanRouterFails ==
    /\ Stopped({"done"})
    /\ RouterMayFail
    /\ Fails([run EXCEPT !.trace = Append(@, Fan), !.progress = None])
    /\ LeaveFan

-----------------------------------------------------------------------------
BranchStep(b) ==
    \/ BranchNodeCompletes(b) \/ BranchNodeInterrupts(b) \/ BranchNodeFails(b)
    \/ BranchRouterFails(b) \/ BranchAtJoin(b) \/ save_branch(b)

\* A step of the call under way.
Drive ==
    \/ \E n \in Nodes :
        \/ \E next \in Nodes \cup {End} : NodeCompletes(n, next)
        \/ NodeFails(n) \/ RouterFails(n) \/ NodeInterrupts(n)
    \/ FanOut \/ FanFails \/ FanInterrupts \/ JoinConflict \/ FanRouterFails
    \/ \E next \in Nodes \cup {End} : FanJoins(next)
    \/ SaveStep \/ finish

Next ==
    /\ \/ \E d \in Modes :
            run_graph(d) \/ \E S \in SUBSET (Branches \cup {Top}) : resume_graph(d, S)
       \/ resume_returns
       \/ Drive
       \/ \E b \in Branches : BranchStep(b)
       \/ WriterPut
       \/ Crash
    /\ UNCHANGED happens

Spec == Init /\ [][Next]_vars

-----------------------------------------------------------------------------
(* Properties *)

Status == {"Pending", "Running", "Completed", "Interrupted", "Failed"}

Record == [st : {"Running", "Done", "Interrupted", "Failed"}, at : Nat \ {0},
           eff : Seq(Nodes), open : BOOLEAN, pending : BOOLEAN]

Checkpoint ==
    [step : Nat, next : Nodes \cup {None}, status : Status, trace : Seq(Nodes),
     from : Nat, open : SUBSET AgentNodes, pending : BOOLEAN,
     progress : [Branches -> Record] \cup {None}]

TypeOK ==
    /\ disk \in Checkpoint \cup {None}
    /\ queue \in Seq(Checkpoint) /\ Len(queue) <= Limit
    /\ spoiled \in BOOLEAN
    /\ pc \in {"idle", "drive", "save", "fan", "finish"}
    /\ dur \in Durability \cup {None}
    /\ run \in Checkpoint
    /\ answered \subseteq Branches \cup {Top}
    /\ br \in [Branches -> [st : {"none", "run", "save", "pause", "fail", "done", "paused", "failed"},
                            at : Nat \ {0}, eff : Seq(Nodes), open : BOOLEAN, resume : BOOLEAN]]
    /\ happens \in Scenarios
    /\ settled \in Checkpoint \cup {None}

\* "The checkpoint at step N holds the state after N nodes and names the node
\* that runs next" (graph.md:323), over crashes, restarts and failed writes, as
\* long as every router finds a next node.
StepCountsNodes ==
    LET n == Len(Latest.trace) IN
    "router" \notin happens =>
    /\ Latest.step = n
    /\ Latest.status # "Completed" =>
          IF n = Latest.from THEN Latest.next = Entry ELSE Latest.next \in Edges[Latest.trace[n]]

\* When a call has returned, whatever it returned, the thread's latest
\* checkpoint is the one its finish wrote: nothing that was queued before
\* arrives after it.
ReturnedIsStored == pc = "idle" /\ settled # None => Latest = settled

\* The crash window (graph.md:308): what a crash would lose now.  Sync: the
\* last node of each chain.  Async without write errors: what the writer holds
\* and the last node.
StoredEff(b) ==
    IF Latest.step = run.step /\ Latest.progress # None THEN Latest.progress[b].eff ELSE << >>

LossBounded ==
    pc \in {"drive", "save", "fan"} =>
        /\ dur = "Sync" =>
              /\ Len(run.trace) <= Len(Latest.trace) + 1
              /\ pc = "fan" /\ Latest.from = run.from =>
                    \A b \in Branches : Len(br[b].eff) <= Len(StoredEff(b)) + 1
        /\ dur = "Async" /\ "put" \notin happens =>
              Len(run.trace) <= Len(Latest.trace) + Len(queue) + 1

\* Branch progress is exact, in memory, in the queue and on disk: a record
\* holds the effects of the branch's first nodes, each once, and names the
\* node after them; so a branch that reaches the join ran all of its nodes.
ProgressExact ==
    \A ck \in {run, Latest} \cup {queue[i] : i \in DOMAIN queue} :
        ck.progress # None =>
            \A b \in Branches :
                LET rec == ck.progress[b] IN
                /\ rec.at <= Len(Chain[b]) + 1
                /\ rec.eff = SubSeq(Chain[b], 1, rec.at - 1)
                /\ rec.st = "Done" => rec.at = Len(Chain[b]) + 1

\* A checkpoint is what it says it is, the latest is the caller's, and a crash
\* loses no more than the durability allows.
CheckpointsExact == TypeOK /\ StepCountsNodes /\ ProgressExact /\ ReturnedIsStored /\ LossBounded

\* No Agent node adds its prompt to a conversation with unanswered tool calls:
\* "so that the conversation stays valid (every tool call answered before the
\* next user message)" (graph.md:373).  That needs nodes and routers
\* that do not fail.
ConversationValid == happens \cap {"fail", "router"} = {} => ~spoiled

\* "Nodes that already completed do not run again" (graph.md:312): in the part
\* of the trace since the last run_graph no node of an acyclic graph is twice,
\* as long as every router finds a next node.
CompletedNotRepeated ==
    "router" \notin happens =>
    \A i, j \in (run.from + 1) .. Len(run.trace) :
        i # j => run.trace[i] # run.trace[j]

\* Once all the branches of a fan-out have finished, no later call runs them
\* again: "Nodes that already completed do not run again" (graph.md:312).
FanNotRepeated ==
    Cardinality({i \in (run.from + 1) .. Len(run.trace) : run.trace[i] = Fan}) <= 1
=============================================================================
