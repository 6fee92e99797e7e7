# agent.cpp in TLA+

Specifications of the concurrent, persistent and stateful parts of agent.cpp:
what the code does, model-checked on small instances with TLC, and proved for
every instance with TLAPS where that is within reach. Paths are relative to the
repository. `PROJECT.json` has, for every definition, the lines it models, and
for every hazard the properties that would catch it.

## The system and its parts

agent.cpp is a C++ library that runs language-model agents in one process,
with tools around it.

| Part | Source | Modules |
|---|---|---|
| model registry: named models loaded lazily under a RAM/VRAM budget | `src/core/models/model_registry.cpp` | `ModelRegistry`, `SettledRegistry` |
| Async checkpoint writer: a bounded queue and one thread shared by graph runs | `src/core/graph/graph_checkpointer.cpp`, `graph_internal.hpp` | `AsyncWriter`, promises in `CheckpointQueue` |
| checkpointers: over a key-value store, over SQLite, in memory | `graph_checkpointer.cpp`, `tools/store-sqlite/src/sqlite_checkpointer.cpp` | `Checkpointers` |
| graph executor: run, resume, fork, Parallel nodes, loops, durability | `src/core/graph/graph_executor.cpp`, `graph_builders.cpp`, `graph_checkpoint.cpp` | `GraphRun` (order, checkpoints), `GraphState` (values), `RunEvents` (event log) |
| graph loader: agent.json | `src/core/graph/graph_json.cpp` | `GraphLoader` |
| memory stores | `tools/store-sqlite/src/sqlite_store.cpp`, `src/core/memory/in_memory_store.cpp` | `SqliteStore`, promises in `KvStore` |
| retrieval: chunks, index, vector stores | `src/core/rag`, `sqlite_vec_data_source.cpp` | `RagIndex`, `Chunker` |
| turn executor: the tool loop, pruning, compression, nested turns | `src/core/executor/turn_executor.cpp`, `tools/context_compressor.cpp`, `tools/tools_ops.cpp` | `TurnExecutor` |
| engine host process: reader thread, workers, response segments | `tools/engine-host/engine_host.cpp` | `EngineHost` |
| remote engine: callers that share one host over a pipe | `src/core/engines/engine_remote.cpp` | `RemoteEngine` (with `EngineHost`) |
| sessions, engine registry and provider | `src/core/agent.cpp`, `engine_registry.cpp`, `engine_provider.cpp` | `EngineProvider` |
| llama engine | `engines/llama/llama_engine.cpp` | `LlamaBatcher` (shared context), `LlamaEngine` (requests) |
| MCP client: JSON-RPC with a child process | `src/core/mcp/mcp_client.cpp`, `src/hal/child_process.cpp` | `McpClient` |
| `run_command` tool | `src/core/tools/terminal_tools.cpp`, `src/hal/process.cpp` | `ShellCommand` |
| model hub: downloads and the catalogue | `tools/hub` | `Hub` |
| voice loop | `tools/cli/src/voice_core.cpp`, `voice.cpp`, `audio.cpp` | `VoiceLoop` |
| chat | `tools/cli/src/chat.cpp`, `cli_core.cpp` | `Chat` |
| HAL rest, other engine plugins, other commands, benchmarks | `src/hal`, `engines`, `tools/cli`, `bench` | not modelled, see below |

How they meet: a *turn* sends a conversation to an engine and runs the tools
that the answer asks for. The engine is in the process or behind
`RemoteEngine` in a host process of its own; models come from the registry. A
*graph* runs turns and functions as nodes and stores a checkpoint after each,
directly or through the `AsyncWriter`, in a checkpointer, by default the one
over the session's memory store. MCP servers and `run_command` provide tools.
The chat and the voice loop are the command line's two ways to drive turns.

## Conventions

One action is one critical section, from taking a mutex to the next place
where the code drops it: a wait, a callback, a blocking call, a return. A
condition variable is a set of program counters that wait; `notify` moves one
of them or all of them on, and a woken thread tests its condition again. Names
are the source's wherever TLA+ allows it.

Data are reduced to what the properties tell apart: a conversation is a
sequence of messages with role, size and call ids; the state of `GraphRun` is
the sequence of nodes whose effects it carries; a line on a pipe is a kind and
an id; a model is the bytes it needs; a file of the hub is the revisions its
chunks came from; sound is counted in units.

What may go wrong is named in each module (`Happens`, `Scenes`, `MaxFaults`): a
decode, a write or a start that fails, a crash, a cancel, a deadline. A *scene*
is a setting together with the mishaps that may happen in it. It is chosen in
`Init` and never changes. One run so covers several settings, and a mishap
that would multiply the states of all the others stays in the scenes where it
matters. The properties hold in every scene unless they say otherwise.

Several runs hold more than one module, as *layers*: a variable picks one in
`Init`, that one moves and the others stay in one initial state. The modules in
one run do not act on each other. Where a component uses another, its module
has the other's promise, not its state: `GraphRun` the FIFO of
`CheckpointQueue`, `Checkpointers` the store of `KvStore` (a crash goes back to
one earlier moment), `Chat` a turn, a load and a write that succeed or fail.
`RemoteEngine` and `EngineHost` are composed action by action, over the pipes
`toHost` and `toCore`.

Operators marked `Mutant` are the definitions that follow them with a
plausible mistake. No specification uses them. They show that each property
would notice.

## The modules

**ModelRegistry.** `spec`, `status`, `bytes`, `leases` are the fields of
`Entry`; `used` and `releasing` the registry's counters; `older` the order of
`use_tick`, without its numbers. `doomed[c]` is the list of Sessions that a
call took out of the registry and destroys after it dropped the mutex.
`acquire_model` is the actions `Acquire*` (a first section, three kinds of
wait, the reservation with its evictions), `DestroyThenLoad`, `LoadSucceeds`,
`LoadFails`. `release_model` is the deleter of a lease; `Unload*`,
`RegisterUnloaded`, `DestroyThenRegister` and `set_budget` are the other
entry points. `plan` gives the shortest LRU prefix of evictable models that
makes room. Sums of bytes are sizes of disjoint unions (`SumOver`), which TLC
can count and TLAPS can reason about. **SettledRegistry** adds a history
variable, `settled`: the budget and the registered specs have not changed. What
the budget promises it promises while they stay.

**AsyncWriter** has the queue, the counters `queued_` and `written_`, the
first error, the writer thread and the destructor; one action for each section
of `enqueue`, `flush`, `loop` and `~AsyncWriter`, with the notifications after
the unlock as steps of their own. **CheckpointQueue** says what callers may
rely on: accepted writes are attempted once, one at a time and in order; a
flush returns only when no write of its run is outstanding; failures are
reported. `AsyncWriter!QueueSpec` is that specification under the refinement
mapping `pending <- inflight \o queue`.

**Checkpointers** has `put`, `latest`, `get`, `list`, `append_events`,
`list_events` and `delete_thread` of one thread id over the three back ends:
over the store each `store_memory` call is an action that may fail or be the
last one before a crash; over SQLite a transaction is; in memory a call is. A
read that fails is reported or, by the SQLite store, taken for a missing key
(`MissesLatest`, `AppendMissesCount`).

**GraphRun** is `run_graph` and `resume_graph` on one thread id: `drive`'s
nodes, routers and interrupts, the fan-out of a Parallel node with its
branches and their progress records, `write_checkpoint` in the three
durabilities, `finish`, the writer's `put`, crashes. **GraphState** follows the
values: what each kind of node writes, scoped keys in the store, the copies
and records of branches, the join, loops, seeds, `fork_graph_run`, over graphs
made by the builders and checked by `validate`. A crash goes back to one of the
contents that the store has had, as `KvStore` allows. **RunEvents** follows the
events of a thread from `log_event` to the stored log.

**GraphLoader** is `load_graph_json`: servers are connected and rolled back,
names are claimed and looked up, exits are assigned, cycles are warned about. A
walk of the executor over the graph goes side by side with a structured walk
that does what `docs/api/agent-json.md` says of the document.

**SqliteStore** is the write-back cache with its eviction, the writer thread,
`clear` and `close`; a transaction is one step. **KvStore** is its promise: a
map of which one whole earlier content is on disk. **RagIndex** is `rag_index`,
`rag_erase`, `rag_query` over both vector stores with failing embeddings and
writes; **Chunker** is `chunk_text`, checked against what a chunking must be
for every text of up to six bytes of five kinds.

**TurnExecutor** is a stack of turns on the conversations `main` and `sub`:
`Submit` (compress, prune, send), the answer with or without calls, one action
for each tool result, `compress_context` called as a tool, a turn nested in a
tool, failures, cancellation, the round limit, saving and loading.

**EngineHost** is the host's side: frames read by `reader_main`, the worker
pool with its spawn rule, cancel flags, chunks, responses in shared-memory
segments that are reused when released. **RemoteEngine** extends it with the
caller's side: slots and ids, the reader role that passes from caller to
caller, `service_timers` (cancel, grace period, watchdog), death, reaping and
restart of the host, mapping and release of segments. A read may end in a
malformed frame: the frames before it are handed out, then the host is killed.

**EngineProvider** has threads that run jobs: registering engines, loading
plugins and manifests, `init` of a session with its fallbacks, connecting
servers, and requests, from the task and the tools they offer to the copy of
the response into the arena and its release.

**LlamaBatcher** is `Batcher` and the loop of `generate`: sequences on a free
list, positions, the shared cache by sequence (who wrote each cell), rounds
with a leader that decodes for all and followers that wait for their result,
`score_options` and `clear`. **LlamaEngine** is one instance with a sequence to
itself: `create` and its failures, prompts with media and special tokens, stop
words and tool calls in the output, decisions, embeddings, reranking. A media
marker is two symbols long, so that taking one out of a text can leave another.

**McpClient** is one `McpServer`: connecting with its handshake and paged
`tools/list`, `request` with its deadline and stray traffic, calls from
several threads under `mutex_`, disconnecting, the stderr thread. The server
is an environment that answers, is late, talks out of turn, prints garbage,
stops reading, closes its output, sends a line without end or exits.
**ShellCommand** is one call of `run_command`: the
shell and the processes it forks do as they like, and the parent collects their
output, waits, sends SIGTERM and SIGKILL and gives up.

**Hub** is `pull_model` and `remove_model`, repeated by one user: the choice of
files, resumed and verified downloads, redirects, the catalogue, with cut
connections, odd answers, crashes, a branch that moves and a user who asks for
something else in between (`ChangeAsk`). **VoiceLoop** is
`run_voice_loop` with the capture and playback threads, the energy gate, the
VAD hooks, half-duplex and barge-in, a speaker that cannot be started, and
Ctrl-C. **Chat** is `run_chat`: turns that stream through `filter_stream`, or
print their answer at the end, and may compress and prune the history, whether
they succeed or fail; commands, `--resume`, Ctrl-C, the list of conversations,
and starting again after a crash, which goes back to an earlier content of the
store.

## What is checked

States are distinct states on two workers; each run takes at most about three
minutes.

| Run | Instance | States | Shows |
|---|---|---|---|
| `registry` | 2 clients and 2 models, or 1 client and 3 models; a model with 2 specs; a budget that waits, one that overcommits | 37k | leases are counted and keep their Session; specs and charges agree; one loader; exact accounting; within budget; no lost wake-up; calls return |
| `async_writer` | 2 runs, queue of 2, 2 writes each, any may fail | 13k | bounded loss, no lost wake-up at any of the three condition variables, draining, errors kept, refinement of `CheckpointQueue`, calls return |
| `graph_run` | an Agent node, a Parallel node with branches of 2 and 1 nodes, a last node; 3 durabilities; 4 scenarios. Or turns on 2 conversations: 1 tool round, up to 2 calls, budgets of 3 to 5 tokens | 816k | steps count nodes; crash window; nothing completed runs again; the last checkpoint is the returned one; exact branch progress; conversations are valid, start with the system message and fit the budget; nested turns leave the outer one alone |
| `remote_engine` | 2 callers, 2 workers, 1 restart, 2 deaths, 4 scenes of 2 to 4 calls | REMOTEk | the reader role is safe and never vacant; frames have owners; streams are complete; queued runs get workers; Cancelled goes to its own call; segments are not reused while held; one run at a time on a serial engine |
| `tool_calls` | 2 callers, pipes of 1 line, 4 requests, 2 pages. Or a shell and a child, 2 bytes of output, a cap of 1 | 309k | replies are own; requests start on new lines; a connection dies for cause and not before its answer is read; nothing is left behind; stopped commands leave nothing of their group; output is exact up to the cap; calls return |
| `persistence` | 7 events and a queue of 2; 2 puts and 2 batches on 3 back ends; 2 threads that share 2 keys, or one that does everything, with a cache of 1; 2 documents, 4 calls, 2 faults; texts of up to 6 bytes | 1,075k | what was acknowledged can be read, in order and whole, after crashes and errors between any two writes; the SQLite store implements `KvStore`; chunks cover their text |
| `graphs` | some 114,000 documents of 4 nodes; 7 graphs, 2 threads, 1 fault; 2 chats of 2 turns, 2 models, 2 answers in every division into tokens | 1,234k | documents run as written; failed loads leave nothing; values survive; joins and loops are exact; the chat prints, cancels, leases and keeps what it should |
| `engines` | 3 generations on 3 or 2 sequences of 3 or 4 cells; 13 configurations and 762 requests; outputs of up to 6 symbols; 13 scripts of 2 threads | ENGINESk | followers are served; no token from another's context; prompts, scores, instances, tools and answers belong to whom they should |
| `tools` | 3 listings, 6 requests, 2 revisions, 2 moves of the branch or the user, 2 faults; 5 settings of the voice loop over 5 units of sound | 281k | no file mixes two revisions; a pull has what it recorded; repeated pulls succeed; utterances are exact and after the reply; Ctrl-C ends the loop |

The other three runs (`graph_run_router`, `remote_engine_mapped`, `mcp_race`) end
in a counterexample; see below.

Most properties are conjunctions of parts that have names, and comments, of
their own:

| Property | Parts | About |
|---|---|---|
| `EntriesConsistent` | `TypeOK`, `LeaseSafety`, `SpecStable`, `SingleLoader` | what the registry tells holders, loaders and evictors |
| `BudgetKept` | `Accounting`, `ResidentWithinBudget` | counters are exact, so the budget holds |
| `NoLostWakeup` (registry) | `WaitersHaveWaker`, `BudgetWaitersCannotProceed` | one condition variable, three reasons to wait |
| `NoLostWakeup` (writer) | `WriterWakes`, `SpaceWakes`, `FlushWaits` | three condition variables |
| `NothingIsForgotten` | `OutstandingBounded`, `DestroyDrains`, `FailureKept` | accepted writes and their errors |
| `QueueSpec`, `KvSpec` | | refinements |
| `CheckpointsExact` | `StepCountsNodes`, `ProgressExact`, `ReturnedIsStored`, `LossBounded` | what a checkpoint says, and the crash window |
| `CompletedNotRepeated`, `ConversationValid` | | resume, tool calls |
| `SentIsWellFormed` | `ResultsFollowCalls`, `CallsAreAnswered`, `SystemComesFirst`, `PrunedToBudget` | what the engine gets |
| `NestingIsTransparent` | `CompressesOwnHistory`, `CallViewsAreValid` | turns in tools |
| `ReaderRole` | `ReaderIsSafe`, `SleepersAreWatched` | who reads the pipe |
| `FramesReachTheirCall` | `FramesHaveOwners`, `StreamComplete`, `CancelledIsOwn` | routing and order |
| `RunsAreServed`, `HeldIsBusy` | `QueuedRunsHaveWorkers`, `RunsAreSerial` | the host's queue; segments |
| `RepliesAreOwn` | with `WritesUnderMutex` | one connection |
| `Lifetimes` | `StderrHasProcess`, `NothingIsLeft`, `ToolsHaveServer` | what ends when |
| `ConnectionExact` | `RequestsStartOnNewLines`, `DiesForCause` | what a step may never do |
| `CommandsExact` | `TreeIsStopped`, `OutputExact` | `run_command` |
| `RecordsHold` | `CheckpointsHold`, `EventLogExact` | keys and rows written one by one |
| `StoresCoherent` | `LogExact`, `StoreCoherent` (`ReadsOwnWrites`, `ClosedIsSaved`), `IndexExact` with the chunker | the event log, the cache, the index |
| `LoadsAsWritten` | `RunsAsWritten`, `UnwarnedEnds` | the loader |
| `FailedLoadLeavesNothing` | | its roll-back |
| `ValuesKept`, `WorkflowsExact` | `ScopedVisible`, `RecordsExact`; `JoinExact`, `LoopExact` | the values of a run |
| `ChatsExact` | `ShownExact`, `CancelExact`, `ModelsExact`, `KeptExact` | the chat |
| `FollowersAreServed`, `StreamsAreOwn` | the latter with `SequencesAreExclusive` | rounds, tokens |
| `PromptsExact`, `ScoresAreOwn` | the latter `DecisionsExact`, `RowsAreOwn`, `PairsFit` | the llama engine's requests |
| `EnginesReady`, `AnswersAreOwn` | the former `InstancesExact`, `SessionsExact` | sessions and engines |
| `PulledIsChosen` | `FilesAreWhole`, `PulledIsAnnounced`, `SelectionStable` | the hub |
| `UtterancesExact` | `WholeUtterance`, `GateExact`, `HeardAfterReply` | the voice loop |
| `EveryCallReturns`, `CallsReturn`, `ToolCallsReturn`, `PullsSucceed`, `SigintEnds` | | liveness |

### Bounds

The bounds are the smallest in which the interesting cases occur. Two actors
are enough for every hand-over and race named in the hazards, and three where
a *third* party is involved: the llama rounds (leader, follower, newcomer),
evictions in LRU order (two candidates for one newcomer). Queues have room for
two so that full, partly full and empty differ. Pipes of one line, a cache of
one entry and a cap of one byte make the limit reachable. Documents have four
nodes, so that a body can have an exit and something can follow it. Every
property has a mutant of the code that the same run catches, so none of the
bounds hides the case it is about.

Counters that the code does not bound are bounded in the guards: writes of the
async writer and single writes to a checkpointer (`MaxWrites`), steps, puts and
batches (`MaxStep`, `MaxPuts`, `MaxBatches`), events (`MaxEvents`), calls on a
host (`calls`) and its deaths (`MaxDeaths`), router failures (`MaxRouter`),
nodes before a restart (`MaxStart`), MCP requests (`MaxId`), calls and faults of
the index, of graphs and of the hub (`MaxCalls`, `MaxFaults`, `MaxMoves`), units
of sound and errors of hooks (`MaxUnits`, `MaxErrors`), chats and turns of a
chat (`MaxChats`, `MaxTurns`), output of a command (`MaxBytes`). Turns of the
turn executor are unbounded: the history is kept finite by compression and
pruning, as in the code. Symmetry is used for callers, generations and threads
that no definition tells apart, in runs without liveness properties.

### Fairness

Liveness is checked where callers block on others. All of it is weak fairness
of a thread's own steps, which the operating system's scheduler gives.

- `EveryCallReturns` (registry): every thread in a call runs, loads and
  destructors return, the clock reaches deadlines; nobody is forced to release
  a lease. The conclusion is therefore about behaviours in which, from some
  point on, only calls in progress move.
- `CallsReturn` (writer): the writer thread and the callers run and a `put`
  returns.
- `ToolCallsReturn` (MCP, `run_command`): the threads and the parent of the
  command run and the clock ticks; nothing is asked of the server or of the
  processes. `CommandsEnd` excepts a call without timeout that nobody cancels.
- `PullsSucceed` (hub): the user repeats the command, and it runs; faults are
  bounded by `MaxFaults`.
- `SigintEnds` (voice): the loop and the playback thread run. Nothing plays on a
  speaker that could not be started.

For the other components lost wake-ups are excluded by invariants
(`SleepersAreWatched`, `QueuedRunsHaveWorkers`, `FollowersAreServed`), and TLC
checks for deadlock in every run but `graphs`, whose behaviours end.

## Where code and documentation differ

Three runs end in the counterexample they are there to show.

- `graph_run_router`: the router of a Parallel node fails after the join has
  dropped the branch progress; `resume_graph` then runs every branch again
  (`docs/api/graph.md:312`).
- `remote_engine_mapped`: a host that goes down while another call still reads
  its response has the segments unmapped under that call
  (`engine_remote.hpp:77`).
- `mcp_race`: `disconnect_mcp_server` can overtake a call that has begun and
  waits for the mutex, and destroys the server under it (`docs/api/mcp.md:86`).

Other statements are written down as definitions that no run checks, because
they do not hold of the code. What does hold, and is checked, is next to them.

- `JoinMergesWrites`: "At the join, every key a branch wrote is merged back"
  (`docs/api/graph.md:203`). A branch record keeps only values that differ from
  the fan-out's input (`graph_executor.cpp:571`). A branch that wrote the value
  the input had, and is resumed when a scoped key has changed or the run was
  forked with another seed, merges the new input's value. `JoinExact` allows
  for such keys.
- `ErasedIsGone`: "`rag_erase` removes all of a document's chunks"
  (`docs/api/rag.md:172`). `erase_chunks_from` stops at the first number that
  is missing (`rag_pipeline.cpp:34`). An erase that failed in the middle leaves
  higher numbers that no later erase of that document reaches. `IndexExact`
  excepts documents with an erase that was cut short (`torn`).
- `ClearedIsGone`: "When `clear_memory` returns, the data is actually gone"
  (`docs/api/memory.md:125`). A `get` on another thread that read its row before
  the `DELETE` puts it into the cache afterwards (`sqlite_store.cpp:292`). The
  run has threads that share keys or one that does everything, `clear` included
  (`Racing = FALSE`).
- `LoopCyclesEnd`: "Cycles that pass through a `loop` node are bounded by
  `max_iterations`" (`docs/api/agent-json.md:172`). A loop whose exit leads back
  to it starts counting again (`graph_json.cpp:431`); no warning is given.
  `UnwarnedEnds` excepts such documents (`LoopsAreLeft`).
- `NoEchoHeard`: in half-duplex "audio captured while a reply is being produced
  or played is dropped" (`tools/cli/src/voice.hpp:126`). Whether a reply plays is
  asked after the read (`voice_core.cpp:243`): a chunk that was captured while
  the last of it played, and is read when it is over, is heard. And a turn or a
  synthesis that fails returns before `restart_listening` (`hook_failed`, `voice_core.cpp:163`):
  what was captured during it is heard next. `HeardAfterReply` says that what is
  transcribed was captured after the last reply that came to its end and, unless
  something failed since (`lapsed`), not while one was produced.
- `MarkersAreOurs`: "build_inputs stripped user-typed ones, so every marker is
  ours" (`llama_engine.cpp:486`). `erase_all` passes over a text once and part by
  part: what an erasure or two parts next to each other put together stays, and
  so does a marker in the arguments of a tool call. As long as the template keeps
  every message, the count of markers is then wrong and the request is refused;
  a template that drops a message with a picture can make it right again, with a
  picture in the wrong place. `PromptsExact` says so.
- `find_loose_tool_call` retries "from each '{' so a stray outer brace is
  skipped" (`llama_engine.cpp:540`), but gives up at a brace that is never closed
  (`:556`). `LooseCallExact` is about texts whose stray braces are closed.
- `PulledIsDocumented`: "The catalogue points at shard 1" (`docs/api/hub.md:40`,
  `hub_http.cpp:390`), and a file that is not downloaded again has the announced
  digest (`hub.md:78`). A user who names a later shard by its file gets an entry
  for that one. And the entry's own file is not hashed when the entry has the
  announced digest (`known_good`, `hub_http.cpp:434`): a pull of another revision
  that was killed between moving the file into place and saving the catalogue
  leaves the file of one and the entry of the other, and when the branch moves
  back, the next pull reports the old file as good if the sizes are equal.
  `PulledIsAnnounced` excepts the file that the pull found in disagreement with
  its entry (`agreed`).
- "a `store_memory` immediately followed by a `retrieve_memory` for the same key
  always sees the value" (`docs/api/memory.md:59`), from several threads
  (`memory.md:38`): a `get` that missed the cache, and read its row before another
  thread's put of the key was flushed and evicted, puts the old row into the
  cache (`sqlite_store.cpp:292`). The put is not lost, but reads see the old value
  until the key is put again or evicted. `ReadsOwnWrites` excepts such keys
  (`overtaken`) from what reads see, not from what is stored.
- `ListedIsKept`: "A conversation is saved after every turn" (`docs/cli.md:152`).
  A turn that fails saves nothing (`turn_executor.cpp:538`), but the
  conversation is listed after any turn, so a list may name a conversation
  that cannot be resumed. `KeptExact` is about turns that succeeded.
- `EndsWithItsCommand`: `run_command` returns when its command is gone. The
  pipe is not close-on-exec, so a process that another thread started in
  between may hold it open; the call then returns at its timeout or a cancel.
- `docs/api/tools.md:298` says that a running command is not stopped by
  `request_cancel()`; the code stops it, and so does `ShellCommand`.
- `docs/api/graph.md:308`: "`Sync` loses at most the node that was running" holds
  for a store that writes through. Over the SQLite memory store a put returns
  when it is in the cache, and a crash may take back several (`KvStore`,
  `Forget`). `LossBounded` is about a checkpointer that keeps what it
  acknowledged.

Behaviour that the models have because the code has it, and that a property
therefore excludes or allows for:

- `flush` hands the first error to whichever run flushes first; when runs share
  a Checkpointer the error of one may be reported by the call of another.
- a `SELECT` that fails, when the database is busy for instance, is reported as
  a missing key (`sqlite_store.cpp:282`). `append_events` then starts its log at 0
  again (`graph_checkpointer.cpp:203`), over the batches it has, and `run_graph`
  starts over. `EventLogExact` is about logs to which this has not happened since
  they were deleted (`spoiled`); `CheckpointsHold` holds all the same.
- a speaker that could be opened but not started (`audio.cpp:405`) counts as
  started at the next reply, which then waits in `device_drain` for ever, also
  after Ctrl-C. `SigintEnds` excepts it.
- an answer that was not streamed is printed with its tool calls; `ShownExact` is
  about what is streamed.
- a crash in Async mode can lose the queue's capacity and the write in flight.
- a batch of events whose write is refused is not written again
  (`LogCompleteUnlessRefused`).
- `delete_graph_thread` finds checkpoints through their metadata; one that an
  interrupted put or delete left without is passed over
  (`UncutDeleteIsComplete`).
- a node that fails at the tool-round limit leaves calls unanswered and is
  retried after them (`ConversationValid`, `CallsAreAnswered`).
- `compress_context` with `keep_recent` 0, as the second call of an answer,
  summarizes the message whose calls are running; the scenes keep at least 1.
- a tool that runs a turn on its own Session resets the arena that the outer
  tool loop reads; the scenes nest turns on another Session, as the documented
  sub-agents do.
- `set_budget` and `register_model` do not notify waiting acquires; these
  notice at the next release or at their deadline.
- a failed decode fails every generation of its round.
- longer output of a command gets no truncation mark when a read happens to end
  exactly at the cap.

## What is proved

The proofs are for every value of the constants that satisfies the `ASSUME`s of
the modules: finite sets of clients, models and runs, a positive capacity, typed
specs, budgets and scenes, a `None` that is no line. The SQLite store's have one
hypothesis more, see there. TLC evaluates the assumptions in every run. Bounds
such as `MaxWrites` or `MaxPuts` are arbitrary.
Each proof has one lemma per action, or per group of actions with the same
effect, and *frame* lemmas for the parts of the invariant that a step leaves
alone. TLC checked each inductive invariant first, on the run's instance or, for
the SQLite store, on every scene of two threads and two keys.

| Module | Theorems | Property of a run |
|---|---|---|
| `ModelRegistryProofs` | `EntriesAreConsistent` (from `LeasesAreSafe`, `SpecsAreStable`, `LoadsAreExclusive`), `TypeCorrect` | `EntriesConsistent` |
| `SettledRegistryProofs`, with the lemmas of `ModelRegistryProofs` on sums and plans | `BudgetIsKept`, `NoWakeupIsLost` | `BudgetKept`, `NoLostWakeup` |
| `AsyncWriterProofs` | `NoWakeupIsLost`, `WritesAreRemembered`, `ImplementsQueue`, `TypeCorrect` | `NoLostWakeup`, `NothingIsForgotten`, `QueueSpec` |
| `McpClientProofs` | `RepliesAreTheirOwn`, `LifetimesAreOrdered`, `ConnectionIsExact` | `RepliesAreOwn`, `Lifetimes`, `ConnectionExact` |
| `ShellCommandProofs` | `CommandsAreExact` | `CommandsExact` |
| `CheckpointersProofs` | `RecordsAreKept` | `RecordsHold` |
| `LlamaBatcherProofs` | `FollowersGetTheirResults`, `GenerationsKeepApart` | `FollowersAreServed`, `StreamsAreOwn` |
| `SqliteStoreProofs` | `StoreIsAMap`, `ReadsSeeWrites` | `KvSpec`; two of the three parts of `StoreCoherent` |

**Registry entries.** `IInv` is `TypeOK`, `LeaseSafety`, `SpecStable` and
`SingleLoader`. None is inductive alone: that an evicted model has no lease
needs the exact lease count, that a reload may set `leases` to 1 needs that a
Loading model has no holders, and that a registration cannot change a charged
spec needs that Loading has exactly one loader.

**Registry budget.** A reservation is charged *before* the Sessions it evicts are
destroyed, so the charges may exceed the budget. `BudgetInv` says by how much:
there is a *slack* per model, zero unless its reservation is still destroying
its victims, and then at most what the model takes and at most what the victims
will free; `used` is at most the budget plus the sum of the slack.
`ResidentWithinBudget` does not count models that wait for their victims, so it
follows. The counters are exact (`Accounting`), only a call in `destroy` has
Sessions to destroy (`DoomedInv`), and `older` is asymmetric (`UseOrder`).
For the wake-ups the invariant says that a client in the timed wait wants a
model that does not fit (`WaitOK`). This is kept by every step that does not
notify because `plan` finds something whenever evicting *all* candidates would
do: LRU prefixes are a chain, so there is a least one that makes room. Fewer
candidates and more in use can then only make less fit. Sums over sets need no
induction here: `SumOver` is the size of a disjoint union, and the library's
facts about finite sets give that a sum splits, is monotone and changes by one
term when the function does.

**Async writer.** The invariant adds `Shape`: the counters differ by what is
pending, at most one job is in flight and exactly while the thread writes, and
an exited thread left nothing. The wake-up invariants are mutually needed: a
waiting run relies on woken runs or a full queue, a full queue on an awake
writer. Three lemmas about sequences carry the refinement: pushing, taking and
finishing a job are an append, nothing and a tail of `inflight \o queue`.

**MCP client.** `ConnectionInv` is who has the mutex and what is written under it
(`LockInv`), what of a connection exists at each place of the thread that owns
it (`LifeInv`), and that no request is written on a dead connection while an
accepted answer is the own one (`AnswerInv`). `ConnectionExact` is an action
property and follows from it.

**Commands.** `CommandInv` is the process tree (`TreeInv`: nothing of the command
runs before the shell has its own session; after SIGKILL the group is dead and
nobody can join it) and the bytes (`OutputInv`: read plus in the pipe is
printed; after the end of the output nobody holds the pipe).

**Checkpointers.** `RecordsInv` says the same of what a reader sees now and of
what a crash would leave (`CheckpointsOK`, `EventsOK`, on the variables and on
`disk`), what the operation in progress has done so far (`OpInv`), and what a
store on which no operation was cut short lists (`UncutInv`).

**Llama rounds.** `RoundsInv` is who has which sequence (`FreeInv`), for whom
there is a result (`ResultInv`), the round being collected (`RoundInv`), and for
each generation that what is cached is its own and that its position and what
is left to generate fit the context (`CacheInv`).

**SQLite store.** `StoreIsAMap` is the refinement of `KvStore`, step by step: a put
or a clear changes the map; the writer's collecting of dirty entries takes a
snapshot, its transaction saves it, a failed one drops it; its `DELETE` wipes the
saved content, or fails and what is on disk counts again, as after a crash; evictions, reads and notifications are stutters.
`ReadsSeeWrites` is `ReadsOwnWrites` and `ClosedIsSaved`. Both have a hypothesis,
`ScenesApart`: a thread that clears is the only one that uses the store; threads
that do not clear share keys as they like. Without it they do not hold of the
code (`ClearedIsGone` above). The run's scenes satisfy it (`StoreUsedApart` in
`MCPersistence`, which TLC evaluates). `StoreInv` says that the dirty entries over
the table are what was put and, but for overtaken keys, a clean entry is what the
table has (`CacheOK`), that a row which is being read stays what was put until it
is cached or a put overtakes it (`CallOK`), that
the writer clears only for a call that waits (`RequestsOK`), and that what is
being written is still dirty, so that an eviction cannot drop it and marking it
clean is right only if it was not put again (`BatchOK`). That the LRU list has
each cached key once, the third part of `StoreCoherent` (in `StoreTypeOK`), is about
`SelectSeq`, which the prover has no rules for, and stays with TLC.

Only model-checked: liveness and fairness, which the prover has no rules for;
`RemoteEngine` with `EngineHost`, whose frames are sorted to their calls with
`SelectSeq`, a recursive definition; `GraphRun`, `GraphState`, `TurnExecutor`,
`RunEvents`, `RagIndex`, `Hub` and `VoiceLoop`, whose invariants have not been
strengthened to inductive ones;
`Chunker`, `GraphLoader`, `LlamaEngine`, `EngineProvider` and `Chat`, whose
properties are about what recursive definitions compute (chunks, closures,
scans of a text, offsets), which needs induction over data.

## What is not modelled

- the ranking of a query, `rerank` scores and the older data-source interface of
  sqlite-vec; the parsing of `search_knowledge` arguments;
- the noise floor of the energy gate, WAV files and settings;
- fan-outs inside branches and errors of checkpoint writes in `GraphState`
  (`GraphRun` has the latter); two threads on one Session other than as branches
  of a graph;
- byte layouts of frames, checkpoints and shared memory, prompt templates,
  sampling, floating-point arithmetic, whitespace of OCR results;
- file-system tools, skills on disk, data sources: single calls to the operating
  system; the sandbox, dynamic libraries, paths, and the Windows variants of
  processes;
- engine plugins other than llama: adapters around numerical libraries that are
  called one request at a time; the mock provider;
- commands other than chat and voice, options, permissions and terminal output;
- two hub programs or two chats on one directory at once;
- benchmarks, examples and templates.
