--------------------------- MODULE EngineProvider ---------------------------
(***************************************************************************)
(* Sessions and the engines they run: the process-wide registry of engine  *)
(* tables and plugin records (src/core/engines/engine_registry.cpp), init  *)
(* of a session (src/core/agent.cpp) and the engine provider               *)
(* (src/core/providers/engine_provider.cpp), with the tools a session      *)
(* offers (tools_ops.cpp, skills_registry.cpp).                            *)
(*                                                                         *)
(* Threads run jobs: they register engines, load plugins and manifests,    *)
(* one initialises a session, and then all of them use it, as the parallel *)
(* branches of a graph do.  A job is a list of steps, each one critical    *)
(* section of registry_mutex or of run_mutex, or a call of the engine.     *)
(* What a table is, is told by the plugin file it comes from.              *)
(***************************************************************************)
EXTENDS Integers, FiniteSets, SequencesExt, TLC

CONSTANTS
    Workers,     \* the threads
    Tables,      \* the engine tables, by plugin file: see Table
    Scripts,     \* the jobs and configurations considered: see Script
    Responses,   \* what an engine may answer: see Response
    ArenaSize,   \* the units of an arena
    Nobody       \* no thread

Table == [name : STRING, caps : SUBSET {"text_gen", "embed", "generic"},
          concurrent : BOOLEAN, native : BOOLEAN, valid : BOOLEAN]

Isolations == {"default", "inprocess", "process"}

Job ==
    [do : {"register", "load"}, path : STRING]
    \cup [do : {"manifest"}, entries : Seq([path : STRING, isolation : Isolations, name : STRING])]
    \cup [do : {"init"}]
    \cup [do : {"connect", "disconnect"}, server : STRING]
    \cup [do : {"infer"}, task : {"none", "text_gen", "embed", "generic"}, allowed : SUBSET STRING,
          size : Nat, used : Nat]

Script ==
    [jobs : [Workers -> Seq(Job)],
     engine : STRING,                                  \* Config::engine
     isolation : Isolations,                           \* Config::engine_isolation
     task : {"none", "text_gen", "embed", "generic"},  \* Config::default_task
     tools : Seq(STRING),                              \* Config::tools
     auto : BOOLEAN,                                   \* Config::auto_default_tools
     skills : {"none", "some", "empty", "missing"},    \* what is at Config::skills_dir
     fails : SUBSET {"create", "memory", "host", "run"}]

Response == [text : Nat, tensors : Seq(Nat), files : Nat, calls : Nat]

VARIABLES
    script,     \* the Script of this behaviour, fixed at the start
    registry,   \* the registered tables, by their plugin file
    records,    \* plugin_records
    jobs,       \* the jobs each thread has left
    todo,       \* the steps left of its current job
    session,    \* the Session
    instances,  \* how many instances of each engine exist in this process
    lock,       \* who holds run_mutex
    buffers,    \* the responses the engine keeps for its callers
    sent,       \* the request each thread sent last
    answer      \* what it was answered

providerVars == <<script, registry, records, jobs, todo, session, instances, lock, buffers, sent, answer>>

NoSession == [stage |-> "none", engine |-> "", remote |-> FALSE, tools |-> << >>, index |-> << >>,
              told |-> << >>, skills |-> FALSE]

Init ==
    /\ script \in Scripts
    /\ registry = << >>
    /\ records = << >>
    /\ jobs = script.jobs
    /\ todo = [t \in Workers |-> << >>]
    /\ session = NoSession
    /\ instances = [p \in DOMAIN Tables |-> 0]
    /\ lock = Nobody
    /\ buffers = << >>
    /\ sent = [t \in Workers |-> [task |-> "none"]]
    /\ answer = [t \in Workers |-> [status |-> "none"]]

Goes(t, steps) == todo' = [todo EXCEPT ![t] = steps]

Advances(t) == Goes(t, Tail(todo[t]))

\* A step that fails ends its job.
Fails(t) == Goes(t, << >>)

At(t, op) == todo[t] # << >> /\ Head(todo[t]).op = op

Step(t) == Head(todo[t])

-----------------------------------------------------------------------------
\* The registry.

\* find_locked: the table of that name, or none.
Named(name) == {i \in DOMAIN registry : Tables[registry[i]].name = name}

\* Mutant: only the same table is looked for, not the name.
RegistersAnyName(t, path) ==
    /\ registry' = IF path \in ToSet(registry) THEN registry ELSE Append(registry, path)
    /\ Advances(t)

\* register_engine: the same table twice is fine, another one of its name is not.
Registers(t, path) ==
    IF Named(Tables[path].name) = {} THEN registry' = Append(registry, path) /\ Advances(t)
    ELSE /\ UNCHANGED registry
         /\ IF registry[CHOOSE i \in Named(Tables[path].name) : TRUE] = path THEN Advances(t) ELSE Fails(t)

\* load_engine_plugin up to the record: a file that cannot be opened or whose
\* table is refused by validate is not registered.
register_engine(t) ==
    /\ At(t, "register")
    /\ LET path == Step(t).path
       IN  IF path \in DOMAIN Tables /\ Tables[path].valid THEN Registers(t, path)
           ELSE UNCHANGED registry /\ Fails(t)
    /\ UNCHANGED <<script, records, jobs, session, instances, lock, buffers, sent, answer>>

\* What is said of a name's isolation stays until something else is said.
KeptIsolation(old, new) == IF new = "default" THEN old ELSE new

record_plugin(t) ==
    /\ At(t, "record")
    /\ LET s == Step(t)
           same == {i \in DOMAIN records : records[i].name = s.name}
       IN  records' = IF same = {} THEN Append(records, [name |-> s.name, path |-> s.path, isolation |-> s.isolation])
                      ELSE [i \in DOMAIN records |->
                              IF i \in same
                              THEN [records[i] EXCEPT !.path = s.path, !.isolation = KeptIsolation(@, s.isolation)]
                              ELSE records[i]]
    /\ Advances(t)
    /\ UNCHANGED <<script, registry, jobs, session, instances, lock, buffers, sent, answer>>

Recording(name, path, isolation) == [op |-> "record", name |-> name, path |-> path, isolation |-> isolation]

\* load_engine_plugin: the table is registered, then its file is recorded.
Loading(path) ==
    <<[op |-> "register", path |-> path]>> \o
    (IF path \in DOMAIN Tables THEN <<Recording(Tables[path].name, path, "default")>> ELSE << >>)

\* load_engine_manifest: an entry marked process is recorded but not loaded; the
\* entries before one that fails stay.
ManifestEntry(e) ==
    CASE e.isolation = "process" ->
            IF e.path \in DOMAIN Tables THEN <<Recording(e.name, e.path, "process")>> ELSE <<[op |-> "fail"]>>
      [] e.isolation = "default" \/ e.path \notin DOMAIN Tables -> Loading(e.path)
      [] OTHER -> Loading(e.path) \o <<Recording(Tables[e.path].name, e.path, e.isolation)>>

load_engine_manifest(entries) == FlattenSeq([i \in DOMAIN entries |-> ManifestEntry(entries[i])])

\* A manifest names a file that is not there.
EntryMissing(t) ==
    /\ At(t, "fail")
    /\ Fails(t)
    /\ UNCHANGED <<script, registry, records, jobs, session, instances, lock, buffers, sent, answer>>

-----------------------------------------------------------------------------
\* init.

looks_like_path(spec) == spec \in DOMAIN Tables \cup {"missing.so"}

\* Where the engine runs: what the session asks for, else what was recorded.
RunsIn(isolation) ==
    CASE script.isolation # "default" -> script.isolation
      [] isolation = "process" -> "process"
      [] OTHER -> "inprocess"

\* init_engine once the plugin file and the isolation are known; path "" is none.
Placed(path, isolation) ==
    CASE RunsIn(isolation) = "process" /\ path = "" -> << >>
      [] RunsIn(isolation) = "process" ->
            IF path \in DOMAIN Tables THEN <<[op |-> "host", path |-> path]>> ELSE << >>
      [] looks_like_path(script.engine) /\ path \in DOMAIN Tables ->
            Loading(path) \o <<[op |-> "find", name |-> Tables[path].name, path |-> ""]>>
      [] looks_like_path(script.engine) -> Loading(path)
      [] OTHER -> <<[op |-> "find", name |-> script.engine, path |-> path]>>

\* find_plugin_record, unless Config::engine is a path.
find_plugin_record(t) ==
    /\ At(t, "init")
    /\ LET same == {i \in DOMAIN records : records[i].name = script.engine}
           r == records[CHOOSE i \in same : TRUE]
       IN  Goes(t, CASE looks_like_path(script.engine) -> Placed(script.engine, "default")
                     [] same = {} -> Placed("", "default")
                     [] OTHER -> Placed(r.path, r.isolation))
    /\ UNCHANGED <<script, registry, records, jobs, session, instances, lock, buffers, sent, answer>>

\* find_engine; a recorded plugin that is not loaded yet is loaded.
find_engine(t) ==
    /\ At(t, "find")
    /\ LET s == Step(t)
           found == Named(s.name)
       IN  Goes(t, CASE found # {} -> <<[op |-> "create", path |-> registry[CHOOSE i \in found : TRUE]]>>
                     [] s.path = "" -> << >>
                     [] s.path \in DOMAIN Tables ->
                            Loading(s.path) \o <<[op |-> "find", name |-> Tables[s.path].name, path |-> ""]>>
                     [] OTHER -> Loading(s.path))
    /\ UNCHANGED <<script, registry, records, jobs, session, instances, lock, buffers, sent, answer>>

\* check_task: an explicit task must be one the engine declares.
check_task(path, task) == task = "none" \/ task \in Tables[path].caps

\* start_remote_engine, or create; the default task is checked after the one
\* and before the other.
EngineStarts(t) ==
    LET remote == At(t, "host")
        path == Step(t).path
        failing == IF remote THEN "host" ELSE "create"
    IN  /\ At(t, "host") \/ At(t, "create")
        /\ \/ /\ failing \in script.fails \/ ~Tables[path].valid \/ ~check_task(path, script.task)
              /\ Fails(t)
              /\ UNCHANGED <<session, instances>>
           \/ /\ Tables[path].valid /\ check_task(path, script.task)
              /\ session' = [session EXCEPT !.stage = "engine", !.engine = path, !.remote = remote]
              /\ instances' = IF remote THEN instances ELSE [instances EXCEPT ![path] = @ + 1]
              /\ Goes(t, <<[op |-> "finish"]>>)
        /\ UNCHANGED <<script, registry, records, jobs, lock, buffers, sent, answer>>

\* ~EngineState of a session that is dropped.
InstanceDestroyed ==
    instances' = IF session.remote THEN instances ELSE [instances EXCEPT ![session.engine] = @ - 1]

\* The index maps a name to the first tool of that name; the tools and the
\* skills are written into the system prompts.
rebuild_tool_index(s, tools) ==
    [s EXCEPT !.tools = tools,
              !.index = [n \in ToSet(tools) |-> CHOOSE i \in DOMAIN tools :
                                                    tools[i] = n /\ \A j \in DOMAIN tools : tools[j] = n => i <= j],
              !.told = tools]

DefaultTools == <<"read_file", "run_command">>

\* add_if_missing, one tool after the other.
WithTools(tools, more) == tools \o SelectSeq(more, LAMBDA n : n \notin ToSet(tools))

\* default_init and load_skills_dir: the tools of a new session.
InitTools ==
    LET tools == IF script.auto THEN WithTools(script.tools, DefaultTools) ELSE script.tools
        skilled == IF script.skills = "none" THEN tools ELSE WithTools(tools, <<"use_skill">>)
    IN  [rebuild_tool_index(session, skilled) EXCEPT !.skills = script.skills = "some"]

\* The rest of init: memory, then tools and skills.  A failure drops the session.
finish_init(t) ==
    /\ At(t, "finish")
    /\ \/ /\ "memory" \in script.fails \/ script.skills = "missing"
          /\ InstanceDestroyed
          /\ session' = NoSession
          /\ Fails(t)
       \/ /\ script.skills # "missing"
          /\ session' = [InitTools EXCEPT !.stage = "ready"]
          /\ UNCHANGED instances
          /\ Advances(t)
    /\ UNCHANGED <<script, registry, records, jobs, lock, buffers, sent, answer>>

\* The session ends when everyone is done with it.
Destroy ==
    /\ session.stage = "ready"
    /\ \A t \in Workers : jobs[t] = << >> /\ todo[t] = << >>
    /\ InstanceDestroyed
    /\ session' = [NoSession EXCEPT !.stage = "closed"]
    /\ UNCHANGED <<script, registry, records, jobs, todo, lock, buffers, sent, answer>>

-----------------------------------------------------------------------------
\* Tools of MCP servers; nobody else uses the session meanwhile.

ToolOf(server) == server \o "_tool"

\* connect_mcp_server fails for a tool that is there already.
Connects(server) ==
    session' = IF ToolOf(server) \in DOMAIN session.index THEN session
               ELSE rebuild_tool_index(session, Append(session.tools, ToolOf(server)))

\* unregister_tools.
Disconnects(server) ==
    session' = rebuild_tool_index(session, SelectSeq(session.tools, LAMBDA n : n # ToolOf(server)))

ServerJob(t, job) ==
    /\ session.stage = "ready"
    /\ \A u \in Workers : todo[u] = << >>
    /\ IF job.do = "connect" THEN Connects(job.server) ELSE Disconnects(job.server)
    /\ UNCHANGED <<todo, sent, answer>>

-----------------------------------------------------------------------------
\* Requests.

tool_allowed(allowed, name) == allowed = {} \/ name \in allowed

Allowed(allowed, tools) == SelectSeq(tools, LAMBDA n : tool_allowed(allowed, n))

\* engine_task: chat where the engine can, else its lowest capability.
engine_task(caps) ==
    CASE "text_gen" \in caps \/ caps = {} -> "text_gen"
      [] "embed" \in caps -> "embed"
      [] OTHER -> "generic"

\* injected_system_text: the tools an engine cannot be given natively, and the
\* skills; a node with allowed tools is told only of those.
injected_system_text(allowed, native) ==
    [tools |-> IF native THEN << >> ELSE Allowed(allowed, session.told),
     skills |-> session.skills /\ tool_allowed(allowed, "use_skill")]

\* The agent_request of a call.  Only chat carries tools.
MakeRequest(job) ==
    LET asked == IF job.task # "none" THEN job.task ELSE script.task
        task == IF asked = "none" THEN engine_task(Tables[session.engine].caps) ELSE asked
    IN  [task |-> task, auto |-> asked = "none", allowed |-> job.allowed,
         tools |-> IF task = "text_gen" THEN Allowed(job.allowed, session.tools) ELSE << >>,
         system |-> injected_system_text(job.allowed, Tables[session.engine].native)]

Alloc(off, size) == IF size = 0 \/ off + size > ArenaSize THEN off ELSE off + size

Fits(off, size) == size > 0 /\ off + size <= ArenaSize

\* infer_engine, infer_task and the first half of run_engine: the request is
\* built in the arena of the thread, after what the turn has there already.
Infers(t, job) ==
    LET req == MakeRequest(job)
        off == Alloc(job.used, job.size)
    IN  /\ session.stage = "ready"
        /\ IF ~req.auto /\ ~check_task(session.engine, req.task) THEN
               answer' = [answer EXCEPT ![t] = [status |-> "unsupported"]] /\ UNCHANGED <<todo, sent>>
           ELSE IF ~Fits(job.used, job.size) THEN
               answer' = [answer EXCEPT ![t] = [status |-> "arena_full"]] /\ UNCHANGED <<todo, sent>>
           ELSE /\ sent' = [sent EXCEPT ![t] = req]
                /\ answer' = [answer EXCEPT ![t] = [status |-> "none"]]
                /\ Goes(t, <<[op |-> "lock", off |-> off], [op |-> "run", off |-> off],
                             [op |-> "copy", off |-> off], [op |-> "free", off |-> off]>>)
        /\ UNCHANGED session

\* Mutant: nobody locks.
NeverExclusive == FALSE

\* Calls of an engine in this process exclude each other unless it is
\* concurrent; a remote engine has its own order (RemoteEngine).
Exclusive == ~session.remote /\ ~Tables[session.engine].concurrent

\* run_mutex.
Locks(t) ==
    /\ At(t, "lock")
    /\ IF Exclusive THEN lock = Nobody /\ lock' = t ELSE UNCHANGED lock
    /\ Advances(t)
    /\ UNCHANGED <<script, registry, records, jobs, session, instances, buffers, sent, answer>>

Unlocks(t) == lock' = IF lock = t THEN Nobody ELSE lock

\* Where an engine keeps a response until it is freed: for each caller if it is
\* concurrent or remote, else in one place.
Slot(t) == IF session.remote \/ Tables[session.engine].concurrent THEN t ELSE Nobody

\* engine->run or remote_run.  A failed run is not freed.
RunEngine(t) ==
    /\ At(t, "run")
    /\ \/ /\ \E r \in Responses :
                buffers' = [s \in DOMAIN buffers \cup {Slot(t)} |->
                                IF s = Slot(t) THEN [to |-> t, response |-> r] ELSE buffers[s]]
          /\ Advances(t)
          /\ UNCHANGED <<lock, answer>>
       \/ /\ "run" \in script.fails
          /\ \E code \in {"cancelled", "decode_failed"} : answer' = [answer EXCEPT ![t] = [status |-> code]]
          /\ Unlocks(t)
          /\ Fails(t)
          /\ UNCHANGED buffers
    /\ UNCHANGED <<script, registry, records, jobs, session, instances, sent>>

\* Offsets after a sequence of allocations; one that does not fit takes nothing.
After(off, sizes) == FoldLeft(Alloc, off, sizes)

\* Whether each of a sequence of allocations fits.
AllFit(off, sizes) ==
    \A i \in DOMAIN sizes : sizes[i] = 0 \/ Fits(After(off, SubSeq(sizes, 1, i - 1)), sizes[i])

\* to_infer_response: the text, the arrays, then what the tensors hold (their
\* names, like the strings of files and calls, take room but are not checked).
to_infer_response(r, off) ==
    LET spans == <<r.text + 1, Len(r.tensors), r.files, r.calls>>
        strings == [i \in 1 .. 2 * r.files |-> 1]
        Tensor(i) == <<1, IF r.tensors[i] = 0 THEN 1 ELSE r.tensors[i], 1>>
        start == After(After(off, spans), strings)
        sizes == FlattenSeq([i \in DOMAIN r.tensors |-> Tensor(i)])
        held == \A i \in DOMAIN sizes : i % 3 = 0 \/ Fits(After(start, SubSeq(sizes, 1, i - 1)), sizes[i])
    IN  IF AllFit(off, spans) /\ held
        THEN [status |-> "ok", text |-> r.text, tensors |-> r.tensors, files |-> r.files, calls |-> r.calls]
        ELSE [status |-> "arena_full"]

CopyResponse(t) ==
    /\ At(t, "copy")
    /\ answer' = [answer EXCEPT ![t] =
                    to_infer_response(buffers[Slot(t)].response, Step(t).off) @@
                    [to |-> buffers[Slot(t)].to, off |-> Step(t).off]]
    /\ Advances(t)
    /\ UNCHANGED <<script, registry, records, jobs, session, instances, lock, buffers, sent>>

\* free_response or remote_release, and the end of the critical section.
FreeResponse(t) ==
    /\ At(t, "free")
    /\ buffers' = [s \in DOMAIN buffers \ {Slot(t)} |-> buffers[s]]
    /\ Unlocks(t)
    /\ Advances(t)
    /\ UNCHANGED <<script, registry, records, jobs, session, instances, sent, answer>>

-----------------------------------------------------------------------------
\* A thread takes its next job.
StartJob(t) ==
    /\ todo[t] = << >> /\ jobs[t] # << >>
    /\ LET job == Head(jobs[t])
       IN  CASE job.do = "register" ->
                    Goes(t, <<[op |-> "register", path |-> job.path]>>) /\ UNCHANGED <<session, sent, answer>>
             [] job.do = "load" -> Goes(t, Loading(job.path)) /\ UNCHANGED <<session, sent, answer>>
             [] job.do = "manifest" ->
                    Goes(t, load_engine_manifest(job.entries)) /\ UNCHANGED <<session, sent, answer>>
             [] job.do = "init" -> Goes(t, <<[op |-> "init"]>>) /\ UNCHANGED <<session, sent, answer>>
             [] job.do \in {"connect", "disconnect"} -> ServerJob(t, job)
             [] job.do = "infer" -> Infers(t, job)
    /\ jobs' = [jobs EXCEPT ![t] = Tail(@)]
    /\ UNCHANGED <<script, registry, records, instances, lock, buffers>>

Next ==
    \/ \E t \in Workers :
        \/ StartJob(t)
        \/ register_engine(t) \/ record_plugin(t) \/ EntryMissing(t)
        \/ find_plugin_record(t) \/ find_engine(t) \/ EngineStarts(t) \/ finish_init(t)
        \/ Locks(t) \/ RunEngine(t) \/ CopyResponse(t) \/ FreeResponse(t)
    \/ Destroy

Spec == Init /\ [][Next]_providerVars

-----------------------------------------------------------------------------
Entries ==
    UNION {ToSet(job.entries) : job \in {j \in UNION {ToSet(script.jobs[t]) : t \in Workers} : j.do = "manifest"}}

\* register_engine, init and ~EngineState, whatever the threads load meanwhile:
\* no two tables of a name are registered; a session runs the plugin it names,
\* by path or by the name of the engine or of a manifest entry, where its
\* configuration says and with a default task the engine has; and an engine
\* instance exists exactly as long as a session, or an init that may still
\* fail, owns it.
EnginesExact ==
    /\ \A i, j \in DOMAIN registry : Tables[registry[i]].name = Tables[registry[j]].name => i = j
    /\ \A p \in DOMAIN Tables :
        instances[p] = IF session.stage \in {"engine", "ready"} /\ ~session.remote /\ session.engine = p THEN 1 ELSE 0
    /\ session.stage = "ready" =>
        /\ check_task(session.engine, script.task)
        /\ script.isolation # "default" => (session.remote <=> script.isolation = "process")
        /\ ~session.remote => session.engine \in ToSet(registry)
        /\ IF looks_like_path(script.engine) THEN session.engine = script.engine
           ELSE \/ Tables[session.engine].name = script.engine
                \/ \E e \in Entries : e.name = script.engine /\ e.path = session.engine

\* The tools a model is told of are tools it can call: the index finds the
\* first tool of every name, also after servers came and went, and a request
\* names only tools that the index has and the node allows, natively or in the
\* system prompt but not only there for a native engine; skills are named only
\* with the tool that loads them (rebuild_tool_index, injected_system_text).
ToolsCallable ==
    /\ session.stage = "ready" =>
        /\ DOMAIN session.index = ToSet(session.tools)
        /\ \A n \in DOMAIN session.index :
            /\ session.tools[session.index[n]] = n
            /\ \A i \in 1 .. session.index[n] - 1 : session.tools[i] # n
    /\ \A t \in Workers : At(t, "run") =>
        LET req == sent[t]
            named == ToSet(req.tools) \cup ToSet(req.system.tools)
                        \cup (IF req.system.skills THEN {"use_skill"} ELSE {})
        IN  /\ \A n \in named : n \in DOMAIN session.index /\ tool_allowed(req.allowed, n)
            /\ Tables[session.engine].native => req.system.tools = << >>
            /\ req.task = "text_gen" /\ ~Tables[session.engine].native => req.tools = req.system.tools

SessionsExact == EnginesExact /\ ToolsCallable

RECURSIVE Total(_)

Total(sizes) == IF sizes = << >> THEN 0 ELSE (IF Head(sizes) = 0 THEN 1 ELSE Head(sizes)) + Total(Tail(sizes))

\* run_engine: a caller gets the engine's answer to its own request, though an
\* engine that is not concurrent keeps one response at a time, and gets all of
\* its text and tensors or an error; a task that is sent is one the engine has.
AnswersAreOwn ==
    /\ \A t \in Workers : answer[t].status = "ok" =>
        /\ answer[t].to = t
        /\ answer[t].off + answer[t].text + 1 + 2 * Len(answer[t].tensors) + answer[t].files + answer[t].calls
                + Total(answer[t].tensors) <= ArenaSize
    /\ \A t \in Workers : sent[t].task # "none" /\ session.stage = "ready" =>
        \/ sent[t].task \in Tables[session.engine].caps
        \/ sent[t].task = "text_gen" /\ Tables[session.engine].caps = {}
    /\ session.stage = "ready" /\ Exclusive =>
        \A t, u \in Workers :
            (\A w \in {t, u} : todo[w] # << >> /\ Step(w).op \in {"run", "copy", "free"}) => t = u
=============================================================================
