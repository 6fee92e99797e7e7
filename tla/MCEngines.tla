----------------------------- MODULE MCEngines ------------------------------
(***************************************************************************)
(* The engines side by side: the rounds of the llama engine (LlamaBatcher, *)
(* with three interchangeable generations), its requests (LlamaEngine),    *)
(* the texts in which it looks for loose tool calls, and the sessions that *)
(* load and run engines (EngineProvider).  A behaviour is about one.       *)
(***************************************************************************)
EXTENDS LlamaBatcher, TLC

CONSTANT Layers     \* which of "rounds", "requests", "loose", "sessions"

ASSUME LayersTyped == Layers \subseteq {"rounds", "requests", "loose", "sessions"}

VARIABLES
    layer,      \* what this behaviour is about
    sample,     \* a generated text, and where its first tool call is
    config, stage, heap, pooled, request, reply,
    script, registry, records, jobs, todo, session, instances, lock, buffers, sent, answer

-----------------------------------------------------------------------------
(* Rounds: up to three generations in one; and more generations than       *)
(* sequences, a full sequence and reset_cache.                             *)

ManyRounds == [seqs |-> 3, ctx |-> 3, tokens |-> 2, happens |-> {"decode"}]
Contended == [seqs |-> 2, ctx |-> 4, tokens |-> 4, happens |-> {"decode", "clear"}]
AllScenes == {ManyRounds, Contended}
GenSymmetry == Permutations(Gens)

-----------------------------------------------------------------------------
(* Models and configurations of the llama engine *)

Chat == [mode |-> "generate", mmproj |-> FALSE, sees |-> {}, pooling |-> "unspecified", declared |-> "none",
         classifier |-> FALSE, decides |-> FALSE, keeps |-> "all", adds |-> {"bos", "eos"}, rerank |-> << >>,
         words |-> {}, ocr |-> "", ctx |-> 16, batch |-> 8, image |-> 2]
Vision == [Chat EXCEPT !.mmproj = TRUE, !.sees = {"image"}, !.words = {"glm", "ocr"}]
NoSystem == [Vision EXCEPT !.keeps = "no_system", !.sees = {"image", "audio"}, !.ctx = 12, !.words = {"paddleocr"}]
Embedder == [Chat EXCEPT !.mode = "embed", !.batch = 4]
Reranker == [Chat EXCEPT !.mode = "rerank", !.classifier = TRUE, !.declared = "rank", !.batch = 16,
                         !.adds = {"bos", "eos", "sep"}]
Configs == {Chat, Vision, NoSystem, [Vision EXCEPT !.ocr = "own"], [Chat EXCEPT !.decides = TRUE],
            [Chat EXCEPT !.mode = "other"], [Embedder EXCEPT !.mmproj = TRUE],
            Embedder, [Embedder EXCEPT !.pooling = "mean", !.adds = {}, !.declared = "rank"],
            Reranker, [Reranker EXCEPT !.rerank = <<"c", "Q", "a", "D", "c">>, !.declared = "none"],
            [Reranker EXCEPT !.classifier = FALSE], [Reranker EXCEPT !.declared = "mean"]}

-----------------------------------------------------------------------------
(* Requests: one or two messages of words, pictures and typed markers, and *)
(* one of each part that cannot be used; messages that have a marker left  *)
(* when the typed ones are erased                                          *)

UpTo(S, n) == UNION {[1 .. k -> S] : k \in 0 .. n}
Words(text) == [kind |-> "text", is |-> "text", id |-> "", text |-> text]
Picture(id) == [kind |-> "file", is |-> "image", id |-> id, text |-> << >>]
Shapes == {"words", "typed", "picture"}
Parts(shapes, ids) ==
    [i \in DOMAIN shapes |-> CASE shapes[i] = "words" -> Words(<<"a">>)
                               [] shapes[i] = "typed" -> Words(<<"m", "d", "c">>)
                               [] OTHER -> Picture(ids[i])]
User(shapes) == [role |-> "user", parts |-> Parts(shapes, <<"u1", "u2", "u3">>)]
System(shapes) == [role |-> "system", parts |-> Parts(shapes, <<"s1", "s2", "s3">>)]
OddParts == {[Picture("o") EXCEPT !.is = "video"], [Picture("o") EXCEPT !.is = "broken"],
             [Picture("o") EXCEPT !.is = "broken", !.kind = "bytes"], [Picture("o") EXCEPT !.is = "audio"],
             [Picture("o") EXCEPT !.kind = "tensor"]}
Odd == {<<[role |-> "user", parts |-> <<Words(<<"a">>), p>>]>> : p \in OddParts}
Messages == {<<User(u)>> : u \in UpTo(Shapes, 3)}
                \cup {<<System(s), User(u)>> : s \in UpTo(Shapes, 1), u \in UpTo(Shapes, 2)} \cup Odd
Remnants == {<<Words(<<"m", "m", "d", "d">>)>>, <<Words(<<"m">>), Words(<<"d">>)>>,
             <<[Words(<<"m", "d">>) EXCEPT !.kind = "call"]>>}
Leftovers == {<<System(s), [role |-> "user", parts |-> t \o p]>> :
                s \in UpTo({"picture"}, 1), t \in Remnants, p \in {<< >>, <<Picture("u1")>>}}
Req(task, messages, tools, max, fields) ==
    [task |-> task, messages |-> messages, tools |-> tools, max |-> max, fields |-> fields]
Field(key, value) == [key |-> key, typed |-> TRUE, value |-> value]
Two == <<<<"a">>, <<"a", "c">>>>
Decisions ==
    {<<Field("options", Two)>>, <<Field("options", Two), Field("end", FALSE)>>,
     <<Field("options", <<<<"a", "c", "a">>, <<"a", "a">>, <<"c">>>>), Field("instructions", FALSE)>>,
     <<Field("mode", "score"), Field("scale", <<8, 11>>)>>, <<Field("mode", "score"), Field("scale", <<-1, 100>>)>>,
     <<Field("mode", "yesno"), Field("options", Two)>>, <<Field("mode", "other"), Field("options", Two)>>,
     <<Field("options", <<<<"a">>>>)>>, <<Field("options", <<<<"a">>, << >>>>)>>, << >>,
     <<[Field("options", Two) EXCEPT !.typed = FALSE]>>, <<Field("options", Two), Field("options", Two)>>}
Requests ==
    {Req("text_gen", m, t, n, << >>) : m \in Messages, t \in BOOLEAN, n \in {3, 20}}
    \cup {Req("text_gen", m, FALSE, 3, << >>) : m \in Leftovers}
    \cup {Req("ocr", m, FALSE, 0, f) : m \in Messages,
            f \in {<< >>, <<Field("prompt", <<"a">>)>>, <<Field("prompt", <<"m", "d">>)>>}}
    \cup {Req("decide", m, FALSE, 0, f) : f \in Decisions,
            m \in {<<System(<<"typed">>)>>} \cup {<<User(u)>> : u \in UpTo(Shapes, 2)}}
    \cup {Req(task, m, FALSE, 0, << >>) : task \in {"embed", "rerank"}, m \in Odd \cup {<<User(<<"words">>)>>}}
Outputs ==
    {<< >>, <<<<"a">>, <<"a">>, <<"a">>, <<"a">>>>, <<<<"a">>, <<"u">>, <<"v">>, <<"a">>>>,
     <<<<"u", "v", "a">>, <<"a">>>>, <<<<"a">>, <<"C">>>>, <<<<"P">>, <<"C">>>>,
     <<<<"{">>, <<"N", "}">>, <<"}">>>>}
Many(n) == [i \in 1 .. n |-> "a"]
TextBatches == UpTo({<< >>, <<"a">>, <<"c", "a">>, Many(14)}, 4)
Queries == {<< >>, <<"c">>, <<"c">> \o Many(19)}
PoolSeqs == 2
TaskBatch == 3

R == INSTANCE LlamaEngine

ASSUME RequestsTyped ==
    /\ \A c \in Configs : c.mode \in {"generate", "embed", "rerank", "other"} /\ c.batch > 1
    /\ \A r \in Requests : r.task \in {"text_gen", "decide", "ocr", "embed", "rerank"}

(* Texts with a tool call, put together: its members are words, strings    *)
(* with braces and escapes in them, and objects                            *)
Items == {<<"a">>, <<"{", "}">>, <<"q", "{", "q">>, <<"q", "}", "q">>, <<"q", "b", "q", "}", "q">>,
          <<"q", "b", "b", "q">>}
Calls == {<<"{", "N">> \o x \o y \o <<"}">> : x, y \in Items \cup {<< >>}}
Before == UpTo({"a", "}", "q", "b"}, 1) \cup {<<"{", "}">>, <<"{", "q", "N", "q", "}">>}
After == UpTo({"{", "}", "q", "N"}, 2)
NoSample == [text |-> << >>, at |-> 0]
Samples ==
    {[text |-> b \o c \o a, at |-> Len(b) + 1] : b \in Before, c \in Calls, a \in After}
    \cup {[text |-> <<"{">> \o c \o <<"}">> \o a, at |-> 2] : c \in Calls, a \in After}
    \cup {[text |-> b \o a, at |-> 0] : b \in Before, a \in UpTo({"{", "}", "q", "b"}, 3)}

-----------------------------------------------------------------------------
(* Sessions: two engines of one name, one of another and one that is       *)
(* refused; a thread that initialises a session and one that loads         *)
(* something else meanwhile; then both use the session                     *)

Workers == {"w1", "w2"}
Nobody == "nobody"
Engine(name, caps, concurrent, native, valid) ==
    [name |-> name, caps |-> caps, concurrent |-> concurrent, native |-> native, valid |-> valid]
Tables == [p \in {"a.so", "b.so", "c.so", "d.so"} |->
            CASE p = "a.so" -> Engine("alpha", {"text_gen"}, FALSE, FALSE, TRUE)
              [] p = "b.so" -> Engine("beta", {"embed", "generic"}, TRUE, TRUE, TRUE)
              [] p = "c.so" -> Engine("alpha", {}, FALSE, TRUE, TRUE)
              [] OTHER -> Engine("delta", {}, FALSE, FALSE, FALSE)]
Load(path) == [do |-> "load", path |-> path]
Entry(path, isolation, name) == [path |-> path, isolation |-> isolation, name |-> name]
Manifest(entries) == [do |-> "manifest", entries |-> entries]
Starts == [do |-> "init"]
Server(what) == [do |-> what, server |-> "mcp"]
Infer(task, allowed, used) == [do |-> "infer", task |-> task, allowed |-> allowed, size |-> 2, used |-> used]
Both(one, two) == [w \in Workers |-> IF w = "w1" THEN one ELSE two]
Script(engine, one, two) ==
    [jobs |-> Both(one, two), engine |-> engine, isolation |-> "default", task |-> "none",
     tools |-> <<"t", "read_file", "t">>, auto |-> TRUE, skills |-> "some", fails |-> {"create", "memory", "host", "run"}]

ByName == Script("alpha", <<Load("a.so"), Starts, Infer("none", {}, 0), Infer("embed", {}, 0)>>,
                 <<Load("c.so"), Infer("text_gen", {"t"}, 2), Infer("none", {}, 9)>>)
ByManifest == Script("alpha",
    <<Manifest(<<Entry("a.so", "process", "alpha"), Entry("b.so", "inprocess", ""), Entry("none.so", "process", "")>>),
      Starts, Server("connect"), Server("connect"), Infer("none", {"t", "use_skill"}, 0), Server("disconnect"),
      Infer("none", {}, 5)>>, <<Load("c.so"), Infer("text_gen", {}, 11)>>)
ByPath == [Script("b.so", <<Starts, Infer("embed", {}, 0), Infer("none", {}, 3)>>,
                  <<[do |-> "register", path |-> "b.so"], Infer("generic", {}, 0), Infer("text_gen", {}, 0)>>)
           EXCEPT !.task = "embed", !.skills = "empty"]
Scripts == {ByName, ByManifest, [ByManifest EXCEPT !.isolation = "inprocess"], ByPath,
            [ByPath EXCEPT !.isolation = "process", !.tools = << >>, !.auto = FALSE],
            [ByName EXCEPT !.skills = "missing"], [ByName EXCEPT !.task = "embed"],
            [ByName EXCEPT !.isolation = "process"], [ByPath EXCEPT !.engine = "d.so"],
            [ByPath EXCEPT !.engine = "missing.so"],
            [ByManifest EXCEPT !.isolation = "process", !.skills = "none"],
            Script("gamma", <<Manifest(<<Entry("b.so", "process", "gamma"), Entry("none.so", "default", "")>>), Starts,
                              Infer("none", {}, 0)>>, <<Load("b.so"), Load("d.so")>>),
            [Script("gamma", <<Manifest(<<Entry("c.so", "process", "gamma")>>), Starts, Infer("none", {"read_file"}, 0)>>,
                    <<Load("a.so"), Infer("none", {}, 0)>>) EXCEPT !.isolation = "inprocess"]}
Responses == {[text |-> 1, tensors |-> << >>, files |-> 0, calls |-> 1],
              [text |-> 0, tensors |-> <<2, 0>>, files |-> 1, calls |-> 0]}
ArenaSize == 14

P == INSTANCE EngineProvider

-----------------------------------------------------------------------------
requestVars == <<config, stage, heap, pooled, request, reply>>
sessionVars == <<script, registry, records, jobs, todo, session, instances, lock, buffers, sent, answer>>
mcVars == <<layer, sample, vars, requestVars, sessionVars>>

\* What does not move starts in one way only.
MCInit ==
    /\ layer \in Layers
    /\ Init /\ R!Init /\ P!Init
    /\ sample \in IF layer = "loose" THEN Samples ELSE {NoSample}
    /\ layer # "rounds" => scene = Contended
    /\ layer # "requests" => config = Chat
    /\ layer # "sessions" => script = ByName

\* Sessions may be over, or never have come to be, when no thread is at work.
SessionsRest == \A t \in Workers : todo[t] = << >>

MCNext ==
    /\ UNCHANGED <<layer, sample>>
    /\ \/ layer = "rounds" /\ Next /\ UNCHANGED <<requestVars, sessionVars>>
       \/ layer = "requests" /\ R!Next /\ UNCHANGED <<vars, sessionVars>>
       \/ layer = "sessions" /\ P!Next /\ UNCHANGED <<vars, requestVars>>
       \/ layer = "sessions" /\ SessionsRest /\ UNCHANGED <<vars, requestVars, sessionVars>>
       \/ layer = "loose" /\ UNCHANGED <<vars, requestVars, sessionVars>>

MCSpec == MCInit /\ [][MCNext]_mcVars

-----------------------------------------------------------------------------
(* The properties of LlamaEngine and EngineProvider, as they are stated    *)
(* there                                                                   *)

\* A prompt has the words and pictures of its request, or the request is refused,
\* and no special token of the user's; the first tool call of a text is found
\* (llama_run).
PromptsExact == R!PromptsExact /\ R!LooseCallExact(sample)

\* Options, texts and documents are scored on their own (run_decide, run_embed,
\* run_rerank, embed, rerank).
ScoresAreOwn == R!ScoresAreOwn

\* A failed or destroyed instance leaves nothing and one that is ready can do
\* what it is for (llama_create); a session runs the engine it names and offers
\* tools that can be called (init, register_engine, rebuild_tool_index).
EnginesReady == R!InstancesExact /\ P!SessionsExact

\* A caller gets its own answer, whole (run_engine).
AnswersAreOwn == P!AnswersAreOwn
=============================================================================
