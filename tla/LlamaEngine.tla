---------------------------- MODULE LlamaEngine ----------------------------
(***************************************************************************)
(* The llama engine as its callers see it (engines/llama/llama_engine.cpp):*)
(* create, and what run does with a chat, decide, OCR, embed or rerank     *)
(* request, and the embed() and rerank() of the core that batch their      *)
(* texts into such requests (src/core/rag/engine_tasks.cpp).  How several  *)
(* generations share the context is LlamaBatcher's subject; here one run   *)
(* has its sequence to itself.                                             *)
(*                                                                         *)
(* A text is a sequence of symbols: "a" is any word, "c" the spelling of a *)
(* control token, "m" and "d" the halves of the media marker.  A token is  *)
(* a symbol and how it was read: "plain", "special", or "bitmap" for the   *)
(* tokens of a picture.                                                    *)
(* A generated text also has "{", "}", quotes "q", backslashes "b", the    *)
(* name member "N" of a tool call, "C" for a call in the model's own       *)
(* format and "P" for something that format cannot be parsed with.         *)
(***************************************************************************)
EXTENDS Integers, FiniteSets, SequencesExt

CONSTANTS
    Configs,     \* the configurations and models considered: see Config
    Requests,    \* the requests considered: see Request
    Outputs,     \* what a model may generate: sequences of pieces of text
    TextBatches, \* the texts of an embed() and the documents of a rerank()
    Queries,     \* the queries of a rerank()
    PoolSeqs,    \* kPoolSeqs, the sequences of one pooled decode
    TaskBatch    \* kBatch, the texts of one embed() or rerank() request

Config ==
    [mode : {"generate", "embed", "rerank", "other"},
     mmproj : BOOLEAN,                        \* a projector is configured
     sees : SUBSET {"image", "audio"},        \* what the projector supports
     pooling : {"unspecified", "mean"},       \* options.pooling
     declared : {"none", "mean", "rank"},     \* the pooling the model declares
     classifier : BOOLEAN,                    \* the model has a classification head
     decides : BOOLEAN,                       \* a native decision model
     keeps : {"all", "no_system"},            \* the messages the chat template keeps
     adds : SUBSET {"bos", "eos", "sep"},      \* the special tokens the vocabulary has
     rerank : Seq({"a", "c", "Q", "D"}),      \* the rerank template, or << >>
     words : SUBSET {"paddleocr", "glm", "ocr"},  \* in the names of the model
     ocr : {"", "own"},                       \* options.ocr_prompt
     ctx : Nat, batch : Nat \ {0}, image : Nat \ {0}]

Part ==
    [kind : {"text", "file", "bytes", "tensor", "call"},  \* "call": the arguments of a tool call
     is : {"text", "image", "audio", "video", "broken"},
     id : STRING, text : Seq({"a", "c", "m", "d"})]

Request ==
    [task : {"text_gen", "decide", "ocr", "embed", "rerank"},
     messages : Seq([role : {"system", "user"}, parts : Seq(Part)]),
     tools : BOOLEAN, max : Int,
     fields : Seq([key : STRING, typed : BOOLEAN, value : STRING \cup BOOLEAN \cup Seq(Int \cup Seq(STRING))])]

VARIABLES
    config,   \* the Config of this behaviour, fixed at the start
    stage,    \* "none", "ready" or "failed": what create came to
    heap,     \* the llama.cpp objects that are allocated
    pooled,   \* the pooling of the context
    request,  \* the request that was run last
    reply     \* what it was answered

engineVars == <<config, stage, heap, pooled, request, reply>>

Fail(code) == [status |-> code, prompt |-> << >>, text |-> << >>, streamed |-> << >>, calls |-> 0,
               completion |-> 0, inputs |-> << >>, rows |-> << >>, scored |-> << >>]

Init ==
    /\ config \in Configs
    /\ stage = "none" /\ heap = {} /\ pooled = "none"
    /\ request = [task |-> "none"]
    /\ reply = Fail("none")

\* The first error of a sequence of outcomes.
FirstError(outcomes) ==
    LET errors == SelectSeq(outcomes, LAMBDA e : e # "ok") IN IF errors = << >> THEN "ok" ELSE Head(errors)

Minimum(a, b) == IF a < b THEN a ELSE b

Maximum(a, b) == IF a > b THEN a ELSE b

-----------------------------------------------------------------------------
\* create.

\* What create frees when a step fails, by hand or by deleting the Instance.
Releases(step) ==
    CASE step = "model" -> {}
      [] step = "mmproj" -> {"model"}
      [] step = "context" -> {"mmproj", "model"}
      [] step = "reranker" -> {"ctx", "model"}
      [] step = "template" -> {"ctx", "mmproj", "model"}

\* What is allocated when a step runs.
Allocated(step) ==
    CASE step = "model" -> {}
      [] step = "mmproj" -> {"model"}
      [] step = "context" -> {"model"} \cup (IF config.mmproj THEN {"mmproj"} ELSE {})
      [] OTHER -> {"model", "ctx"} \cup (IF config.mmproj THEN {"mmproj"} ELSE {})

\* The pooling of the new context: rank for a reranker, else the one asked for
\* or the model's, and mean when there is none.
ContextPooling ==
    CASE config.mode = "generate" -> "none"
      [] config.mode = "rerank" -> "rank"
      [] config.pooling = "unspecified" /\ config.declared = "none" -> "mean"
      [] config.pooling = "unspecified" -> config.declared
      [] OTHER -> config.pooling

\* A declared pooling that is not rank rules a reranker out.
maybe_reranker == config.declared \in {"none", "rank"}

IsReranker == config.classifier /\ maybe_reranker

\* The steps that can fail for this configuration.
Steps ==
    {"model", "context"} \cup (IF config.mmproj THEN {"mmproj"} ELSE {})
        \cup (IF config.mode = "generate" THEN {"template"} ELSE {})

ConfigRefused == config.mode = "other" \/ (config.mode # "generate" /\ config.mmproj)

CreateFails(step) ==
    /\ stage' = "failed"
    /\ heap' = heap \cup (Allocated(step) \ Releases(step))
    /\ UNCHANGED <<config, pooled, request, reply>>

llama_create ==
    /\ stage # "ready"
    /\ \/ /\ ConfigRefused
          /\ stage' = "failed"
          /\ UNCHANGED <<config, heap, pooled, request, reply>>
       \/ ~ConfigRefused /\ \E step \in Steps : CreateFails(step)
       \/ ~ConfigRefused /\ config.mode = "rerank" /\ ~IsReranker /\ CreateFails("reranker")
       \/ /\ ~ConfigRefused
          /\ config.mode = "rerank" => IsReranker
          /\ stage' = "ready"
          /\ heap' = Allocated("template")
          /\ pooled' = ContextPooling
          /\ UNCHANGED <<config, request, reply>>

\* The destructors of Instance and Batcher.
llama_destroy ==
    /\ stage = "ready"
    /\ stage' = "none" /\ heap' = {} /\ pooled' = "none"
    /\ request' = [task |-> "none"] /\ reply' = Fail("none")
    /\ UNCHANGED config

-----------------------------------------------------------------------------
\* Prompts.

is_media(part) == part.kind \in {"file", "bytes"}

Parts(req) == FlattenSeq([i \in DOMAIN req.messages |-> req.messages[i].parts])

MediaParts(req) == SelectSeq(Parts(req), is_media)

TextParts(req) == SelectSeq(Parts(req), LAMBDA p : p.kind = "text")

MediaError(part) ==
    CASE part.is = "video" -> "unsupported"
      [] part.is = "broken" -> IF part.kind = "file" THEN "filesystem" ELSE "parse"
      [] part.is \notin config.sees -> "unsupported"
      [] OTHER -> "ok"

load_media(req) == FirstError([i \in DOMAIN MediaParts(req) |-> MediaError(MediaParts(req)[i])])

Marker == <<"m", "d">>

MarkerAt(text, i) == i < Len(text) /\ SubSeq(text, i, i + 1) = Marker

\* Mutant: markers that a user typed stay in the text.
KeepMarkers(text) == text

RECURSIVE EraseFrom(_, _)

\* One pass: what an erasure joins is not looked at again.
EraseFrom(text, at) ==
    LET found == {i \in at .. Len(text) - 1 : MarkerAt(text, i)}
        i == Min(found)
    IN  IF found = {} THEN text
        ELSE EraseFrom(SubSeq(text, 1, i - 1) \o SubSeq(text, i + 2, Len(text)), i)

erase_all(text) == EraseFrom(text, 1)

\* The content of a message: with a projector a media part becomes a marker, and
\* every text part loses its own; tool calls are handed to the template as they are.
Content(message) ==
    FlattenSeq([i \in DOMAIN message.parts |->
        LET part == message.parts[i]
        IN  CASE part.kind = "text" -> IF config.mmproj THEN erase_all(part.text) ELSE part.text
              [] part.kind = "call" -> part.text
              [] is_media(part) /\ config.mmproj -> Marker
              [] OTHER -> << >>])

build_inputs(req) ==
    [i \in DOMAIN req.messages |-> [role |-> req.messages[i].role, content |-> Content(req.messages[i])]]

\* The chat template puts its own text around the messages it keeps.
Rendered(inputs) ==
    LET kept == SelectSeq(inputs, LAMBDA m : config.keeps = "all" \/ m.role # "system")
        frame == [text |-> <<"c", "f">>, input |-> FALSE]
    IN  FlattenSeq([i \in DOMAIN kept |-> <<frame, [text |-> kept[i].content, input |-> TRUE]>>])
            \o <<frame>>

\* Only where special tokens are parsed does a spelling become one.
Token(symbol, parse_special) ==
    <<symbol, IF parse_special /\ symbol = "c" THEN "special" ELSE "plain">>

tokenize_text(text, parse_special) == [i \in DOMAIN text |-> Token(text[i], parse_special)]

bos == <<"bos", "special">>

eos == <<"eos", "special">>

tokenize_prompt(prompt) ==
    <<bos>> \o FlattenSeq([i \in DOMAIN prompt |-> tokenize_text(prompt[i].text, ~prompt[i].input)])

\* A part of the prompt with every marker in it as one symbol.
Split(text) ==
    FlattenSeq([i \in DOMAIN text |->
        CASE MarkerAt(text, i) -> <<"marker">>
          [] i > 1 /\ MarkerAt(text, i - 1) -> << >>
          [] OTHER -> <<text[i]>>])

Markers(prompt) ==
    SelectSeq(FlattenSeq([i \in DOMAIN prompt |-> Split(prompt[i].text)]), LAMBDA s : s = "marker")

\* Each marker takes the next bitmap.
tokenize_media_prompt(prompt, bitmaps) ==
    LET symbols == FlattenSeq([i \in DOMAIN prompt |->
                        [j \in DOMAIN Split(prompt[i].text) |->
                            [symbol |-> Split(prompt[i].text)[j], input |-> prompt[i].input]]])
        Count(k) == Cardinality({j \in 1 .. k : symbols[j].symbol = "marker"})
    IN  <<bos>> \o [k \in DOMAIN symbols |->
            IF symbols[k].symbol = "marker" THEN <<bitmaps[Count(k)].id, "bitmap">>
            ELSE Token(symbols[k].symbol, ~symbols[k].input)]

PromptFails(code) == [error |-> code, tokens |-> << >>]

\* What llama_run and render_task_prompt make of the messages; fault is where
\* the template or a decode fails.
render_task_prompt(req, inputs, fault) ==
    LET bitmaps == MediaParts(req)
        prompt == Rendered(inputs)
    IN  CASE bitmaps # << >> /\ ~config.mmproj -> PromptFails("unsupported")
          [] load_media(req) # "ok" -> PromptFails(load_media(req))
          [] fault = "session" -> PromptFails("invalid")
          [] bitmaps = << >> -> [error |-> "ok", tokens |-> tokenize_prompt(prompt)]
          [] Len(Markers(prompt)) # Len(bitmaps) -> PromptFails("decode_failed")
          [] OTHER -> [error |-> "ok", tokens |-> tokenize_media_prompt(prompt, bitmaps)]

\* mtmd_helper_get_n_tokens: a bitmap takes config.image tokens.
n_tokens(tokens) ==
    Len(tokens) + (config.image - 1) * Len(SelectSeq(tokens, LAMBDA t : t[2] = "bitmap"))

-----------------------------------------------------------------------------
\* Generation.

\* session.additional_stops of the template.
Stops == <<<<"u", "v">>>>

ends_with_stop(text, stop) == Len(text) >= Len(stop) /\ SubSeq(text, Len(text) - Len(stop) + 1, Len(text)) = stop

RECURSIVE Loop(_, _, _, _, _)

\* The loop of generate after i tokens; output is what the model goes on to
\* generate, up to an end-of-generation token.
Loop(i, text, output, max_tokens, fault) ==
    LET Ends(status) == [status |-> status, text |-> text, streamed |-> text, completion |-> i]
    IN  CASE i >= max_tokens \/ i = Len(output) -> Ends("ok")
          [] fault = "cancel" /\ i = 1 -> Ends("cancelled")
          [] OTHER ->
                LET more == text \o output[i + 1]
                    stopped == {k \in DOMAIN Stops : ends_with_stop(more, Stops[k])}
                IN  CASE stopped # {} ->
                            LET stop == Stops[CHOOSE k \in stopped : \A l \in stopped : k <= l]
                            IN  [status |-> "ok", text |-> SubSeq(more, 1, Len(more) - Len(stop)),
                                 streamed |-> more, completion |-> i + 1]
                      [] fault = "decode" /\ i = 1 ->
                            [status |-> "decode_failed", text |-> more, streamed |-> more, completion |-> i + 1]
                      [] OTHER -> Loop(i + 1, more, output, max_tokens, fault)

generate(output, max_tokens, fault) ==
    IF fault \in {"acquire", "prefill"} THEN
        [status |-> "decode_failed", text |-> << >>, streamed |-> << >>, completion |-> 0]
    ELSE Loop(0, << >>, output, max_tokens, fault)

RECURSIVE Close(_, _, _, _, _)

\* Where the object that opened before j ends; 0 when it does not.
Close(text, j, depth, in_str, esc) ==
    IF j > Len(text) THEN 0
    ELSE LET c == text[j]
         IN  CASE in_str -> Close(text, j + 1, depth, c # "q" \/ esc, c = "b" /\ ~esc)
               [] c = "q" -> Close(text, j + 1, depth, TRUE, FALSE)
               [] c = "{" -> Close(text, j + 1, depth + 1, FALSE, FALSE)
               [] c = "}" /\ depth = 1 -> j
               [] c = "}" -> Close(text, j + 1, depth - 1, FALSE, FALSE)
               [] OTHER -> Close(text, j + 1, depth, FALSE, FALSE)

Opens(text) == {i \in DOMAIN text : text[i] = "{"}

EndOf(text, i) == Close(text, i, 0, FALSE, FALSE)

\* simdjson reads an object that has a name member (members are read on demand).
IsCall(text, i) == EndOf(text, i) > i + 1 /\ text[i + 1] = "N"

\* Where the first call starts: every "{" is tried until one does not close.
find_loose_tool_call(text) ==
    LET tried == {i \in Opens(text) : \A j \in Opens(text) : j <= i => EndOf(text, j) # 0}
        calls == {i \in tried : IsCall(text, i)}
    IN  IF calls = {} THEN 0 ELSE CHOOSE i \in calls : \A j \in calls : i <= j

\* finish_session: the calls in the model's own format are taken out of the
\* text; a text that cannot be parsed is all content.
Parsed(text) ==
    IF "P" \in ToSet(text) THEN [content |-> text, calls |-> 0]
    ELSE [content |-> SelectSeq(text, LAMBDA s : s # "C"),
          calls |-> Len(SelectSeq(text, LAMBDA s : s = "C"))]

\* The content and the number of tool calls of a chat reply.
Answer(text, tools) ==
    IF Parsed(text).calls = 0 /\ tools /\ find_loose_tool_call(text) # 0
    THEN [content |-> << >>, calls |-> 1]
    ELSE Parsed(text)

\* The reply of a request that generates.
Generated(prompt, output, max_tokens, tools, fault) ==
    LET gen == generate(output, max_tokens, fault)
        answer == Answer(gen.text, tools)
    IN  IF gen.status # "ok" THEN [Fail(gen.status) EXCEPT !.streamed = gen.streamed]
        ELSE [Fail("ok") EXCEPT !.prompt = prompt, !.text = answer.content, !.calls = answer.calls,
                                !.streamed = gen.streamed, !.completion = gen.completion]

\* A chat request.
RunChat(req, output, fault) ==
    LET prompt == render_task_prompt(req, build_inputs(req), fault)
        n_prompt == n_tokens(prompt.tokens)
    IN  CASE prompt.error # "ok" -> Fail(prompt.error)
          [] n_prompt >= config.ctx -> Fail("invalid")
          [] OTHER -> Generated(prompt.tokens, output, Minimum(req.max, config.ctx - n_prompt), req.tools, fault)

-----------------------------------------------------------------------------
\* OCR.

\* kOcrFamilies and the generic prompt.
ocr_family_prompt ==
    CASE "paddleocr" \in config.words -> <<"OCR:">>
      [] {"glm", "ocr"} \subseteq config.words -> <<"Text Recognition:">>
      [] OTHER -> <<"generic">>

\* The instruction of an OCR request: its own, the engine's or the family's.
OcrPrompt(req) ==
    LET own == SelectSeq(req.fields, LAMBDA f : f.key = "prompt")
    IN  CASE own # << >> -> Head(own).value
          [] config.ocr # "" -> <<config.ocr>>
          [] OTHER -> ocr_family_prompt

\* One message: a marker for each picture, then the instruction.
run_ocr(req, output, fault) ==
    LET images == Len(MediaParts(req))
        content == FlattenSeq([i \in 1 .. images |-> Marker]) \o OcrPrompt(req)
        prompt == render_task_prompt(req, <<[role |-> "user", content |-> content]>>, fault)
        n_prompt == n_tokens(prompt.tokens)
    IN  CASE ~config.mmproj \/ "image" \notin config.sees -> Fail("unsupported")
          [] images = 0 -> Fail("invalid")
          [] prompt.error # "ok" -> Fail(prompt.error)
          [] n_prompt >= config.ctx -> Fail("invalid")
          [] OTHER ->
                LET max_tokens == Maximum(1, Minimum(req.max, config.ctx - n_prompt))
                IN  [Generated(prompt.tokens, output, max_tokens, FALSE, fault) EXCEPT !.calls = 0]

-----------------------------------------------------------------------------
\* Decisions.

Defaults == [mode |-> "choice", options |-> << >>, scale |-> <<1, 5>>, instructions |-> TRUE,
             end |-> TRUE, error |-> "ok"]

\* One member of params_json; typed says whether its value has the right type.
Member(p, f) ==
    LET refused == [p EXCEPT !.error = "invalid"]
        v == f.value
    IN  CASE p.error # "ok" -> p
          [] f.key = "mode" ->
                IF f.typed /\ v \in {"choice", "score", "yesno"} THEN [p EXCEPT !.mode = v] ELSE refused
          [] f.key = "options" ->
                IF f.typed /\ << >> \notin ToSet(v) THEN [p EXCEPT !.options = @ \o v] ELSE refused
          [] f.key = "scale" ->
                IF f.typed /\ Len(v) = 2 /\ v[1] < v[2] /\ v[1] >= -1000 /\ v[2] <= 1000 /\ v[2] - v[1] <= 100
                THEN [p EXCEPT !.scale = v] ELSE refused
          [] f.key = "instructions" /\ f.typed -> [p EXCEPT !.instructions = v]
          [] f.key = "end" /\ f.typed -> [p EXCEPT !.end = v]
          [] OTHER -> p

RECURSIVE Decimal(_)

\* std::to_string.
Decimal(n) ==
    CASE n < 0 -> <<"-">> \o Decimal(-n)
      [] n < 10 -> <<<<"0", "1", "2", "3", "4", "5", "6", "7", "8", "9">>[n + 1]>>
      [] OTHER -> Decimal(n \div 10) \o Decimal(n % 10)

parse_decide_params(fields) ==
    LET p == FoldLeft(Member, Defaults, fields)
        options == CASE p.mode = "yesno" -> <<<<"Yes">>, <<"No">>>>
                     [] p.mode = "score" -> [i \in 1 .. p.scale[2] - p.scale[1] + 1 |-> Decimal(p.scale[1] + i - 1)]
                     [] OTHER -> p.options
    IN  IF fields = << >> \/ Len(options) < 2 \/ Len(options) > 256
        THEN [p EXCEPT !.error = "invalid"]
        ELSE [p EXCEPT !.options = options]

\* The answer format, which lists the options of a choice.
decide_instruction(p) == <<"a">> \o (IF p.mode = "choice" THEN FlattenSeq(p.options) ELSE << >>)

UserMessages(req) == {i \in DOMAIN req.messages : req.messages[i].role = "user"}

\* The messages with the answer format after the last one of the user.
Question(req, p) ==
    LET inputs == build_inputs(req)
        last == CHOOSE i \in UserMessages(req) : \A j \in UserMessages(req) : j <= i
    IN  IF p.instructions THEN [inputs EXCEPT ![last].content = @ \o decide_instruction(p)] ELSE inputs

\* An option and the end of the turn.
OptionTokens(p) ==
    [o \in DOMAIN p.options |->
        tokenize_text(p.options[o], FALSE) \o (IF p.end /\ "eos" \in config.adds THEN <<eos>> ELSE << >>)]

Longest(options) == CHOOSE n \in {Len(options[o]) : o \in DOMAIN options} :
                        \A o \in DOMAIN options : Len(options[o]) <= n

Cells(tokens, from) == {<<from + i - 1, tokens[i]>> : i \in DOMAIN tokens}

\* llama_memory_seq_rm after an option.
OptionRemoved(cells, base) == {c \in cells : c[1] < base}

RECURSIVE Scores(_, _, _, _)

\* What the log-probability of every token of the options from o on is
\* conditioned on: the cells that precede it.  The first tokens are read off
\* the prompt before any option is decoded.
Scores(o, options, cells, base) ==
    IF o > Len(options) THEN << >>
    ELSE LET option == options[o]
             decoded == cells \cup Cells(Front(option), base)
             after == IF Len(option) < 2 THEN cells ELSE OptionRemoved(decoded, base)
             given == [i \in DOMAIN option |->
                          IF i = 1 THEN {c \in cells : c[1] < base} ELSE {c \in decoded : c[1] < base + i - 1}]
         IN  <<given>> \o Scores(o + 1, options, after, base)

run_decide(req, fault) ==
    LET p == parse_decide_params(req.fields)
        asked == render_task_prompt(req, Question(req, p), fault)
        options == OptionTokens(p)
        n == n_tokens(asked.tokens) + Longest(options)
    IN  CASE config.decides -> Fail("unsupported")
          [] p.error # "ok" -> Fail(p.error)
          [] p.instructions /\ UserMessages(req) = {} -> Fail("invalid")
          [] asked.error # "ok" -> Fail(asked.error)
          [] Longest(options) > config.batch \/ n >= config.ctx -> Fail("invalid")
          [] fault = "cancel" -> Fail("cancelled")
          [] fault \in {"acquire", "prefill", "decode"} -> Fail("decode_failed")
          [] OTHER ->
                [Fail("ok") EXCEPT !.prompt = asked.tokens, !.inputs = options,
                    !.scored = Scores(1, options, Cells(asked.tokens, 0), Len(asked.tokens))]

-----------------------------------------------------------------------------
\* Embeddings and reranking.

\* Mutant: the memory keeps the sequences of the decode before.
MemoryKept(memory) == memory

\* llama_memory_clear between two decodes.
MemoryCleared(memory) == [s \in 0 .. PoolSeqs - 1 |-> << >>]

RECURSIVE Pool(_, _, _)

\* pooled_decode from input first on: as many inputs as there are sequences
\* and room for in one batch, each on a sequence of its own.  A row is what its
\* sequence held when it was decoded.
Pool(inputs, first, memory) ==
    LET Room(k) == Len(FlattenSeq(SubSeq(inputs, first, first + k - 1))) <= config.batch
        groups == {k \in 1 .. Minimum(PoolSeqs, Len(inputs) - first + 1) : Room(k)}
        take == CHOOSE k \in groups : \A l \in groups : l <= k
        decoded == [s \in DOMAIN memory |->
                        MemoryCleared(memory)[s] \o (IF s < take THEN inputs[first + s] ELSE << >>)]
        rows == [k \in 1 .. take |-> decoded[k - 1]]
        rest == Pool(inputs, first + take, decoded)
    IN  CASE first > Len(inputs) -> [Fail("ok") EXCEPT !.inputs = inputs]
          [] groups = {} -> Fail("invalid")
          [] << >> \in ToSet(rows) -> Fail("decode_failed")
          [] rest.status # "ok" -> rest
          [] OTHER -> [rest EXCEPT !.rows = rows \o @]

pooled_decode(inputs, fault) ==
    CASE fault = "cancel" /\ inputs # << >> -> Fail("cancelled")
      [] fault = "decode" /\ inputs # << >> -> Fail("decode_failed")
      [] OTHER -> Pool(inputs, 1, [s \in 0 .. PoolSeqs - 1 |-> << >>])

\* An input longer than a batch is cut, but keeps its closing token.
truncate_tokens(tokens, max) ==
    CASE Len(tokens) <= max -> tokens
      [] Last(tokens) = eos -> SubSeq(tokens, 1, max - 1) \o <<eos>>
      [] OTHER -> SubSeq(tokens, 1, max)

\* The special token s where the vocabulary adds it.
Added(s) == IF s \in config.adds THEN <<<<s, "special">>>> ELSE << >>

EmbedTokens(text) == Added("bos") \o tokenize_text(text, FALSE) \o Added("eos")

run_embed(req, fault) ==
    LET texts == TextParts(req)
        inputs == [i \in DOMAIN texts |-> EmbedTokens(texts[i].text)]
    IN  CASE MediaParts(req) # << >> -> Fail("unsupported")
          [] << >> \in ToSet(inputs) -> Fail("invalid")
          [] OTHER -> pooled_decode([i \in DOMAIN inputs |-> truncate_tokens(inputs[i], config.batch)], fault)

\* What surrounds the query Q and the document D.
RerankFrame ==
    IF config.rerank # << >>
    THEN [i \in DOMAIN config.rerank |-> Token(config.rerank[i], TRUE)]
    ELSE Added("bos") \o <<Token("Q", FALSE)>> \o Added("eos") \o Added("sep") \o <<Token("D", FALSE)>> \o Added("eos")

Reserve(max) == Minimum(max \div 4, 32)

\* How many tokens of a query of q and a document of d tokens are kept.
FitPair(q, d, max) ==
    LET budget == IF max > Reserve(max) THEN max - Reserve(max) ELSE max
        q_max == Maximum(budget \div 2, budget - Minimum(budget, d))
        q_kept == Minimum(q, q_max)
    IN  IF q + d <= budget THEN [query |-> q, doc |-> d]
        ELSE [query |-> q_kept, doc |-> Minimum(d, budget - q_kept)]

rerank_tokens(query, doc, max) ==
    LET kept == FitPair(Len(query), Len(doc), max)
        out == FlattenSeq([i \in DOMAIN RerankFrame |->
                    CASE RerankFrame[i][1] = "Q" -> SubSeq(tokenize_text(query, FALSE), 1, kept.query)
                      [] RerankFrame[i][1] = "D" -> SubSeq(tokenize_text(doc, FALSE), 1, kept.doc)
                      [] OTHER -> <<RerankFrame[i]>>])
    IN  SubSeq(out, 1, Minimum(Len(out), max))

run_rerank(req, fault) ==
    LET texts == TextParts(req)
        docs == Tail(texts)
    IN  CASE MediaParts(req) # << >> -> Fail("unsupported")
          [] Len(texts) < 2 -> Fail("invalid")
          [] OTHER -> pooled_decode([i \in DOMAIN docs |->
                                        rerank_tokens(Head(texts).text, docs[i].text, config.batch)], fault)

-----------------------------------------------------------------------------
\* The tasks of the core, and run.

\* One message per text; an empty one has no part.
TextMessages(texts) ==
    [i \in DOMAIN texts |->
        [role |-> "user",
         parts |-> IF texts[i] = << >> THEN << >>
                   ELSE <<[kind |-> "text", is |-> "text", id |-> "", text |-> texts[i]]>>]]

TaskRequest(task, texts) ==
    [task |-> task, messages |-> TextMessages(texts), tools |-> FALSE, max |-> 0, fields |-> << >>]

\* The texts of batch b.
TaskTexts(texts, b) == SubSeq(texts, (b - 1) * TaskBatch + 1, Minimum(b * TaskBatch, Len(texts)))

Batches(texts) == (Len(texts) + TaskBatch - 1) \div TaskBatch

\* Batch after batch; every one must come back with a row per text.
InBatches(texts, Infer(_)) ==
    LET replies == [b \in 1 .. Batches(texts) |-> Infer(TaskTexts(texts, b))]
        outcomes == [b \in DOMAIN replies |->
                        CASE replies[b].status # "ok" -> replies[b].status
                          [] Len(replies[b].rows) # Len(TaskTexts(texts, b)) -> "decode_failed"
                          [] OTHER -> "ok"]
    IN  IF FirstError(outcomes) # "ok" THEN Fail(FirstError(outcomes))
        ELSE [Fail("ok") EXCEPT !.rows = FlattenSeq([b \in DOMAIN replies |-> replies[b].rows])]

embed(texts, fault) ==
    IF << >> \in ToSet(texts) THEN Fail("invalid")
    ELSE InBatches(texts, LAMBDA batch : run_embed(TaskRequest("embed", batch), fault))

\* An empty document becomes a space.
Document(doc) == IF doc = << >> THEN <<"a">> ELSE doc

rerank(query, docs, fault) ==
    IF query = << >> THEN Fail("invalid")
    ELSE InBatches(docs, LAMBDA batch :
            run_rerank(TaskRequest("rerank", <<query>> \o [i \in DOMAIN batch |-> Document(batch[i])]), fault))

Serves(task) ==
    CASE config.mode = "embed" -> task = "embed"
      [] config.mode = "rerank" -> task = "rerank"
      [] OTHER -> task \in {"text_gen", "decide", "ocr"}

\* run: by the mode of the instance and the task of the request.
Run(req, output, fault) ==
    CASE ~Serves(req.task) -> Fail("unsupported")
      [] req.task = "embed" -> run_embed(req, fault)
      [] req.task = "rerank" -> run_rerank(req, fault)
      [] req.task = "decide" -> run_decide(req, fault)
      [] req.task = "ocr" -> run_ocr(req, output, fault)
      [] OTHER -> RunChat(req, output, fault)

Faults == {"none", "session", "acquire", "prefill", "decode", "cancel"}

\* The caller frees a response before it runs its next request (run_engine).
Idle == stage = "ready" /\ request.task = "none"

Answered(req, answer) ==
    /\ request' = req
    /\ reply' = answer
    /\ UNCHANGED <<config, stage, heap, pooled>>

llama_run ==
    /\ Idle
    /\ \E req \in Requests, output \in Outputs, fault \in Faults : Answered(req, Run(req, output, fault))

EmbedTexts ==
    /\ Idle /\ config.mode = "embed"
    /\ \E texts \in TextBatches, fault \in Faults :
        Answered([task |-> "embed()", texts |-> texts, fault |-> fault], embed(texts, fault))

RerankDocs ==
    /\ Idle /\ config.mode = "rerank"
    /\ \E query \in Queries, docs \in TextBatches, fault \in Faults :
        Answered([task |-> "rerank()", query |-> query, texts |-> docs, fault |-> fault],
                 rerank(query, docs, fault))

llama_free_response ==
    /\ request.task # "none"
    /\ request' = [task |-> "none"] /\ reply' = Fail("none")
    /\ UNCHANGED <<config, stage, heap, pooled>>

Next ==
    \/ llama_create \/ llama_destroy
    \/ llama_run \/ EmbedTexts \/ RerankDocs
    \/ llama_free_response

Spec == Init /\ [][Next]_engineVars

-----------------------------------------------------------------------------
\* What create promises: after a failure nothing stays allocated, and an
\* instance can do what its mode is for: it has a context, with a projector
\* only where one is used, an embedder pools and a reranker has a classifier.
InstancesExact ==
    /\ stage # "ready" => heap = {}
    /\ stage = "ready" =>
        /\ heap = {"model", "ctx"} \cup (IF config.mmproj THEN {"mmproj"} ELSE {})
        /\ config.mode = "generate" <=> pooled = "none"
        /\ config.mode = "rerank" => config.classifier /\ pooled = "rank" /\ config.declared # "mean"

\* The text without the markers that stand in it.
Stripped(text) ==
    FlattenSeq([i \in DOMAIN text |->
        IF MarkerAt(text, i) \/ (i > 1 /\ MarkerAt(text, i - 1)) THEN << >> ELSE <<text[i]>>])

\* What a message says: words and pictures in their order.
Says(message) ==
    FlattenSeq([i \in DOMAIN message.parts |->
        LET part == message.parts[i]
        IN  CASE is_media(part) -> <<part.id>>
              [] part.kind = "text" -> IF config.mmproj THEN Stripped(part.text) ELSE part.text
              [] OTHER -> part.text])

Said(req) ==
    LET kept == SelectSeq(req.messages, LAMBDA m : config.keeps = "all" \/ m.role = "user")
    IN  FlattenSeq([i \in DOMAIN kept |-> Says(kept[i])])

\* A marker that is not a picture's: one that an erasure or two parts next to
\* each other make, or that a tool call has.
Leftover(req) ==
    \E i \in DOMAIN req.messages :
        LET said == Says(req.messages[i]) IN \E k \in DOMAIN said : MarkerAt(said, k)

Symbols(tokens) == [i \in DOMAIN tokens |-> tokens[i][1]]

\* The words and pictures of a prompt, without what the template adds.
Uttered(tokens) == Symbols(SelectSeq(tokens, LAMBDA t : t[1] \notin {"bos", "f"} /\ t[2] # "special"))

\* The prompt says what the request says, in its order.
SaysAll ==
    LET prompt == Uttered(reply.prompt)
        pictures == [i \in DOMAIN MediaParts(request) |-> MediaParts(request)[i].id]
    IN  CASE request.task = "text_gen" -> prompt = Said(request)
          [] request.task = "decide" -> IsPrefix(Said(request), prompt)
          [] OTHER -> prompt = pictures \o OcrPrompt(request)

\* A prompt is what the request says: every picture is where its part was, none
\* is lost or taken for another, and the only special tokens are those of the
\* template (build_inputs, tokenize_prompt, tokenize_media_prompt).  This is so
\* whatever a user typed when the template keeps every message, for a marker too
\* many is then refused, and else when no marker is left over.  A marker that
\* was typed in one piece is no reason to refuse a request.  Prompt and reply fit
\* the sequence, and what was streamed is the reply, with at most the stop that
\* ended it after it.
PromptsExact ==
    /\ reply.status = "ok" /\ request.task \in {"text_gen", "decide", "ocr"} =>
        LET specials == SelectSeq(reply.prompt, LAMBDA t : t[2] = "special")
        IN  /\ request.task = "ocr" \/ config.keeps = "all" \/ ~Leftover(request) => SaysAll
            /\ Len(specials) <= 2 + Len(request.messages)
            /\ n_tokens(reply.prompt) + reply.completion <= config.ctx
            /\ reply.text # << >> /\ reply.calls = 0 =>
                \E tail \in {<< >>} \cup ToSet(Stops) :
                    SelectSeq(reply.streamed, LAMBDA s : s # "C" \/ "P" \in ToSet(reply.streamed)) \in
                        {reply.text \o tail}
    /\ request.task = "text_gen" /\ reply.status = "decode_failed" =>
        \/ config.keeps # "all" \/ Leftover(request)
        \/ render_task_prompt(request, build_inputs(request), "none").error # "decode_failed"

\* "every marker is ours" (llama_engine.cpp:487), so that pictures are in their
\* places whatever the template keeps.  It does not hold, see README.md.
MarkersAreOurs ==
    reply.status = "ok" /\ request.task \in {"text_gen", "decide", "ocr"} => SaysAll

\* score_options: a token of an option is scored after the prompt and the
\* tokens of the same option before it, never after those of another option,
\* and no option is counted as the beginning of another one.
DecisionsExact ==
    reply.status = "ok" /\ request.task = "decide" =>
        LET base == Len(reply.prompt)
        IN  /\ Len(reply.scored) = Len(reply.inputs) /\ Len(reply.inputs) \in 2 .. 256
            /\ \A o \in DOMAIN reply.inputs : \A i \in DOMAIN reply.inputs[o] :
                reply.scored[o][i] =
                    Cells(reply.prompt, 0) \cup Cells(SubSeq(reply.inputs[o], 1, i - 1), base)
            /\ \A o, l \in DOMAIN reply.inputs :
                /\ Last(reply.inputs[o]) = eos
                /\ IsPrefix(reply.inputs[o], reply.inputs[l])
                => reply.inputs[o] = reply.inputs[l]

\* embed() and rerank(): the rows come back in the order of the texts, each
\* made from its own text however the texts were packed into requests, decodes
\* and sequences; without a fault every batch is answered, an empty document
\* included.
RowsAreOwn ==
    request.task \in {"embed()", "rerank()"} =>
        LET Row(text) == IF request.task = "embed()" THEN truncate_tokens(EmbedTokens(text), config.batch)
                         ELSE rerank_tokens(request.query, IF text = << >> THEN <<"a">> ELSE text, config.batch)
        IN  /\ reply.status = "ok" => reply.rows = [i \in DOMAIN request.texts |-> Row(request.texts[i])]
            /\ /\ request.fault = "none"
               /\ request.task = "embed()" => << >> \notin ToSet(request.texts)
               /\ request.task = "rerank()" => request.query # << >>
               => reply.status = "ok"

\* rerank_tokens: where what surrounds a pair fits the part of the batch that is
\* kept free for it, all of it stays, and so do the beginning of the query and
\* of the document.
PairsFit ==
    request.task = "rerank()" /\ reply.status = "ok"
        /\ Len(RerankFrame) - 2 <= Reserve(config.batch) =>
        \A i \in DOMAIN reply.rows :
            LET row == reply.rows[i]
                frame == SelectSeq(RerankFrame, LAMBDA t : t[1] \notin {"Q", "D"})
            IN  /\ Len(row) <= config.batch
                /\ Len(SelectSeq(row, LAMBDA t : t[2] = "special")) =
                        Len(SelectSeq(frame, LAMBDA t : t[2] = "special"))
                /\ request.query # << >> => Len(row) - Len(frame) >= 2

\* find_loose_tool_call: the first call of a text is found where it was put,
\* whatever braces and quotes its strings have, also within a stray pair of
\* braces; sample is a text and the place.
LooseCallExact(sample) == find_loose_tool_call(sample.text) = sample.at

\* Every token of a reply is scored, packed or placed where it belongs.
ScoresAreOwn == DecisionsExact /\ RowsAreOwn /\ PairsFit
=============================================================================
