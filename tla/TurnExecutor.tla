---------------------------- MODULE TurnExecutor ----------------------------
(***************************************************************************)
(* One thread's turns on conversations                                     *)
(* (src/src/core/executor/turn_executor.cpp, run_turn_with_media): a user  *)
(* message is appended, the history is compressed and pruned to the        *)
(* context budget and sent to the engine; tool calls in the answer are run *)
(* one by one and their results appended, until an answer has none.  A     *)
(* tool may compress the history it is called from                         *)
(* (src/src/core/tools/context_compressor.cpp) or run a turn of its own on *)
(* another conversation.                                                   *)
(*                                                                         *)
(* A message is its role, its size in tokens, the ids of its tool calls,   *)
(* the id of the call it answers and whether it carries media or is a      *)
(* summary.  The arena of a Session is the set of its views that are still *)
(* valid: a frame of the stack knows whether its response's views are.     *)
(***************************************************************************)
EXTENDS Integers, FiniteSets, SequencesExt

CONSTANTS
    AutoLength,  \* a turn compresses only a history longer than this (6 in the code)
    AutoKeep,    \* default of keep_recent (6 in the code)
    MaxRounds,   \* Config::max_tool_call_rounds
    Scenes       \* the settings and the mishaps considered: see Scene

Mishaps == {"fail", "crashed", "arena", "cancel", "pause", "summary", "save", "restart", "media"}

Scene ==
    [budget : Nat,       \* max_allowed of prune_history_state, in tokens
     autoTokens : Nat,   \* 70% of context_window: above it a turn starts by compressing
     calls : Nat,        \* tool calls in one answer, at most
     sizes : SUBSET (Nat \ {0}),            \* sizes of user messages and tool results
     keeps : SUBSET Nat,                    \* keep_recent of the compress_context calls
     nesting : SUBSET {"own", "other"},     \* Sessions a tool runs its own turn on
     injected : BOOLEAN,                    \* injected_system_text is not empty
     happens : SUBSET Mishaps]              \* what may happen beside answers and results

VARIABLES
    scene,       \* the Scene of this behaviour, fixed at the start
    hist,        \* FlowMemory::history of the conversations "main" and "sub"
    saved,       \* the stored history:main
    stack,       \* the turns in progress, innermost last
    active,      \* ambient::active_memory: a conversation or "none"
    rejects,     \* Sessions with tool_media_rejected
    cancel,      \* cancel_flag
    abandoned    \* history: call ids that a turn left at the round limit

vars == <<scene, hist, saved, stack, active, rejects, cancel, abandoned>>

-----------------------------------------------------------------------------
\* Messages.

NoCall == 0     \* an empty tool_call_id
Garbage == -1   \* what a dangling string_view reads

Message(role, size) ==
    [role |-> role, size |-> size, calls |-> << >>, id |-> NoCall, media |-> FALSE, summary |-> FALSE]

Summary == [Message("system", 1) EXCEPT !.summary = TRUE]

IsTool(h, i) == h[i].role = "tool"
HasCalls(h, i) == h[i].role = "assistant" /\ h[i].calls # << >>

Tokens(h) == FoldSeq(LAMBDA m, n : n + m.size, 0, h)

\* Leading system messages.
Lead(h) == Max({n \in 0 .. Len(h) : \A i \in 1 .. n : h[i].role = "system"})

\* The calls of the last message, when it is an assistant message.
OpenCalls(h) == IF h = << >> THEN << >> ELSE Last(h).calls

-----------------------------------------------------------------------------
\* The context budget.

\* Mutant: an assistant message is dropped without its results.
EveryMessageStarts(h, fixed) == fixed + 1 .. Len(h)

\* Where a group that prune_history_state drops as a whole begins: an assistant
\* message goes with the results that follow it.
GroupStarts(h, fixed) ==
    {i \in fixed + 1 .. Len(h) :
        i = fixed + 1 \/ ~IsTool(h, i) \/ ~(IsTool(h, i - 1) \/ HasCalls(h, i - 1))}

\* The oldest groups go until the rest fits; the last group stays.
prune_history_state(h) ==
    LET fixed == IF Lead(h) = Len(h) THEN Len(h) - 1 ELSE Lead(h)
        Kept(i) == SubSeq(h, 1, fixed) \o SubSeq(h, i, Len(h))
        starts == GroupStarts(h, fixed)
        fitting == {i \in starts : Tokens(Kept(i)) <= scene.budget}
    IN  IF h = << >> THEN h
        ELSE Kept(IF fitting # {} THEN Min(fitting) ELSE Max(starts))

\* The messages from start to where the recent ones begin become one summary.
\* That place moves back over results, to the message that asked for them.
compress_context(h, keep) ==
    LET start == IF h # << >> /\ h[1].role = "system" /\ ~h[1].summary THEN 1 ELSE 0
        n == Len(h)
        recent == IF HasCalls(h, n) /\ keep = 0 THEN n - 1 ELSE n - keep
        end == IF recent = n THEN n
               ELSE Max({e \in start .. recent : e = start \/ ~IsTool(h, e + 1)})
    IN  IF n <= start + keep + 2 \/ end < start + 2 THEN h
        ELSE SubSeq(h, 1, start) \o <<Summary>> \o SubSeq(h, end + 1, n)

\* compress_context when the request for the summary may fail.
Compressed(h, keep) ==
    {compress_context(h, keep)} \cup (IF "summary" \in scene.happens THEN {h} ELSE {})

\* The messages sent to the engine: one system message, the injected text in it.
MessageViews(h) ==
    CASE Lead(h) > 0 -> <<h[1]>> \o SubSeq(h, Lead(h) + 1, Len(h))
      [] Lead(h) = 0 -> (IF scene.injected THEN <<Message("system", 1)>> ELSE << >>) \o h

-----------------------------------------------------------------------------
\* Turns.

Top == Last(stack)
OnTop(pc) == stack # << >> /\ Top.pc = pc

\* ActiveMemoryGuard and the locals of run_turn_with_media.
Frame(mem, session) ==
    [mem |-> mem, session |-> session, previous |-> active, pc |-> "submit", rounds |-> 0,
     calls |-> << >>, done |-> 0, live |-> FALSE]

SetTop(f) == [stack EXCEPT ![Len(stack)] = f]

\* Call ids no message of the process or the store has.
Used == UNION {ToSet(m.calls) : m \in ToSet(hist["main"] \o hist["sub"] \o saved)}
Fresh(n) == SubSeq(SetToSortSeq((1 .. Cardinality(Used) + n) \ Used, <), 1, n)

Init ==
    /\ scene \in Scenes
    /\ hist \in {[main |-> h, sub |-> << >>] : h \in {<< >>, <<Message("system", 1)>>}}
    /\ saved = << >>
    /\ stack = << >>
    /\ active = "none"
    /\ rejects = {}
    /\ cancel = FALSE
    /\ abandoned = {}

\* A turn begins on h, the history with the user's message: it is compressed
\* when it is long, whatever comes of that.
BeginTurn(mem, session, h) ==
    /\ \E after \in IF Tokens(h) > scene.autoTokens /\ Len(h) > AutoLength THEN Compressed(h, AutoKeep) ELSE {h} :
           hist' = [hist EXCEPT ![mem] = after]
    /\ active' = mem

\* The graph runtime has answered the calls a paused turn stopped before.
Answered(h) ==
    h \o [i \in 1 .. Len(OpenCalls(h)) |-> [Message("tool", 1) EXCEPT !.id = OpenCalls(h)[i]]]

Paused(h) == ToSet(OpenCalls(h)) \ abandoned # {}

\* run_turn by the application, or by the graph with an empty prompt after a pause.
RunTurn(size) ==
    /\ stack = << >>
    /\ BeginTurn("main", "own",
           IF Paused(hist["main"]) THEN Answered(hist["main"])
           ELSE Append(hist["main"], Message("user", size)))
    /\ stack' = <<Frame("main", "own")>>
    /\ UNCHANGED <<saved, rejects, cancel, abandoned>>

\* Mutant: the destructor of ActiveMemoryGuard does nothing.
ReturnKeepsActive(frames) == stack' = Front(frames) /\ UNCHANGED active

\* A turn ends, and with it its ActiveMemoryGuard.
Return(frames) == stack' = Front(frames) /\ active' = Last(frames).previous

\* save_flow_memory, whose failure is only logged.  What is stored is kept in
\* the models that read it again.
Save(mem, h) ==
    IF mem = "main" /\ "restart" \in scene.happens
    THEN saved' \in {h} \cup (IF "save" \in scene.happens THEN {saved} ELSE {})
    ELSE UNCHANGED saved

\* Arena::reset for the Session of the last frame.
Reset(frames) ==
    [i \in DOMAIN frames |->
        [frames[i] EXCEPT !.live = @ /\ frames[i].session # Last(frames).session]]

\* The top of the loop: prune, reset the arena, build the views, and look at the
\* cancel flag.  The reset ends the views of every turn on the same arena.
Submit ==
    /\ OnTop("submit")
    /\ hist' = [hist EXCEPT ![Top.mem] = prune_history_state(@)]
    /\ \/ /\ cancel \/ "arena" \in scene.happens
          /\ Return(Reset(stack))
       \/ /\ ~cancel
          /\ stack' = [Reset(stack) EXCEPT ![Len(stack)].pc = "infer"]
          /\ UNCHANGED active
    /\ UNCHANGED <<saved, rejects, cancel, abandoned>>

\* Tool-produced media is among what was sent.
SentToolMedia ==
    /\ Top.session \notin rejects
    /\ \E i \in DOMAIN hist[Top.mem] : IsTool(hist[Top.mem], i) /\ hist[Top.mem][i].media

reject_tool_media == rejects' = rejects \cup {Top.session}

\* infer fails: once more without tool media, or the turn fails.  A cancelled
\* request and a crashed engine are not tried again.
InferFails ==
    /\ OnTop("infer")
    /\ \/ /\ "fail" \in scene.happens /\ SentToolMedia
          /\ reject_tool_media
          /\ stack' = SetTop([Top EXCEPT !.pc = "submit"])
          /\ UNCHANGED active
       \/ /\ \/ "fail" \in scene.happens /\ ~SentToolMedia
             \/ "crashed" \in scene.happens
             \/ cancel
          /\ Return(stack)
          /\ UNCHANGED rejects
    /\ UNCHANGED <<hist, saved, cancel, abandoned>>

\* The answer has no tool calls: the history is saved and the turn ends.
InferAnswers ==
    LET h == Append(hist[Top.mem], Message("assistant", 1))
    IN  /\ OnTop("infer")
        /\ hist' = [hist EXCEPT ![Top.mem] = h]
        /\ Save(Top.mem, h)
        /\ Return(stack)
        /\ UNCHANGED <<rejects, cancel, abandoned>>

AtLimit(rounds) == rounds >= MaxRounds

\* The answer asks for n tool calls: the turn pauses before them, stops at the
\* round limit, or starts to run them.
InferCalls(n) ==
    LET calls == Fresh(n)
        h == Append(hist[Top.mem], [Message("assistant", 1) EXCEPT !.calls = calls])
    IN  /\ OnTop("infer")
        /\ hist' = [hist EXCEPT ![Top.mem] = h]
        /\ \/ /\ "pause" \in scene.happens /\ Len(stack) = 1
              /\ Save(Top.mem, h)
              /\ Return(stack)
              /\ abandoned' = abandoned \cap Used
           \/ /\ AtLimit(Top.rounds)
              /\ Return(stack)
              /\ abandoned' = (abandoned \cap Used) \cup ToSet(calls)
              /\ UNCHANGED saved
           \/ /\ ~AtLimit(Top.rounds)
              /\ stack' = SetTop([Top EXCEPT !.pc = "tools", !.rounds = @ + 1,
                                             !.calls = calls, !.done = 0, !.live = TRUE])
              /\ abandoned' = abandoned \cap Used
              /\ UNCHANGED <<saved, active>>
        /\ UNCHANGED <<rejects, cancel>>

-----------------------------------------------------------------------------
\* Tool calls.

\* The next call's id, read through resp.message.tool_calls.
CallIds == {Top.calls[Top.done + 1]} \cup (IF Top.live THEN {} ELSE {Garbage})

AfterResult == IF Top.done + 1 = Len(Top.calls) THEN "submit" ELSE "tools"

\* The result goes to the turn's own history, and the loop goes on.
PushResult(histories, result) ==
    /\ \E id \in CallIds :
           hist' = [histories EXCEPT ![Top.mem] = Append(@, [result EXCEPT !.id = id])]
    /\ stack' = SetTop([Top EXCEPT !.done = @ + 1, !.pc = AfterResult])
    /\ UNCHANGED <<saved, active, rejects, cancel, abandoned>>

\* A tool that returns text, media or an error; or one that is unknown, not
\* allowed or declined, which is an error text as well.
ToolReturns(size, media) ==
    /\ OnTop("tools")
    /\ media => "media" \in scene.happens
    /\ PushResult(hist, [Message("tool", size) EXCEPT !.media = media])

\* The compress_context tool, on the active conversation.
CompressTool(keep) ==
    /\ OnTop("tools")
    /\ \E h \in Compressed(hist[active], keep) :
           PushResult([hist EXCEPT ![active] = h], Message("tool", 1))

\* A tool that runs a turn with a conversation of its own, on this Session or on
\* another one.
NestedTurn(session) ==
    /\ OnTop("tools") /\ Len(stack) = 1
    /\ BeginTurn("sub", session, <<Message("user", 1)>>)
    /\ stack' = Append(SetTop([Top EXCEPT !.pc = "nested"]), Frame("sub", session))
    /\ UNCHANGED <<saved, rejects, cancel, abandoned>>

NestedTurnReturned ==
    /\ OnTop("nested")
    /\ PushResult([hist EXCEPT !["sub"] = << >>], Message("tool", 1))

-----------------------------------------------------------------------------
\* The environment.

\* request_cancel, from any thread.
request_cancel ==
    /\ "cancel" \in scene.happens
    /\ cancel' = TRUE
    /\ UNCHANGED <<hist, saved, stack, active, rejects, abandoned>>

\* clear_cancel, by the application before its next turn.
clear_cancel ==
    /\ stack = << >>
    /\ cancel' = FALSE
    /\ UNCHANGED <<hist, saved, stack, active, rejects, abandoned>>

\* The process ends at any point; the next one calls load_flow_memory.
Restart ==
    /\ "restart" \in scene.happens
    /\ hist' = [main |-> saved, sub |-> << >>]
    /\ stack' = << >>
    /\ active' = "none"
    /\ rejects' = {}
    /\ cancel' = FALSE
    /\ UNCHANGED <<saved, abandoned>>

TurnStep ==
    \/ Submit
    \/ InferFails
    \/ InferAnswers
    \/ \E n \in 1 .. scene.calls : InferCalls(n)
    \/ \E size \in scene.sizes, media \in BOOLEAN : ToolReturns(size, media)
    \/ \E keep \in scene.keeps : CompressTool(keep)
    \/ \E session \in scene.nesting : NestedTurn(session)
    \/ NestedTurnReturned

Next ==
    /\ \/ TurnStep
       \/ \E size \in scene.sizes : RunTurn(size)
       \/ request_cancel
       \/ clear_cancel
       \/ Restart
    /\ UNCHANGED scene

Spec == Init /\ [][Next]_vars

-----------------------------------------------------------------------------
\* Properties.

Messages ==
    [role : {"system", "user", "assistant", "tool"}, size : Nat, calls : Seq(Nat \ {0}),
     id : Nat \cup {Garbage}, media : BOOLEAN, summary : BOOLEAN]

Frames ==
    [mem : {"main", "sub"}, session : {"own", "other"}, previous : {"none", "main", "sub"},
     pc : {"submit", "infer", "tools", "nested"}, rounds : 0 .. MaxRounds,
     calls : Seq(Nat \ {0}), done : Nat, live : BOOLEAN]

\* Every variable of run_turn stays in its type: at most one turn is nested, and
\* the round counter does not pass the limit.
TypeOK ==
    /\ scene \in Scenes
    /\ hist \in [main : Seq(Messages), sub : Seq(Messages)]
    /\ saved \in Seq(Messages)
    /\ stack \in Seq(Frames) /\ Len(stack) <= 2
    /\ active \in {"none", "main", "sub"}
    /\ rejects \subseteq {"own", "other"}
    /\ cancel \in BOOLEAN
    /\ abandoned \subseteq Nat

\* The history the engine gets when infer is called.
Sent == hist[Top.mem]

\* Every tool result that is sent stands after the assistant message that asked
\* for it, as the answer to the call in its place: neither prune_history_state nor
\* compress_context, called from any of several calls, separates the two.
ResultsFollowCalls ==
    OnTop("infer") =>
        \A i \in DOMAIN Sent : IsTool(Sent, i) =>
            \E a \in 1 .. i - 1 :
                /\ HasCalls(Sent, a)
                /\ \A j \in a + 1 .. i : IsTool(Sent, j)
                /\ i - a \in DOMAIN Sent[a].calls
                /\ Sent[i].id = Sent[a].calls[i - a]

\* Every call in a history that is sent has its result there, also after errors,
\* cancelled turns, pauses and restarts; the only ones without are those that a
\* turn left at max_tool_call_rounds.
CallsAreAnswered ==
    OnTop("infer") =>
        \A a \in DOMAIN Sent : HasCalls(Sent, a) =>
            \/ ToSet(Sent[a].calls) \subseteq abandoned
            \/ \A k \in DOMAIN Sent[a].calls :
                   a + k \in DOMAIN Sent /\ IsTool(Sent, a + k)

\* The engine gets at most one system message and gets it first, however often
\* the history was compressed (many chat templates reject anything else).
SystemComesFirst ==
    OnTop("infer") =>
        \A i \in DOMAIN MessageViews(Sent) : MessageViews(Sent)[i].role = "system" => i = 1

\* The engine gets a history that chat templates and providers accept.
SentIsWellFormed == TypeOK /\ ResultsFollowCalls /\ CallsAreAnswered /\ SystemComesFirst

\* What is sent is within the token budget, unless it is down to the system
\* messages and one exchange: a message, or an answer with its tool results.
PrunedToBudget ==
    OnTop("infer") =>
        \/ Tokens(Sent) <= scene.budget
        \/ \A i \in Lead(Sent) + 2 .. Len(Sent) : IsTool(Sent, i)

\* A tool call that compresses the context acts on the conversation that issued
\* the call, also after a turn nested in an earlier call (ActiveMemoryGuard).
CompressesOwnHistory == OnTop("tools") => active = Top.mem

\* The tool loop reads resp.message.tool_calls only while the arena they are in
\* has not been reset.
CallViewsAreValid == OnTop("tools") \/ OnTop("nested") => Top.live

\* A turn nested in a tool call leaves nothing behind for the turn around it.
NestingIsTransparent == CompressesOwnHistory /\ CallViewsAreValid
=============================================================================
