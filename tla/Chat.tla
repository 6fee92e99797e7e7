-------------------------------- MODULE Chat --------------------------------
(***************************************************************************)
(* agent chat (src/tools/cli/src/chat.cpp): the loop over a conversation,  *)
(* its commands, Ctrl-C, the model it leases from the registry and the     *)
(* store its conversations are in; started again and again, also after a   *)
(* crash.  A turn streams its answer through a filter that hides tool      *)
(* calls (filter_stream in src/tools/cli/src/cli_core.cpp).                *)
(*                                                                         *)
(* A message is who says it, in which turn, and whether it has             *)
(* attachments; the tool calls of a turn with their results are one.       *)
(* The tags <tool_call> and </tool_call> are cut to three symbols each.    *)
(* The turn itself (TurnExecutor), the registry (ModelRegistry) and the    *)
(* store (SqliteStore) have modules of their own: here a turn, a load and  *)
(* a write succeed or fail, a turn shortens the history as it may, and a   *)
(* crash takes the store back to one of its earlier contents.              *)
(***************************************************************************)
EXTENDS Naturals, SequencesExt, FiniteSets

CONSTANTS
    Models,     \* the catalogue
    Default,    \* the model a chat is started with
    Texts,      \* what a model may stream in a turn
    MaxChats,   \* bound: conversations started and failures of the store, together
    MaxTurns    \* bound: turns in all

VARIABLES
    budget,     \* memory_budget_mb is set
    roomy,      \* the context takes the conversation as it is, with attachments
    where,      \* "off", "prompt", "begin", "turn", "ended" or "wrap"
    model,      \* ChatState::model
    seat,       \* [lease, loaded, pointer]: the lease, the models in memory, g_cancel_flag
    generating, \* g_generating
    raised,     \* the models whose cancel flag is set
    id, history, \* FlowMemory
    kept,       \* the store: conversation -> history, << >> if there is none
    listed,     \* "cli:conversations"
    moments,    \* what the store had in it since it was opened
    rest,       \* of the answer, still to be streamed
    filter,     \* StreamFilter
    chats, taken, lapses,
    \* history
    received, shown, \* what the turn has streamed and what was printed of it
    pressed,    \* Ctrl-C was pressed during the turn
    ending      \* how the last turn ended

screen == <<rest, filter, received, shown>>
disk == <<kept, listed, moments>>
counts == <<chats, taken, lapses>>
chosen == <<model, seat>>
chatVars == <<budget, roomy, where, chosen, generating, raised, id, history, disk, screen, counts,
              pressed, ending>>

NoModel == "no model"
Says(who, media, turn) == [who |-> who, media |-> media, turn |-> turn]
SystemPrompt == Says("system", FALSE, 0)
Ids == 1 .. MaxChats
Spare == chats + lapses < MaxChats
NoFilter == [pending |-> << >>, inside |-> FALSE]

-----------------------------------------------------------------------------
(* filter_stream *)

Open == <<"<", "t", ">">>
Close == <<"<", "/", "t">>

Drop(s, n) == SubSeq(s, n + 1, Len(s))
Take(s, n) == SubSeq(s, 1, n)
\* Where tag is found first, counted from 0; Len(s) if it is not.
Find(s, tag) ==
    LET at == {i \in 0 .. Len(s) - Len(tag) : SubSeq(s, i + 1, i + Len(tag)) = tag}
    IN  IF at = {} THEN Len(s) ELSE Min(at)

partial_tag_suffix(text, tag) ==
    Max({n \in 0 .. Min({Len(text), Len(tag) - 1}) : Drop(text, Len(text) - n) = Take(tag, n)})

AfterNewline(s) == IF s # << >> /\ s[1] = "\n" THEN Tail(s) ELSE s

\* The filter and what it prints, for as long as there is a whole tag.
RECURSIVE Filtered(_, _)
Filtered(f, out) ==
    LET tag == IF f.inside THEN Close ELSE Open
        pos == Find(f.pending, tag)
        held == Len(f.pending) - partial_tag_suffix(f.pending, tag)
        after == Drop(f.pending, pos + Len(tag)) IN
    IF pos < Len(f.pending)
    THEN Filtered([pending |-> IF f.inside THEN AfterNewline(after) ELSE after, inside |-> ~f.inside],
                  IF f.inside THEN out ELSE out \o Take(f.pending, pos))
    ELSE <<[f EXCEPT !.pending = Drop(@, held)],
           IF f.inside THEN out ELSE out \o Take(f.pending, held)>>

filter_stream(f, token) == Filtered([f EXCEPT !.pending = @ \o token], << >>)
flush_stream(f) == IF f.inside THEN << >> ELSE f.pending

-----------------------------------------------------------------------------
(* open_session: the model that is leased *)

\* The old model is released, and unloaded unless there is a budget.
Released(s, m) ==
    [lease |-> NoModel, pointer |-> NoModel,
     loaded |-> IF ~budget /\ s.lease # m THEN s.loaded \ {s.lease} ELSE s.loaded]

\* acquire_current: what is loaded is leased; else it is loaded, and others may
\* be evicted, or the load fails.
Leases(s, m) ==
    {[lease |-> m, pointer |-> m, loaded |-> (s.loaded \ gone) \cup {m}] :
        gone \in IF budget /\ m \notin s.loaded THEN SUBSET s.loaded ELSE {{}}}
LoadFails(s, m) ==
    IF m \in s.loaded THEN {}
    ELSE {[s EXCEPT !.loaded = @ \ gone] : gone \in IF budget THEN SUBSET s.loaded ELSE {{}}}

-----------------------------------------------------------------------------
(* cmd_chat and run_chat *)

NoSeat == [lease |-> NoModel, pointer |-> NoModel, loaded |-> {}]
Closed ==
    /\ seat' = NoSeat /\ model' = NoModel
    /\ generating' = FALSE /\ raised' = {} /\ id' = 0 /\ history' = << >>
    /\ rest' = << >> /\ filter' = NoFilter /\ received' = << >> /\ shown' = << >>
    /\ pressed' = FALSE /\ ending' = "none"
    /\ where' = "off"

ChatInit ==
    /\ budget \in BOOLEAN /\ roomy \in BOOLEAN /\ (budget => roomy) /\ where = "off"
    /\ seat = NoSeat /\ model = NoModel
    /\ generating = FALSE /\ raised = {} /\ id = 0 /\ history = << >>
    /\ kept = [i \in Ids |-> << >>] /\ listed = << >> /\ moments = {<<kept, listed>>}
    /\ rest = << >> /\ filter = NoFilter /\ received = << >> /\ shown = << >>
    /\ pressed = FALSE /\ ending = "none"
    /\ chats = 0 /\ taken = 0 /\ lapses = 0

\* The model is loaded.
Loads ==
    /\ where = "off"
    /\ model' = Default
    /\ seat' \in Leases(Released(NoSeat, Default), Default)
    /\ where' = "prompt"
    /\ UNCHANGED <<budget, roomy, generating, raised, disk, screen, taken, lapses, pressed, ending>>

NewChat ==
    /\ Loads /\ Spare
    /\ chats' = chats + 1 /\ id' = chats + 1
    /\ history' = <<SystemPrompt>>

\* --resume, of a conversation that load_flow_memory finds.
Resume(i) ==
    /\ Loads /\ kept[i] # << >>
    /\ id' = i /\ history' = kept[i]
    /\ UNCHANGED chats

\* Mutant: a flag that was raised too late for the turn before stays.
FlagsBeforeTurn == raised

\* clear_cancel.
FlagsCleared == raised \ {seat.lease}

\* A message.  Without a model it is refused, which changes nothing.
Say ==
    /\ where = "prompt" /\ seat.lease # NoModel /\ taken < MaxTurns
    /\ raised' = FlagsCleared
    /\ taken' = taken + 1
    /\ ending' = "none"
    /\ where' = "begin"
    /\ UNCHANGED <<budget, roomy, chosen, generating, id, history, disk, screen, chats, lapses, pressed>>

\* prune_history_state: old messages may go, the leading system messages and the
\* last message stay.
Lead(h) == Max({n \in 0 .. Len(h) : \A i \in 1 .. n : h[i].who = "system"})
Pruned(h) == {Take(h, Lead(h)) \o Drop(h, n) : n \in Lead(h) .. Len(h) - 1}

\* compress_context: two messages or more may become a summary, not the system
\* prompt and not the last message.
Compressed(h) ==
    {h} \cup {<<h[1], Says("system", FALSE, taken)>> \o Drop(h, n) : n \in 3 .. Len(h) - 1}

\* What a turn makes of the history before it asks the model.
Shortened(h) == UNION {Pruned(g) : g \in Compressed(h)}

\* The history of a turn, with its message and maybe a round of tool calls.
Asked ==
    LET asked == Append(history, Says("user", roomy, taken))
    IN  IF roomy THEN {asked}
        ELSE UNION {Shortened(h) \cup Shortened(Append(h, Says("tools", roomy, taken))) :
                       h \in Shortened(asked)}

\* run_turn begins.  Bound: only where the history is not shortened is the answer
\* streamed, and are there attachments.
BeginTurn ==
    /\ where = "begin"
    /\ generating' = TRUE
    /\ rest' \in IF roomy THEN Texts ELSE {<< >>}
    /\ where' = "turn"
    /\ UNCHANGED <<budget, roomy, chosen, raised, id, history, disk, filter, received, shown,
                   counts, pressed, ending>>

on_token(n) ==
    LET token == Take(rest, n)
        next == filter_stream(filter, token) IN
    /\ where = "turn" /\ n \in 1 .. Len(rest)
    /\ rest' = Drop(rest, n) /\ received' = received \o token
    /\ filter' = next[1] /\ shown' = shown \o next[2]
    /\ UNCHANGED <<budget, roomy, where, chosen, generating, raised, id, history, disk, counts, pressed,
                   ending>>

\* save_flow_memory, which may fail.
Saves(hist) ==
    \/ /\ kept' = [kept EXCEPT ![id] = hist] /\ moments' = moments \cup {<<kept', listed>>}
       /\ UNCHANGED lapses
    \/ Spare /\ lapses' = lapses + 1 /\ UNCHANGED <<kept, moments>>

\* run_turn returns: an answer, which is saved; an error; or that it was
\* cancelled.  Not every engine streams.
TurnDone ==
    /\ where = "turn" /\ (rest = << >> \/ received = << >>)
    /\ \E h \in Asked : history' = Append(h, Says("assistant", roomy, taken))
    /\ Saves(history')
    /\ ending' = "ok" /\ where' = "ended"
    /\ UNCHANGED <<budget, roomy, chosen, generating, raised, id, listed, screen, chats, taken, pressed>>

TurnFails ==
    /\ where = "turn"
    /\ history' \in Asked
    /\ ending' \in {"failed"} \cup (IF seat.lease \in raised THEN {"cancelled"} ELSE {})
    /\ where' = "ended"
    /\ UNCHANGED <<budget, roomy, chosen, generating, raised, id, disk, screen, counts, pressed>>

\* An answer that was not streamed is printed as it is, what was held back is
\* printed too, and a turn that failed takes its flag back.
EndTurn ==
    /\ where = "ended"
    /\ generating' = FALSE
    /\ raised' = IF ending = "ok" THEN raised ELSE raised \ {seat.lease}
    /\ shown' = shown \o (IF ending = "ok" THEN rest ELSE << >>) \o flush_stream(filter)
    /\ filter' = NoFilter /\ rest' = << >>
    /\ where' = "wrap"
    /\ UNCHANGED <<budget, roomy, chosen, id, history, disk, received, counts, pressed, ending>>

add_conversation_id(ids, i) == Append(Remove(ids, i), i)

\* remember_conversation.  When the index cannot be read it is begun anew; it may
\* also not be written.
Remember ==
    /\ where = "wrap"
    /\ \/ listed' = add_conversation_id(listed, id) /\ UNCHANGED lapses
       \/ Spare /\ lapses' = lapses + 1 /\ listed' \in {<<id>>, listed}
    /\ moments' = moments \cup {<<kept, listed'>>}
    /\ received' = << >> /\ shown' = << >> /\ pressed' = FALSE
    /\ where' = "prompt"
    /\ UNCHANGED <<budget, roomy, chosen, generating, raised, id, history, kept, rest, filter, chats, taken,
                   ending>>

Clear ==
    /\ where = "prompt" /\ seat.lease # NoModel
    /\ history' = SelectSeq(Take(history, 1), LAMBDA m : m.who = "system")
    /\ Saves(history')
    /\ UNCHANGED <<budget, roomy, where, chosen, generating, raised, id, listed, screen, chats, taken, pressed,
                   ending>>

-----------------------------------------------------------------------------
(* switch_model *)

ByPath(hist) == [i \in DOMAIN hist |-> [hist[i] EXCEPT !.media = FALSE]]

\* The new model is leased; attachments stay in the conversation as text.
Switch(m) ==
    /\ where = "prompt"
    /\ seat' \in Leases(Released(seat, m), m)
    /\ model' = m
    /\ raised' = raised \cap seat'.loaded
    /\ history' = ByPath(history)
    /\ IF history' = history THEN UNCHANGED <<kept, moments, lapses>> ELSE Saves(history')
    /\ UNCHANGED <<budget, roomy, where, generating, id, listed, screen, chats, taken, pressed, ending>>

\* Its load fails: the old one is opened again, if that can be done.
SwitchFails(m) ==
    /\ where = "prompt" /\ m # model
    /\ \E s \in LoadFails(Released(seat, m), m) :
        LET back == Released(s, model) IN seat' \in Leases(back, model) \cup LoadFails(back, model)
    /\ raised' = raised \cap seat'.loaded
    /\ UNCHANGED <<budget, roomy, where, model, generating, id, history, disk, screen,
                   counts, pressed, ending>>

-----------------------------------------------------------------------------
(* Ctrl-C and the end *)

\* on_sigint during a turn.
Sigint ==
    /\ where \notin {"off", "prompt"}
    /\ raised' = IF generating /\ seat.pointer # NoModel THEN raised \cup {seat.pointer} ELSE raised
    /\ pressed' = (pressed \/ generating)
    /\ UNCHANGED <<budget, roomy, where, chosen, generating, id, history, disk, screen, counts, ending>>

\* The chat is left (/exit, Ctrl-D, Ctrl-C at the prompt): the store is closed.
Leaves ==
    /\ where = "prompt"
    /\ Closed
    /\ moments' = {<<kept, listed>>}
    /\ UNCHANGED <<budget, roomy, kept, listed, counts>>

\* The process dies, and with it what the store had not written yet.
Dies ==
    /\ where # "off"
    /\ Closed
    /\ \E m \in moments : kept' = m[1] /\ listed' = m[2] /\ moments' = {m}
    /\ UNCHANGED <<budget, roomy, counts>>

\* Nobody starts it again.
Rests == where = "off" /\ UNCHANGED chatVars

ChatNext ==
    \/ NewChat \/ \E i \in Ids : Resume(i)
    \/ \E m \in Models : Switch(m) \/ SwitchFails(m)
    \/ \E n \in 1 .. Len(rest) : on_token(n)
    \/ Say \/ BeginTurn \/ TurnDone \/ TurnFails \/ EndTurn \/ Remember
    \/ Clear \/ Sigint \/ Leaves \/ Dies \/ Rests

ChatSpec == ChatInit /\ [][ChatNext]_chatVars

-----------------------------------------------------------------------------
(* Properties *)

ChatTypeOK ==
    /\ {budget, roomy} \subseteq BOOLEAN
    /\ where \in {"off", "prompt", "begin", "turn", "ended", "wrap"}
    /\ model \in Models \cup {NoModel} /\ seat.loaded \subseteq Models
    /\ raised \subseteq Models /\ id \in {0} \cup Ids /\ ToSet(listed) \subseteq Ids
    /\ generating \in BOOLEAN /\ pressed \in BOOLEAN

\* The text without its tool calls, as a whole; one that is not closed is
\* hidden to the end.
RECURSIVE Visible(_)
Visible(text) ==
    LET from == Find(text, Open)
        call == Drop(text, from + Len(Open))
        end == Find(call, Close) IN
    IF from = Len(text) THEN text
    ELSE Take(text, from) \o (IF end = Len(call) THEN << >> ELSE Visible(Drop(call, end + Len(Close))))

Lines(s) == SelectSeq(s, LAMBDA c : c # "\n")

\* "Tags split across tokens are handled" (cli_core.hpp:162): what is printed is
\* the answer that was streamed without its tool calls, however it was cut into
\* tokens.  Only the newline after a call is printed or not, depending on that.
ShownExact == where = "wrap" /\ received # << >> => Lines(shown) = Lines(Visible(received))

\* Ctrl-C is for the turn it was pressed in: no other is cancelled by it, and it
\* reaches the session at work, which is in memory.
CancelExact ==
    /\ where = "wrap" /\ ending = "cancelled" => pressed
    /\ generating /\ pressed /\ where = "turn" => seat.lease \in raised
    /\ seat.pointer = seat.lease /\ (seat.lease # NoModel => seat.lease \in seat.loaded)

\* The lease is on the model that the chat names; without a budget only one model
\* is in memory.
ModelsExact ==
    /\ seat.lease \in {model, NoModel}
    /\ ~budget => Cardinality(seat.loaded) <= 1

\* "A conversation is saved after every turn" (cli.md:152), whatever turns failed,
\* however they shortened the history before they did, and whatever the store did
\* not take or lost in a crash: the conversation and the one in the store begin
\* with the system prompt, and of the turns that the store knows it has every
\* message that the conversation still has.  After a turn that succeeded, and as
\* long as no write fails, the store has the whole conversation, and lists it,
\* last and once.
KeptExact ==
    where = "prompt" =>
        LET stored == kept[id]
            known == Max({0} \cup {stored[i].turn : i \in DOMAIN stored}) IN
        /\ history[1] = SystemPrompt /\ (stored # << >> => stored[1] = SystemPrompt)
        /\ stored # << >> => \A m \in ToSet(history) :
            m.turn <= known => \E k \in ToSet(stored) : k.who = m.who /\ k.turn = m.turn
        /\ lapses = 0 /\ ending = "ok" => stored = history /\ listed # << >> /\ Last(listed) = id
        /\ IsInjective(listed)

ChatsExact == ChatTypeOK /\ ShownExact /\ CancelExact /\ ModelsExact /\ KeptExact

\* "A conversation is saved after every turn" (cli.md:152): a conversation that
\* is listed can be resumed.  It does not hold, see README.md.
ListedIsKept == \A i \in ToSet(listed) : kept[i] # << >>
=============================================================================
