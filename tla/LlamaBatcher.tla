---------------------------- MODULE LlamaBatcher ----------------------------
(***************************************************************************)
(* The batching of the llama engine (src/engines/llama/llama_engine.cpp,   *)
(* class Batcher and generate): generations that run on threads of their   *)
(* own share one llama_context.  Each has a sequence of the context's      *)
(* cache; prompts are decoded one by one, next tokens in rounds.  The      *)
(* first generation that asks for a token leads the round: it lets others  *)
(* join, decodes one token of each in one call and hands out the results.  *)
(*                                                                         *)
(* One action is one critical section of mu_.  A cached token is the run   *)
(* of the generation it belongs to, so that a token sampled from a         *)
(* sequence tells what the sequence holds: whose tokens, and how many.     *)
(* The order of the requests in a batch is left out.                       *)
(***************************************************************************)
EXTENDS Integers, Sequences

CONSTANTS
    Gens,        \* threads in run()
    Scenes,      \* the contexts, requests and mishaps considered: see Scene
    None,        \* no sequence, result or position
    Failed       \* the result of a failed decode

Scene ==
    [seqs : Nat \ {0},                      \* n_seq, the sequences of the context
     ctx : Nat \ {0, 1},                    \* seq_ctx, the tokens of one sequence
     tokens : Nat,                          \* max_tokens of the requests
     happens : SUBSET {"decode", "clear"}]  \* a failing decode, a reset_cache

\* A token tells whose tokens it was sampled after, and how many.
Tokens == [of : SUBSET (Gens \X {0, 1}), n : Nat]

ASSUME ConstantsOK ==
    /\ Scenes \subseteq Scene
    /\ None # Failed /\ None \notin Nat \cup Tokens /\ Failed \notin Nat \cup Tokens

VARIABLES
    scene,     \* the Scene of this behaviour, fixed at the start
    free,      \* free_seq_ids_
    nextPos,   \* next_pos_
    cache,     \* llama_memory: the tokens of every sequence
    pending,   \* pending_: the generations that asked for a token
    batching,  \* batching_
    results,   \* results_
    pc,        \* where each generation is
    seq,       \* its sequence, or None
    run,       \* tells apart the runs of a thread
    token,     \* the token it got last
    left,      \* iterations of its loop that are left
    cleared    \* history: the cache was cleared during the run

vars == <<scene, free, nextPos, cache, pending, batching, results, pc, seq, run, token, left, cleared>>

Seqs == 0 .. scene.seqs - 1

\* A token sampled after sequence s was decoded.
Sample(s, memory) ==
    [of |-> {memory[s][i] : i \in DOMAIN memory[s]}, n |-> Len(memory[s])]

Init ==
    /\ scene \in Scenes
    /\ free = [i \in 1 .. scene.seqs |-> scene.seqs - i]
    /\ nextPos = [s \in Seqs |-> None]
    /\ cache = [s \in Seqs |-> << >>]
    /\ pending = {}
    /\ batching = FALSE
    /\ results = [s \in Seqs |-> None]
    /\ pc = [g \in Gens |-> "idle"]
    /\ seq = [g \in Gens |-> None]
    /\ run = [g \in Gens |-> 0]
    /\ token = [g \in Gens |-> None]
    /\ left = [g \in Gens |-> 0]
    /\ cleared = {}

Goto(g, where) == pc' = [pc EXCEPT ![g] = where]

\* Mutant: the sequence keeps what its last owner left in the cache.
SequenceKept(s) == UNCHANGED cache

\* llama_memory_seq_rm in acquire_seq.
SequenceCleared(s) == cache' = [cache EXCEPT ![s] = << >>]

\* free_seq_ids_.back()
Back == free[Len(free)]

\* A run takes a sequence; without a free one it fails.
acquire_seq(g) ==
    /\ pc[g] = "idle" /\ free # << >>
    /\ seq' = [seq EXCEPT ![g] = Back]
    /\ free' = SubSeq(free, 1, Len(free) - 1)
    /\ SequenceCleared(Back)
    /\ nextPos' = [nextPos EXCEPT ![Back] = 0]
    /\ run' = [run EXCEPT ![g] = 1 - @]
    /\ cleared' = cleared \ {g}
    /\ Goto(g, "prefill")
    /\ UNCHANGED <<pending, batching, results, token, left>>

AcquireFails(g) == pc[g] = "idle" /\ free = << >> /\ UNCHANGED vars

release_seq(g) ==
    /\ pc[g] = "release"
    /\ nextPos' = [nextPos EXCEPT ![seq[g]] = None]
    /\ free' = Append(free, seq[g])
    /\ seq' = [seq EXCEPT ![g] = None]
    /\ token' = [token EXCEPT ![g] = None]
    /\ left' = [left EXCEPT ![g] = 0]
    /\ Goto(g, "idle")
    /\ UNCHANGED <<cache, pending, batching, results, run, cleared>>

-----------------------------------------------------------------------------
\* Prompts.

Prompt(g, n) == [i \in 1 .. n |-> <<g, run[g]>>]

\* decode_prompt_locked: chunk after chunk, at the sequence's position.  What a
\* failed decode leaves in the cache goes with the sequence.
PromptDecoded(g, n) ==
    /\ cache' = [cache EXCEPT ![seq[g]] = @ \o Prompt(g, n)]
    /\ nextPos' = [nextPos EXCEPT ![seq[g]] = @ + n]

PromptFails(g) ==
    /\ pc[g] = "prefill"
    /\ "decode" \in scene.happens
    /\ \E n \in 0 .. 1 : cache' = [cache EXCEPT ![seq[g]] = @ \o Prompt(g, n)]
    /\ Goto(g, "release")
    /\ UNCHANGED <<free, nextPos, pending, batching, results, seq, run, token, left, cleared>>

\* max_tokens of a run with a prompt of n tokens.
TokensLeft(n) == IF scene.tokens < scene.ctx - n THEN scene.tokens ELSE scene.ctx - n

\* prefill and prefill_media: the first token is sampled at once.
prefill(g, n) ==
    /\ pc[g] = "prefill"
    /\ PromptDecoded(g, n)
    /\ token' = [token EXCEPT ![g] = Sample(seq[g], cache')]
    /\ left' = [left EXCEPT ![g] = TokensLeft(n)]
    /\ Goto(g, "loop")
    /\ UNCHANGED <<free, pending, batching, results, seq, run, cleared>>

\* score_options: every option is decoded after the prompt and removed again.
score_options(g, n) ==
    /\ pc[g] = "prefill"
    /\ PromptDecoded(g, n)
    /\ Goto(g, "release")
    /\ UNCHANGED <<free, pending, batching, results, seq, run, token, left, cleared>>

-----------------------------------------------------------------------------
\* Rounds.

\* The loop ends: the last token, an end-of-generation token or a stop, cancel.
LoopEnds(g) ==
    /\ pc[g] = "loop"
    /\ Goto(g, "release")
    /\ UNCHANGED <<free, nextPos, cache, pending, batching, results, seq, run, token, left, cleared>>

\* next_token, up to the wait or the debounce window.
next_token(g) ==
    /\ pc[g] = "loop" /\ left[g] > 0
    /\ pending' = pending \cup {g}
    /\ batching' = TRUE
    /\ Goto(g, IF ~batching THEN "lead" ELSE IF results[seq[g]] = None THEN "wait" ELSE "woken")
    /\ UNCHANGED <<free, nextPos, cache, results, seq, run, token, left, cleared>>

\* The generation goes on with its result, or ends with a failed decode.
TakeResult(g, result) ==
    /\ token' = [token EXCEPT ![g] = result]
    /\ left' = [left EXCEPT ![g] = @ - 1]

\* Mutant: notify_one.
WakeOne(where) ==
    LET sleeping == {g \in Gens : where[g] = "wait"}
        one == IF sleeping = {} THEN {} ELSE {CHOOSE g \in sleeping : TRUE}
    IN  [g \in Gens |-> IF g \in one THEN "woken" ELSE where[g]]

\* cv_.notify_all.
WakeAll(where) == [g \in Gens |-> IF where[g] = "wait" THEN "woken" ELSE where[g]]

\* The results that stay in results_: the leader erases its own.
Receivers(g, batch) == batch \ {seq[g]}

\* The RoundResult of sequence s.
RoundResult(s, ok) == IF ok THEN Sample(s, cache') ELSE Failed

\* Every position of the round moves on, whether the decode failed or not.
PositionsAdvance(batch) ==
    nextPos' = [s \in Seqs |-> IF s \in batch THEN nextPos[s] + 1 ELSE nextPos[s]]

\* The leader decodes the round, advances the positions, publishes the results
\* and takes its own.  llama_decode may fail, and may refuse a batch with a
\* position that does not continue its sequence.
LeadRound(g) ==
    LET batch == {seq[h] : h \in pending}
        fits == \A s \in batch : nextPos[s] = Len(cache[s])
        Owner(s) == CHOOSE h \in pending : seq[h] = s
    IN  /\ pc[g] = "lead"
        /\ \E ok \in BOOLEAN :
            /\ ~ok => ~fits \/ "decode" \in scene.happens
            /\ cache' = [s \in Seqs |->
                            IF ok /\ s \in batch THEN Append(cache[s], <<Owner(s), run[Owner(s)]>>)
                            ELSE cache[s]]
            /\ PositionsAdvance(batch)
            /\ results' = [s \in Seqs |->
                              IF s \in Receivers(g, batch) THEN RoundResult(s, ok) ELSE results[s]]
            /\ TakeResult(g, RoundResult(seq[g], ok))
            /\ pc' = WakeAll([pc EXCEPT ![g] = IF ok THEN "loop" ELSE "release"])
        /\ pending' = {}
        /\ batching' = FALSE
        /\ UNCHANGED <<free, seq, run, cleared>>

\* A waiting generation wakes up and takes its result (without one it waits on).
FollowerTakes(g) ==
    /\ pc[g] = "woken" /\ results[seq[g]] # None
    /\ results' = [results EXCEPT ![seq[g]] = None]
    /\ TakeResult(g, results[seq[g]])
    /\ Goto(g, IF results[seq[g]] = Failed THEN "release" ELSE "loop")
    /\ UNCHANGED <<free, nextPos, cache, pending, batching, seq, run, cleared>>

\* reset_cache empties every sequence; the positions stay.
clear ==
    /\ "clear" \in scene.happens
    /\ cache' = [s \in Seqs |-> << >>]
    /\ cleared' = {g \in Gens : seq[g] # None}
    /\ UNCHANGED <<free, nextPos, pending, batching, results, pc, seq, run, token, left>>

GenStep(g) ==
    \/ PromptFails(g)
    \/ \E n \in 1 .. scene.ctx - 1 : prefill(g, n) \/ score_options(g, n)
    \/ LoopEnds(g)
    \/ next_token(g)
    \/ LeadRound(g)
    \/ FollowerTakes(g)
    \/ release_seq(g)

Next ==
    /\ \/ \E g \in Gens : acquire_seq(g) \/ AcquireFails(g) \/ GenStep(g)
       \/ clear
    /\ UNCHANGED scene

Spec == Init /\ [][Next]_vars

-----------------------------------------------------------------------------
Running == {"prefill", "loop", "wait", "woken", "lead", "release"}

TypeOK ==
    /\ scene \in Scenes
    /\ free \in Seq(Seqs)
    /\ nextPos \in [Seqs -> Nat \cup {None}]
    /\ cache \in [Seqs -> Seq(Gens \X {0, 1})]
    /\ pending \subseteq Gens
    /\ batching \in BOOLEAN
    /\ results \in [Seqs -> Tokens \cup {None, Failed}]
    /\ pc \in [Gens -> Running \cup {"idle"}]
    /\ seq \in [Gens -> Seqs \cup {None}]
    /\ run \in [Gens -> {0, 1}]
    /\ token \in [Gens -> Tokens \cup {None, Failed}]
    /\ left \in [Gens -> Nat]
    /\ cleared \subseteq Gens

\* A sequence of the context is on the free list once, or one run owns it; no
\* result is left in results_ for a run that takes the sequence later
\* (acquire_seq and release_seq do not look at results_); and no sequence takes
\* more tokens than a sequence has room for in the unified cache.
SequencesAreExclusive ==
    /\ \A i, j \in 1 .. Len(free) : free[i] = free[j] => i = j
    /\ \A g, h \in Gens : seq[g] # None /\ seq[g] = seq[h] => g = h
    /\ \A s \in Seqs : (\E i \in 1 .. Len(free) : free[i] = s) <=> (\A g \in Gens : seq[g] # s)
    /\ \A g \in Gens : pc[g] # "idle" <=> seq[g] # None
    /\ \A s \in Seqs : results[s] # None => \E g \in Gens : seq[g] = s /\ pc[g] = "woken"
    /\ \A s \in Seqs : Len(cache[s]) <= scene.ctx

\* Every token that a generation goes on with was sampled after its own prompt
\* and all of its own tokens, and nothing else: what a round, another prompt, a
\* scored option or an earlier run left in the shared context never shows.
\* When reset_cache runs in between it may lose tokens, but gets nobody else's.
StreamsAreOwn ==
    /\ SequencesAreExclusive
    /\ \A g \in Gens : pc[g] = "loop" =>
        /\ token[g].of = {<<g, run[g]>>}
        /\ g \notin cleared => token[g].n = nextPos[seq[g]]

\* next_token: a generation that sleeps on cv_ is in the round that some leader
\* is about to decode, and one that woke up finds its result; there is one
\* leader at a time, and batching_ says whether.
FollowersAreServed ==
    /\ TypeOK
    /\ \A g \in Gens : pc[g] = "woken" => results[seq[g]] # None
    /\ pending = {g \in Gens : pc[g] \in {"wait", "lead"}}
    /\ \A g, h \in Gens : pc[g] = "lead" /\ pc[h] = "lead" => g = h
    /\ batching <=> \E g \in Gens : pc[g] = "lead"
    /\ batching <=> pending # {}
=============================================================================
