------------------------- MODULE LlamaBatcherProofs -------------------------
(***************************************************************************)
(* Proofs about LlamaBatcher, for every number of generations, every set   *)
(* of contexts and requests, failing decodes and reset_cache: each         *)
(* generation goes on with tokens of its own stream, and nobody who waits  *)
(* for a round is forgotten.                                               *)
(***************************************************************************)
EXTENDS LlamaBatcher, TLAPS

-----------------------------------------------------------------------------
(* The inductive invariant *)

\* Who has which sequence.
FreeInv ==
    /\ \A i, j \in 1 .. Len(free) : free[i] = free[j] => i = j
    /\ \A g, h \in Gens : seq[g] # None /\ seq[g] = seq[h] => g = h
    /\ \A s \in Seqs : (\E i \in 1 .. Len(free) : free[i] = s) <=> (\A g \in Gens : seq[g] # s)
    /\ \A g \in Gens : pc[g] # "idle" <=> seq[g] # None

\* A result is there for a generation that woke up, and for no other.
ResultInv ==
    /\ \A s \in Seqs : results[s] # None => \E g \in Gens : seq[g] = s /\ pc[g] = "woken"
    /\ \A g \in Gens : pc[g] = "woken" => results[seq[g]] # None

\* The round that is being collected.
RoundInv ==
    /\ pending = {g \in Gens : pc[g] \in {"wait", "lead"}}
    /\ \A g, h \in Gens : pc[g] = "lead" /\ pc[h] = "lead" => g = h
    /\ batching <=> \E g \in Gens : pc[g] = "lead"
    /\ batching <=> pending # {}

\* What a generation has: its part of the cache, its position, a result.
Cached(g) == cache[seq[g]]
Position(g) == nextPos[seq[g]]
Result(g) == results[seq[g]]

\* A token of the stream of g.
Own(g, t) == t.of = {<<g, run[g]>>} /\ (g \notin cleared => t.n = Position(g))

\* What is cached of g is its own; the iterations that are left have room; and
\* as long as nobody clears the cache nothing of it is missing.
GenInv(g) ==
    /\ Position(g) \in Nat
    /\ \A i \in DOMAIN Cached(g) : Cached(g)[i] = <<g, run[g]>>
    /\ pc[g] = "prefill" => Len(Cached(g)) = 0 /\ Position(g) = 0
    /\ pc[g] \in {"loop", "wait", "lead"} =>
        /\ Len(Cached(g)) <= Position(g) /\ Position(g) + left[g] <= scene.ctx
        /\ g \notin cleared => Len(Cached(g)) = Position(g)
    /\ pc[g] = "woken" =>
        /\ Len(Cached(g)) <= Position(g) /\ Position(g) + left[g] <= scene.ctx + 1
        /\ Result(g) # Failed =>
            Own(g, Result(g)) /\ (g \notin cleared => Len(Cached(g)) = Position(g))
    /\ pc[g] \in {"wait", "lead", "woken"} => left[g] > 0
    /\ pc[g] = "loop" => token[g] \in Tokens /\ Own(g, token[g])

CacheInv ==
    /\ \A s \in Seqs : Len(cache[s]) <= scene.ctx
    /\ \A g \in Gens : seq[g] # None => GenInv(g)

RoundsInv == TypeOK /\ FreeInv /\ ResultInv /\ RoundInv /\ CacheInv

-----------------------------------------------------------------------------
(* What a step keeps *)

\* The context of a behaviour and its sequences.
LEMMA SceneFacts ==
    ASSUME TypeOK
    PROVE  /\ scene.seqs \in Nat \ {0} /\ scene.ctx \in Nat \ {0, 1} /\ scene.tokens \in Nat
           /\ Seqs \subseteq Nat /\ None \notin Seqs
BY ConstantsOK DEF TypeOK, Scene, Seqs

\* A generation that is not idle has a sequence of its own.
LEMMA HasSequence ==
    ASSUME TypeOK, FreeInv, NEW g \in Gens, pc[g] # "idle"
    PROVE  /\ seq[g] \in Seqs /\ seq[g] # None
           /\ \A h \in Gens \ {g} : seq[h] # seq[g]
BY DEF TypeOK, FreeInv

\* A generation moves on, the others stay where they are.
LEMMA GotoMoves ==
    ASSUME TypeOK, NEW g \in Gens, NEW where \in Running \cup {"idle"}, Goto(g, where)
    PROVE  /\ pc' \in [Gens -> Running \cup {"idle"}]
           /\ pc'[g] = where /\ \A h \in Gens \ {g} : pc'[h] = pc[h]
BY DEF TypeOK, Goto

\* The sequences stay with the generations they belong to.
LEMMA FreeKept ==
    ASSUME FreeInv, scene' = scene, free' = free, seq' = seq,
           \A h \in Gens : pc'[h] = "idle" <=> pc[h] = "idle"
    PROVE  FreeInv'
BY DEF FreeInv, Seqs

\* No result comes or goes.
LEMMA ResultsKept ==
    ASSUME ResultInv, scene' = scene, seq' = seq, results' = results,
           \A h \in Gens : pc'[h] = "woken" <=> pc[h] = "woken"
    PROVE  ResultInv'
BY DEF ResultInv, Seqs

\* Nobody joins the round or leaves it.
LEMMA RoundKept ==
    ASSUME RoundInv, pending' = pending, batching' = batching,
           \A h \in Gens : /\ pc'[h] = "wait" <=> pc[h] = "wait"
                           /\ pc'[h] = "lead" <=> pc[h] = "lead"
    PROVE  RoundInv'
BY DEF RoundInv

\* Nothing that g has is touched.
LEMMA GenKept ==
    ASSUME NEW g, GenInv(g), scene' = scene,
           Cached(g)' = Cached(g), Position(g)' = Position(g), Result(g)' = Result(g),
           pc'[g] = pc[g], run'[g] = run[g], token'[g] = token[g], left'[g] = left[g],
           g \in cleared' <=> g \in cleared
    PROVE  GenInv(g)'
BY DEF GenInv, Own, Tokens

\* Only g and its sequence are touched.
LEMMA OthersKept ==
    ASSUME RoundsInv, scene' = scene, NEW g \in Gens, pc[g] # "idle", seq' = seq,
           run' = run, cleared' = cleared,
           \A s \in Seqs \ {seq[g]} :
               cache'[s] = cache[s] /\ nextPos'[s] = nextPos[s] /\ results'[s] = results[s],
           \A h \in Gens \ {g} : pc'[h] = pc[h] /\ token'[h] = token[h] /\ left'[h] = left[h],
           GenInv(g)', Len(cache'[seq[g]]) <= scene.ctx
    PROVE  CacheInv'
<1>1. \A s \in Seqs' : Len(cache'[s]) <= scene'.ctx
  BY DEF RoundsInv, CacheInv, Seqs
<1>2. ASSUME NEW h \in Gens, seq'[h] # None PROVE GenInv(h)'
  <2>1. CASE h = g
    BY <2>1
  <2>2. CASE h # g
    <3>1. GenInv(h) /\ seq[h] \in Seqs \ {seq[g]}
      BY <1>2, <2>2, HasSequence DEF RoundsInv, CacheInv, TypeOK
    <3>2. /\ Cached(h)' = Cached(h) /\ Position(h)' = Position(h) /\ Result(h)' = Result(h)
      BY <3>1 DEF Cached, Position, Result
    <3> QED BY <2>2, <3>1, <3>2, GenKept
  <2> QED BY <2>1, <2>2
<1> QED BY <1>1, <1>2 DEF CacheInv

-----------------------------------------------------------------------------
(* The steps of a generation *)

\* The loop of generate ends.
LEMMA LoopEndsKeeps ==
    ASSUME RoundsInv, scene' = scene, NEW g \in Gens, LoopEnds(g)
    PROVE  RoundsInv'
<1>1. /\ pc[g] = "loop" /\ pc'[g] = "release" /\ \A h \in Gens \ {g} : pc'[h] = pc[h]
      /\ pc' \in [Gens -> Running \cup {"idle"}]
  BY GotoMoves DEF LoopEnds, RoundsInv, Running
<1>2. /\ TypeOK /\ FreeInv /\ ResultInv /\ RoundInv /\ CacheInv /\ seq[g] # None
  BY <1>1, HasSequence DEF RoundsInv
<1>3. TypeOK' /\ FreeInv' /\ ResultInv' /\ RoundInv'
  <2>1. TypeOK'
    BY <1>1, <1>2 DEF LoopEnds, TypeOK, Seqs
  <2>2. FreeInv' /\ ResultInv' /\ RoundInv'
    BY <1>1, <1>2, FreeKept, ResultsKept, RoundKept DEF LoopEnds
  <2> QED BY <2>1, <2>2
<1>4. GenInv(g)'
  BY <1>1, <1>2 DEF LoopEnds, CacheInv, GenInv, Cached, Position
<1>5. CacheInv'
  BY <1>1, <1>2, <1>4, OthersKept, HasSequence DEF LoopEnds, CacheInv
<1> QED BY <1>3, <1>5 DEF RoundsInv

\* next_token: g leads the next round or joins the one that is being collected.
LEMMA NextTokenKeeps ==
    ASSUME RoundsInv, scene' = scene, NEW g \in Gens, next_token(g)
    PROVE  RoundsInv'
<1>1. /\ TypeOK /\ FreeInv /\ ResultInv /\ RoundInv /\ CacheInv
      /\ pc[g] = "loop" /\ seq[g] # None /\ seq[g] \in Seqs
      /\ \A h \in Gens \ {g} : seq[h] # seq[g]
  BY HasSequence DEF RoundsInv, next_token
<1>2. Result(g) = None
  BY <1>1 DEF ResultInv, Result
<1>3. /\ pc'[g] = (IF ~batching THEN "lead" ELSE "wait")
      /\ \A h \in Gens \ {g} : pc'[h] = pc[h]
      /\ pc' \in [Gens -> Running \cup {"idle"}]
  BY <1>1, <1>2, GotoMoves DEF next_token, Running, Result
<1>4. TypeOK'
  BY <1>1, <1>3 DEF next_token, TypeOK, Seqs
<1>5. FreeInv' /\ ResultInv'
  BY <1>1, <1>3, FreeKept, ResultsKept DEF next_token
<1>6. RoundInv'
  <2>1. pending' = {h \in Gens : pc'[h] \in {"wait", "lead"}}
    BY <1>1, <1>3 DEF next_token, RoundInv
  <2>2. \E h \in Gens : pc'[h] = "lead"
    BY <1>1, <1>3 DEF RoundInv
  <2>3. \A h, k \in Gens : pc'[h] = "lead" /\ pc'[k] = "lead" => h = k
    BY <1>1, <1>3 DEF RoundInv
  <2>4. batching' /\ pending' # {}
    BY <1>1 DEF next_token
  <2> QED BY <2>1, <2>2, <2>3, <2>4 DEF RoundInv
<1>7. GenInv(g)'
  BY <1>1, <1>3 DEF next_token, CacheInv, GenInv, Cached, Position, TypeOK
<1>8. CacheInv'
  BY <1>1, <1>3, <1>7, OthersKept DEF next_token, CacheInv
<1> QED BY <1>4, <1>5, <1>6, <1>8 DEF RoundsInv

\* Tokens of a prompt are of the run whose prompt it is.
LEMMA PromptIsOwn ==
    ASSUME TypeOK, NEW g \in Gens, NEW n \in Nat
    PROVE  /\ Prompt(g, n) \in Seq(Gens \X {0, 1})
           /\ Len(Prompt(g, n)) = n /\ DOMAIN Prompt(g, n) = 1 .. n
           /\ \A i \in 1 .. n : Prompt(g, n)[i] = <<g, run[g]>>
BY DEF TypeOK, Prompt

\* A prompt, or a part of it, is decoded into the empty sequence of g.
LEMMA PromptCached ==
    ASSUME RoundsInv, NEW g \in Gens, pc[g] = "prefill", NEW n \in 0 .. scene.ctx - 1,
           cache' = [cache EXCEPT ![seq[g]] = @ \o Prompt(g, n)]
    PROVE  /\ cache' \in [Seqs -> Seq(Gens \X {0, 1})]
           /\ Len(cache'[seq[g]]) = n
           /\ \A i \in DOMAIN cache'[seq[g]] : cache'[seq[g]][i] = <<g, run[g]>>
           /\ \A s \in Seqs \ {seq[g]} : cache'[s] = cache[s]
<1>1. n \in Nat /\ TypeOK /\ seq[g] \in Seqs
  BY SceneFacts, HasSequence DEF RoundsInv
<1>2. cache[seq[g]] = << >>
  BY <1>1, HasSequence DEF RoundsInv, CacheInv, GenInv, Cached, TypeOK
<1>3. cache'[seq[g]] = Prompt(g, n)
  BY <1>1, <1>2, PromptIsOwn DEF TypeOK
<1>4. cache' \in [Seqs -> Seq(Gens \X {0, 1})]
  BY <1>1, <1>2, PromptIsOwn DEF TypeOK
<1>5. Len(cache'[seq[g]]) = n /\ \A i \in DOMAIN cache'[seq[g]] : cache'[seq[g]][i] = <<g, run[g]>>
  <2>1. /\ Len(Prompt(g, n)) = n /\ DOMAIN Prompt(g, n) = 1 .. n
        /\ \A i \in 1 .. n : Prompt(g, n)[i] = <<g, run[g]>>
    BY ZenonT(30), <1>1, PromptIsOwn
  <2> QED BY <1>3, <2>1, Zenon
<1>6. \A s \in Seqs \ {seq[g]} : cache'[s] = cache[s]
  BY <1>1 DEF TypeOK
<1> QED BY <1>4, <1>5, <1>6

\* decode_prompt_locked fails part of the way.
LEMMA PromptFailsKeeps ==
    ASSUME RoundsInv, scene' = scene, NEW g \in Gens, PromptFails(g)
    PROVE  RoundsInv'
<1>1. /\ TypeOK /\ FreeInv /\ ResultInv /\ RoundInv /\ CacheInv
      /\ pc[g] = "prefill" /\ seq[g] # None /\ seq[g] \in Seqs
      /\ pc'[g] = "release" /\ \A h \in Gens \ {g} : pc'[h] = pc[h]
      /\ pc' \in [Gens -> Running \cup {"idle"}]
  BY HasSequence, GotoMoves DEF RoundsInv, PromptFails, Running
<1>2. PICK n \in 0 .. 1 : cache' = [cache EXCEPT ![seq[g]] = @ \o Prompt(g, n)]
  BY ZenonT(30) DEF PromptFails
<1>3. n \in 0 .. scene.ctx - 1
  BY <1>1, SceneFacts
<1>4. TypeOK'
  BY ZenonT(30), <1>1, <1>2, <1>3, PromptCached DEF PromptFails, TypeOK, Seqs
<1>5. FreeInv' /\ ResultInv' /\ RoundInv'
  BY <1>1, FreeKept, ResultsKept, RoundKept DEF PromptFails
<1>6. GenInv(g)'
  <2>1. \A i \in DOMAIN Cached(g)' : Cached(g)'[i] = <<g, run'[g]>>
    BY ZenonT(30), <1>1, <1>2, <1>3, PromptCached DEF PromptFails, Cached
  <2>2. Position(g)' \in Nat
    BY <1>1 DEF PromptFails, CacheInv, GenInv, Position
  <2> QED BY <1>1, <2>1, <2>2 DEF GenInv
<1>7. Len(cache'[seq[g]]) <= scene.ctx /\ \A s \in Seqs \ {seq[g]} : cache'[s] = cache[s]
  <2>1. Len(cache'[seq[g]]) = n /\ \A s \in Seqs \ {seq[g]} : cache'[s] = cache[s]
    BY ZenonT(30), <1>1, <1>2, <1>3, PromptCached
  <2> QED BY <2>1, <1>1, SceneFacts
<1>8. CacheInv'
  BY <1>1, <1>6, <1>7, OthersKept DEF PromptFails
<1> QED BY <1>4, <1>5, <1>8 DEF RoundsInv

\* One more token of g after tokens of g.
LEMMA AppendIsOwn ==
    ASSUME NEW S, NEW t \in S, NEW tokens \in Seq(S), \A i \in DOMAIN tokens : tokens[i] = t
    PROVE  /\ Append(tokens, t) \in Seq(S) /\ Len(Append(tokens, t)) = Len(tokens) + 1
           /\ Len(Append(tokens, t)) > 0
           /\ \A i \in DOMAIN Append(tokens, t) : Append(tokens, t)[i] = t
OBVIOUS

\* prefill: the prompt is decoded and the first token sampled.
LEMMA PrefillKeeps ==
    ASSUME RoundsInv, scene' = scene, NEW g \in Gens, NEW n \in 1 .. scene.ctx - 1, prefill(g, n)
    PROVE  RoundsInv'
<1>1. /\ TypeOK /\ FreeInv /\ ResultInv /\ RoundInv /\ CacheInv
      /\ pc[g] = "prefill" /\ seq[g] # None /\ seq[g] \in Seqs
      /\ pc'[g] = "loop" /\ \A h \in Gens \ {g} : pc'[h] = pc[h]
      /\ pc' \in [Gens -> Running \cup {"idle"}]
  BY HasSequence, GotoMoves DEF RoundsInv, prefill, Running
<1>2. n \in 0 .. scene.ctx - 1 /\ n \in Nat \ {0} /\ n < scene.ctx
      /\ scene.ctx \in Nat /\ scene.tokens \in Nat
  BY <1>1, SceneFacts
<1>3. /\ cache' \in [Seqs -> Seq(Gens \X {0, 1})]
      /\ Len(cache'[seq[g]]) = n
      /\ \A i \in DOMAIN cache'[seq[g]] : cache'[seq[g]][i] = <<g, run[g]>>
      /\ \A s \in Seqs \ {seq[g]} : cache'[s] = cache[s]
  BY <1>1, <1>2, PromptCached, Zenon DEF prefill, PromptDecoded
<1>4. /\ nextPos' \in [Seqs -> Nat \cup {None}] /\ nextPos'[seq[g]] = n
      /\ \A s \in Seqs \ {seq[g]} : nextPos'[s] = nextPos[s]
  <2>1. nextPos[seq[g]] = 0
    BY <1>1 DEF CacheInv, GenInv, Position
  <2> QED BY <1>1, <1>2, <2>1 DEF prefill, PromptDecoded, TypeOK
<1>5. /\ token' \in [Gens -> Tokens \cup {None, Failed}]
      /\ token'[g] \in Tokens /\ token'[g].of = {<<g, run[g]>>} /\ token'[g].n = n
      /\ \A h \in Gens \ {g} : token'[h] = token[h]
  <2>1. /\ Sample(seq[g], cache') \in Tokens /\ Sample(seq[g], cache').of = {<<g, run[g]>>}
        /\ Sample(seq[g], cache').n = n
    <3>1. cache'[seq[g]] \in Seq(Gens \X {0, 1}) /\ Len(cache'[seq[g]]) > 0
      BY <1>1, <1>2, <1>3
    <3>2. run[g] \in {0, 1}
      BY <1>1 DEF TypeOK
    <3> DEFINE tokens == cache'[seq[g]]
    <3>3. tokens \in Seq(Gens \X {0, 1}) /\ Len(tokens) = n /\ 1 \in DOMAIN tokens
      BY <1>2, <1>3, <3>1
    <3>4. {tokens[i] : i \in DOMAIN tokens} = {<<g, run[g]>>}
      BY ZenonT(30), <1>3, <3>3
    <3>5. Sample(seq[g], cache') = [of |-> {<<g, run[g]>>}, n |-> n]
      BY ZenonT(30), <3>3, <3>4 DEF Sample
    <3> QED BY <3>2, <3>5, <1>2 DEF Tokens
  <2> QED BY <1>1, <2>1 DEF prefill, TypeOK
<1>6. /\ left' \in [Gens -> Nat] /\ n + left'[g] <= scene.ctx
      /\ \A h \in Gens \ {g} : left'[h] = left[h]
  <2>1. TokensLeft(n) \in Nat /\ n + TokensLeft(n) <= scene.ctx
    BY <1>2 DEF TokensLeft
  <2> QED BY <1>1, <2>1 DEF prefill, TypeOK
<1>7. TypeOK'
  BY <1>1, <1>3, <1>4, <1>5, <1>6 DEF prefill, TypeOK, Seqs
<1>8. FreeInv' /\ ResultInv' /\ RoundInv'
  BY <1>1, FreeKept, ResultsKept, RoundKept DEF prefill
<1>9. GenInv(g)'
  BY <1>1, <1>2, <1>3, <1>4, <1>5, <1>6 DEF prefill, GenInv, Own, Cached, Position, Tokens
<1>10. CacheInv'
  BY <1>1, <1>2, <1>3, <1>4, <1>5, <1>6, <1>9, OthersKept DEF prefill
<1> QED BY <1>7, <1>8, <1>10 DEF RoundsInv

\* score_options leaves the prompt in the sequence and gives it back.
LEMMA ScoreOptionsKeeps ==
    ASSUME RoundsInv, scene' = scene, NEW g \in Gens, NEW n \in 1 .. scene.ctx - 1,
           score_options(g, n)
    PROVE  RoundsInv'
<1>1. /\ TypeOK /\ FreeInv /\ ResultInv /\ RoundInv /\ CacheInv
      /\ pc[g] = "prefill" /\ seq[g] # None /\ seq[g] \in Seqs
      /\ pc'[g] = "release" /\ \A h \in Gens \ {g} : pc'[h] = pc[h]
      /\ pc' \in [Gens -> Running \cup {"idle"}]
  BY HasSequence, GotoMoves DEF RoundsInv, score_options, Running
<1>2. n \in 0 .. scene.ctx - 1 /\ n \in Nat \ {0} /\ n < scene.ctx /\ scene.ctx \in Nat
  BY <1>1, SceneFacts
<1>3. /\ cache' \in [Seqs -> Seq(Gens \X {0, 1})]
      /\ Len(cache'[seq[g]]) = n
      /\ \A i \in DOMAIN cache'[seq[g]] : cache'[seq[g]][i] = <<g, run[g]>>
      /\ \A s \in Seqs \ {seq[g]} : cache'[s] = cache[s]
  BY <1>1, <1>2, PromptCached, Zenon DEF score_options, PromptDecoded
<1>4. /\ nextPos' \in [Seqs -> Nat \cup {None}] /\ nextPos'[seq[g]] = n
      /\ \A s \in Seqs \ {seq[g]} : nextPos'[s] = nextPos[s]
  <2>1. nextPos[seq[g]] = 0
    BY <1>1 DEF CacheInv, GenInv, Position
  <2> QED BY <1>1, <1>2, <2>1 DEF score_options, PromptDecoded, TypeOK
<1>5. TypeOK'
  BY <1>1, <1>3, <1>4, ZenonT(30) DEF score_options, TypeOK, Seqs
<1>6. FreeInv' /\ ResultInv' /\ RoundInv'
  BY <1>1, FreeKept, ResultsKept, RoundKept DEF score_options
<1>7. GenInv(g)'
  BY <1>1, <1>2, <1>3, <1>4 DEF score_options, GenInv, Cached, Position
<1>8. CacheInv'
  BY <1>1, <1>2, <1>3, <1>4, <1>7, OthersKept DEF score_options
<1> QED BY <1>5, <1>6, <1>8 DEF RoundsInv

\* next_token after the wait: the result is taken out of results_.
LEMMA FollowerTakesKeeps ==
    ASSUME RoundsInv, scene' = scene, NEW g \in Gens, FollowerTakes(g)
    PROVE  RoundsInv'
<1>1. /\ TypeOK /\ FreeInv /\ ResultInv /\ RoundInv /\ CacheInv
      /\ pc[g] = "woken" /\ seq[g] # None /\ seq[g] \in Seqs
      /\ \A h \in Gens \ {g} : seq[h] # seq[g]
      /\ Result(g) # None /\ Result(g) \in Tokens \cup {Failed}
      /\ pc'[g] = IF Result(g) = Failed THEN "release" ELSE "loop"
      /\ \A h \in Gens \ {g} : pc'[h] = pc[h]
      /\ pc' \in [Gens -> Running \cup {"idle"}]
  BY HasSequence, GotoMoves DEF RoundsInv, FollowerTakes, Running, Result, TypeOK
<1>2. /\ results' \in [Seqs -> Tokens \cup {None, Failed}] /\ results'[seq[g]] = None
      /\ \A s \in Seqs \ {seq[g]} : results'[s] = results[s]
  BY <1>1 DEF FollowerTakes, TypeOK
<1>3. /\ token' \in [Gens -> Tokens \cup {None, Failed}] /\ token'[g] = Result(g)
      /\ \A h \in Gens \ {g} : token'[h] = token[h]
  BY <1>1 DEF FollowerTakes, TakeResult, TypeOK, Result
<1>4. /\ left' \in [Gens -> Nat] /\ left[g] \in Nat /\ left'[g] = left[g] - 1
      /\ \A h \in Gens \ {g} : left'[h] = left[h]
  BY <1>1 DEF FollowerTakes, TakeResult, TypeOK, CacheInv, GenInv
<1>5. TypeOK'
  BY <1>1, <1>2, <1>3, <1>4 DEF FollowerTakes, TypeOK, Seqs
<1>6. FreeInv' /\ RoundInv'
  BY ZenonT(30), <1>1, FreeKept, RoundKept DEF FollowerTakes
<1>7. ResultInv'
  <2>1. ASSUME NEW h \in Gens, pc'[h] = "woken" PROVE results'[seq'[h]] # None
    BY <2>1, <1>1, <1>2, HasSequence DEF ResultInv, FollowerTakes, TypeOK
  <2>2. ASSUME NEW s \in Seqs, results'[s] # None
        PROVE  \E h \in Gens : seq'[h] = s /\ pc'[h] = "woken"
    BY <2>2, <1>1, <1>2 DEF ResultInv, FollowerTakes
  <2> QED BY <2>1, <2>2 DEF ResultInv, Seqs
<1>8. GenInv(g)'
  <2>1. Cached(g)' = Cached(g) /\ Position(g)' = Position(g)
    BY DEF FollowerTakes, Cached, Position
  <2>2. GenInv(g) /\ scene.ctx \in Nat
    BY <1>1, SceneFacts DEF CacheInv
  <2>3. UNCHANGED <<run, cleared, scene>>
    BY DEF FollowerTakes
  <2>4. /\ Position(g)' \in Nat /\ \A i \in DOMAIN Cached(g)' : Cached(g)'[i] = <<g, run'[g]>>
        /\ Len(Cached(g)') <= Position(g)' /\ Position(g)' + left'[g] <= scene'.ctx
    <3>1. /\ Position(g) \in Nat /\ \A i \in DOMAIN Cached(g) : Cached(g)[i] = <<g, run[g]>>
          /\ Len(Cached(g)) <= Position(g) /\ Position(g) + left[g] <= scene.ctx + 1
      BY <1>1, <2>2 DEF GenInv
    <3> QED BY <1>4, <2>1, <2>2, <2>3, <3>1
  <2>5. CASE Result(g) = Failed
    BY <1>1, <2>4, <2>5 DEF GenInv, Result
  <2>6. CASE Result(g) # Failed
    <3>1. Own(g, Result(g)) /\ (g \notin cleared => Len(Cached(g)) = Position(g))
      BY <1>1, <2>2, <2>6 DEF GenInv
    <3>2. Own(g, token[g])'
      BY <1>3, <2>1, <2>3, <3>1 DEF Own
    <3>3. token'[g] \in Tokens /\ pc'[g] = "loop"
      BY <1>1, <1>2, <1>3, <2>6 DEF Result, TypeOK
    <3> QED BY <2>1, <2>3, <2>4, <3>1, <3>2, <3>3 DEF GenInv
  <2> QED BY <2>5, <2>6
<1>9. CacheInv'
  BY <1>1, <1>2, <1>3, <1>4, <1>8, OthersKept DEF FollowerTakes, CacheInv
<1> QED BY <1>5, <1>6, <1>7, <1>9 DEF RoundsInv

-----------------------------------------------------------------------------
(* Sequences come and go *)

\* acquire_seq: the last free sequence, emptied, goes to g.
LEMMA AcquireKeeps ==
    ASSUME RoundsInv, scene' = scene, NEW g \in Gens, acquire_seq(g)
    PROVE  RoundsInv'
<1>1. /\ TypeOK /\ FreeInv /\ ResultInv /\ RoundInv /\ CacheInv
      /\ pc[g] = "idle" /\ seq[g] = None
      /\ pc'[g] = "prefill" /\ \A h \in Gens \ {g} : pc'[h] = pc[h]
      /\ pc' \in [Gens -> Running \cup {"idle"}]
  BY ZenonT(30), GotoMoves DEF RoundsInv, acquire_seq, Running, FreeInv
<1>2. None \notin Seqs
  BY <1>1, SceneFacts
<1>3. /\ free \in Seq(Seqs) /\ Len(free) \in Nat \ {0} /\ Len(free) \in 1 .. Len(free)
      /\ Back = free[Len(free)] /\ Back \in Seqs
  BY <1>1 DEF acquire_seq, TypeOK, Back
<1>4. /\ Len(free') = Len(free) - 1 /\ free' \in Seq(Seqs)
      /\ \A i \in 1 .. Len(free) - 1 : free'[i] = free[i]
  <2> DEFINE m == Len(free) - 1
  <2>1. m \in Nat /\ m <= Len(free) /\ free' = SubSeq(free, 1, m)
    BY <1>3 DEF acquire_seq
  <2> HIDE DEF m
  <2>2. Len(free') = m /\ free' \in Seq(Seqs) /\ \A i \in 1 .. m : free'[i] = free[i]
    BY <1>3, <2>1
  <2> QED BY <2>2 DEF m
<1>5. /\ seq' \in [Gens -> Seqs \cup {None}] /\ seq'[g] = Back
      /\ \A h \in Gens \ {g} : seq'[h] = seq[h]
  BY <1>1, <1>3 DEF acquire_seq, TypeOK
<1>6. /\ cache' \in [Seqs -> Seq(Gens \X {0, 1})] /\ cache'[Back] = << >>
      /\ \A s \in Seqs \ {Back} : cache'[s] = cache[s]
  BY <1>1, <1>3 DEF acquire_seq, SequenceCleared, TypeOK
<1>7. /\ nextPos' \in [Seqs -> Nat \cup {None}] /\ nextPos'[Back] = 0
      /\ \A s \in Seqs \ {Back} : nextPos'[s] = nextPos[s]
  BY <1>1, <1>3 DEF acquire_seq, TypeOK
<1>8. run' \in [Gens -> {0, 1}] /\ \A h \in Gens \ {g} : run'[h] = run[h]
  <2>1. run[g] \in {0, 1} /\ 1 - run[g] \in {0, 1}
    BY <1>1 DEF TypeOK
  <2> QED BY <1>1, <2>1 DEF acquire_seq, TypeOK
<1>9. \A h \in Gens : seq[h] # Back
  BY <1>1, <1>3 DEF FreeInv
<1>10. TypeOK'
  BY <1>1, <1>4, <1>5, <1>6, <1>7, <1>8 DEF acquire_seq, TypeOK, Seqs
<1>11. FreeInv'
  <2>1. \A i, j \in 1 .. Len(free') : free'[i] = free'[j] => i = j
    BY <1>1, <1>3, <1>4 DEF FreeInv
  <2>2. \A h, k \in Gens : seq'[h] # None /\ seq'[h] = seq'[k] => h = k
    BY <1>1, <1>5, <1>9 DEF FreeInv
  <2>3. ASSUME NEW s \in Seqs
        PROVE  (\E i \in 1 .. Len(free') : free'[i] = s) <=> (\A h \in Gens : seq'[h] # s)
    <3>1. CASE s = Back
      <4>1. ~ \E i \in 1 .. Len(free') : free'[i] = s
        BY <1>1, <1>3, <1>4, <3>1 DEF FreeInv
      <4> QED BY <4>1, <3>1, <1>5
    <3>2. CASE s # Back
      <4>1. (\E i \in 1 .. Len(free') : free'[i] = s) <=> (\E i \in 1 .. Len(free) : free[i] = s)
        BY <1>3, <1>4, <3>2
      <4>2. (\A h \in Gens : seq'[h] # s) <=> (\A h \in Gens : seq[h] # s)
        BY <1>1, <1>2, <1>5, <3>2
      <4> QED BY <4>1, <4>2, <1>1 DEF FreeInv
    <3> QED BY <3>1, <3>2
  <2>4. \A h \in Gens : pc'[h] # "idle" <=> seq'[h] # None
    BY <1>1, <1>2, <1>3, <1>5 DEF FreeInv
  <2> QED BY <2>1, <2>2, <2>3, <2>4 DEF FreeInv, Seqs
<1>12. ResultInv' /\ RoundInv'
  <2>1. ResultInv'
    BY <1>1, <1>5 DEF acquire_seq, ResultInv, Seqs
  <2> QED BY <2>1, <1>1, RoundKept DEF acquire_seq
<1>13. CacheInv'
  <2>1. \A s \in Seqs' : Len(cache'[s]) <= scene'.ctx
    BY <1>1, <1>6, SceneFacts DEF CacheInv, Seqs
  <2>2. GenInv(g)'
    BY <1>1, <1>5, <1>6, <1>7 DEF GenInv, Cached, Position
  <2>3. ASSUME NEW h \in Gens \ {g}, seq'[h] # None PROVE GenInv(h)'
    <3>1. GenInv(h) /\ seq[h] \in Seqs \ {Back} /\ seq'[h] = seq[h]
      BY <2>3, <1>1, <1>5, <1>9 DEF CacheInv, TypeOK
    <3>2. Cached(h)' = Cached(h) /\ Position(h)' = Position(h) /\ Result(h)' = Result(h)
      BY <3>1, <1>6, <1>7 DEF Cached, Position, Result, acquire_seq
    <3> QED BY <3>1, <3>2, <1>1, <1>8, GenKept DEF acquire_seq
  <2> QED BY <2>1, <2>2, <2>3 DEF CacheInv
<1> QED BY <1>10, <1>11, <1>12, <1>13 DEF RoundsInv

\* release_seq: the sequence of g is free again.
LEMMA ReleaseKeeps ==
    ASSUME RoundsInv, scene' = scene, NEW g \in Gens, release_seq(g)
    PROVE  RoundsInv'
<1>1. /\ TypeOK /\ FreeInv /\ ResultInv /\ RoundInv /\ CacheInv
      /\ pc[g] = "release" /\ seq[g] # None /\ seq[g] \in Seqs
      /\ \A h \in Gens \ {g} : seq[h] # seq[g]
      /\ pc'[g] = "idle" /\ \A h \in Gens \ {g} : pc'[h] = pc[h]
      /\ pc' \in [Gens -> Running \cup {"idle"}]
  BY HasSequence, GotoMoves DEF RoundsInv, release_seq, Running
<1>2. None \notin Seqs
  BY <1>1, SceneFacts
<1>3. /\ free \in Seq(Seqs) /\ Len(free) \in Nat /\ free' \in Seq(Seqs)
      /\ Len(free') = Len(free) + 1 /\ free'[Len(free) + 1] = seq[g]
      /\ \A i \in 1 .. Len(free) : free'[i] = free[i]
  BY <1>1 DEF release_seq, TypeOK
<1>4. /\ seq' \in [Gens -> Seqs \cup {None}] /\ seq'[g] = None
      /\ \A h \in Gens \ {g} : seq'[h] = seq[h]
  BY <1>1 DEF release_seq, TypeOK
<1>5. /\ nextPos' \in [Seqs -> Nat \cup {None}]
      /\ \A s \in Seqs \ {seq[g]} : nextPos'[s] = nextPos[s]
  BY <1>1 DEF release_seq, TypeOK
<1>6. /\ token' \in [Gens -> Tokens \cup {None, Failed}] /\ left' \in [Gens -> Nat]
      /\ \A h \in Gens \ {g} : token'[h] = token[h] /\ left'[h] = left[h]
  BY <1>1 DEF release_seq, TypeOK
<1>7. TypeOK'
  BY <1>1, <1>3, <1>4, <1>5, <1>6 DEF release_seq, TypeOK, Seqs
<1>8. FreeInv'
  <2>1. \A i \in 1 .. Len(free) : free[i] # seq[g]
    BY <1>1 DEF FreeInv
  <2>2. \A i, j \in 1 .. Len(free') : free'[i] = free'[j] => i = j
    BY <1>1, <1>3, <2>1 DEF FreeInv
  <2>3. \A h, k \in Gens : seq'[h] # None /\ seq'[h] = seq'[k] => h = k
    BY <1>1, <1>4 DEF FreeInv
  <2>4. ASSUME NEW s \in Seqs
        PROVE  (\E i \in 1 .. Len(free') : free'[i] = s) <=> (\A h \in Gens : seq'[h] # s)
    <3>1. CASE s = seq[g]
      BY <3>1, <1>1, <1>2, <1>3, <1>4
    <3>2. CASE s # seq[g]
      <4>1. (\E i \in 1 .. Len(free') : free'[i] = s) <=> (\E i \in 1 .. Len(free) : free[i] = s)
        BY <1>3, <3>2
      <4>2. (\A h \in Gens : seq'[h] # s) <=> (\A h \in Gens : seq[h] # s)
        BY <1>1, <1>2, <1>4, <3>2
      <4> QED BY <4>1, <4>2, <1>1 DEF FreeInv
    <3> QED BY <3>1, <3>2
  <2>5. \A h \in Gens : pc'[h] # "idle" <=> seq'[h] # None
    BY <1>1, <1>4 DEF FreeInv
  <2> QED BY <2>2, <2>3, <2>4, <2>5 DEF FreeInv, Seqs
<1>9. ResultInv' /\ RoundInv'
  <2>1. ResultInv'
    BY <1>1, <1>4 DEF release_seq, ResultInv, Seqs
  <2> QED BY <2>1, <1>1, RoundKept DEF release_seq
<1>10. CacheInv'
  <2>1. \A s \in Seqs' : Len(cache'[s]) <= scene'.ctx
    BY <1>1 DEF release_seq, CacheInv, Seqs
  <2>2. ASSUME NEW h \in Gens, seq'[h] # None PROVE GenInv(h)'
    <3>1. GenInv(h) /\ seq[h] \in Seqs \ {seq[g]} /\ seq'[h] = seq[h] /\ h # g
      BY <2>2, <1>1, <1>4 DEF CacheInv, TypeOK
    <3>2. Cached(h)' = Cached(h) /\ Position(h)' = Position(h) /\ Result(h)' = Result(h)
      BY <3>1, <1>5 DEF Cached, Position, Result, release_seq
    <3> QED BY ZenonT(30), <3>1, <3>2, <1>1, <1>6, GenKept DEF release_seq
  <2> QED BY <2>1, <2>2 DEF CacheInv
<1> QED BY <1>7, <1>8, <1>9, <1>10 DEF RoundsInv

\* reset_cache: what is lost is marked as lost, and nothing is mixed up.
LEMMA ClearKeeps ==
    ASSUME RoundsInv, scene' = scene, clear
    PROVE  RoundsInv'
<1>1. /\ TypeOK /\ FreeInv /\ ResultInv /\ RoundInv /\ CacheInv
  BY DEF RoundsInv
<1>2. TypeOK'
  BY <1>1 DEF clear, TypeOK, Seqs
<1>3. FreeInv' /\ ResultInv' /\ RoundInv'
  BY <1>1, FreeKept, ResultsKept, RoundKept DEF clear
<1>4. \A s \in Seqs' : Len(cache'[s]) <= scene'.ctx
  BY <1>1, SceneFacts DEF clear, Seqs
<1>5. ASSUME NEW h \in Gens, seq'[h] # None PROVE GenInv(h)'
  <2>1. GenInv(h) /\ seq[h] \in Seqs /\ h \in cleared'
    BY <1>1, <1>5 DEF CacheInv, TypeOK, clear
  <2>2. Cached(h)' = << >> /\ Position(h)' = Position(h) /\ Result(h)' = Result(h)
    BY <2>1 DEF Cached, Position, Result, clear
  <2> QED BY <2>1, <2>2 DEF GenInv, Own, clear, Tokens
<1> QED BY <1>2, <1>3, <1>4, <1>5 DEF RoundsInv, CacheInv

-----------------------------------------------------------------------------
(* A round *)

\* The round of g: everybody in it gets one more token of their own, or the
\* failure, and is woken; nobody else is touched.
LEMMA LeadRoundKeeps ==
    ASSUME RoundsInv, scene' = scene, NEW g \in Gens, LeadRound(g)
    PROVE  RoundsInv'
<1> DEFINE batch == {seq[h] : h \in pending}
           Owner(s) == CHOOSE h \in pending : seq[h] = s
<1>1. /\ TypeOK /\ FreeInv /\ ResultInv /\ RoundInv /\ CacheInv
      /\ pc[g] = "lead" /\ seq[g] # None /\ seq[g] \in Seqs
      /\ \A h \in Gens \ {g} : seq[h] # seq[g]
      /\ scene.ctx \in Nat /\ None \notin Seqs
  BY ZenonT(30), HasSequence, SceneFacts DEF RoundsInv, LeadRound
<1>2. /\ pending = {h \in Gens : pc[h] \in {"wait", "lead"}} /\ g \in pending
      /\ \A h \in Gens : pc[h] = "lead" => h = g
  BY <1>1 DEF RoundInv
<1>3. ASSUME NEW h \in pending
      PROVE  h \in Gens /\ seq[h] \in Seqs /\ seq[h] # None /\ Owner(seq[h]) = h /\ seq[h] \in batch
  <2>1. h \in Gens /\ seq[h] \in Seqs /\ seq[h] # None /\ \A k \in Gens \ {h} : seq[k] # seq[h]
    BY <1>1, <1>2, HasSequence
  <2> QED BY <2>1, <1>2
<1>4. ASSUME NEW h \in Gens, seq[h] # None, h \notin pending PROVE seq[h] \notin batch
  BY <1>1, <1>2, <1>4 DEF FreeInv
<1>5. batch \subseteq Seqs
  BY <1>3
<1>6. PICK ok \in BOOLEAN :
        /\ cache' = [s \in Seqs |->
                        IF ok /\ s \in batch THEN Append(cache[s], <<Owner(s), run[Owner(s)]>>)
                        ELSE cache[s]]
        /\ results' = [s \in Seqs |->
                          IF s \in Receivers(g, batch) THEN RoundResult(s, ok) ELSE results[s]]
        /\ TakeResult(g, RoundResult(seq[g], ok))
        /\ pc' = WakeAll([pc EXCEPT ![g] = IF ok THEN "loop" ELSE "release"])
  BY ZenonT(30) DEF LeadRound
<1>7. /\ nextPos' = [s \in Seqs |-> IF s \in batch THEN nextPos[s] + 1 ELSE nextPos[s]]
      /\ pending' = {} /\ batching' = FALSE
      /\ free' = free /\ seq' = seq /\ run' = run /\ cleared' = cleared
  BY DEF LeadRound, PositionsAdvance
<1> HIDE DEF batch, Owner
<1>8. /\ pc' \in [Gens -> Running \cup {"idle"}]
      /\ pc'[g] = IF ok THEN "loop" ELSE "release"
      /\ \A h \in Gens \ {g} : pc'[h] = IF pc[h] = "wait" THEN "woken" ELSE pc[h]
  BY <1>1, <1>6 DEF WakeAll, TypeOK, Running
<1>9. ASSUME NEW h \in pending
      PROVE  /\ cache[seq[h]] \in Seq(Gens \X {0, 1})
             /\ Len(cache[seq[h]]) < scene.ctx
             /\ nextPos[seq[h]] \in Nat /\ nextPos'[seq[h]] = nextPos[seq[h]] + 1
             /\ ~ok => cache'[seq[h]] = cache[seq[h]]
             /\ ok => cache'[seq[h]] = Append(cache[seq[h]], <<h, run[h]>>)
             /\ GenInv(h)
  <2>1. GenInv(h) /\ h \in Gens /\ seq[h] \in Seqs /\ Owner(seq[h]) = h /\ seq[h] \in batch
    BY <1>1, <1>3 DEF CacheInv
  <2>2. cache[seq[h]] \in Seq(Gens \X {0, 1}) /\ left[h] \in Nat
    BY <1>1, <2>1 DEF TypeOK
  <2>3. Len(cache[seq[h]]) < scene.ctx /\ nextPos[seq[h]] \in Nat
    <3>1. pc[h] \in {"wait", "lead"} /\ Len(cache[seq[h]]) \in Nat
      BY <1>2, <2>2
    <3>2. /\ Len(cache[seq[h]]) <= nextPos[seq[h]] /\ nextPos[seq[h]] + left[h] <= scene.ctx
          /\ left[h] > 0 /\ nextPos[seq[h]] \in Nat
      BY <3>1, <2>1, ZenonT(30) DEF GenInv, Cached, Position
    <3> QED BY <3>1, <3>2, <2>2, <1>1
  <2> QED BY ZenonT(30), <2>1, <2>2, <2>3, <1>6, <1>7
<1>10. ASSUME NEW h \in pending, ok
       PROVE  /\ cache'[seq[h]] \in Seq(Gens \X {0, 1})
              /\ Len(cache'[seq[h]]) = Len(cache[seq[h]]) + 1
              /\ \A i \in DOMAIN cache'[seq[h]] : cache'[seq[h]][i] = <<h, run[h]>>
              /\ RoundResult(seq[h], ok) \in Tokens
              /\ RoundResult(seq[h], ok).of = {<<h, run[h]>>}
              /\ RoundResult(seq[h], ok).n = Len(cache'[seq[h]])
  <2> DEFINE new == cache'[seq[h]]
  <2>1. h \in Gens /\ run[h] \in {0, 1} /\ <<h, run[h]>> \in Gens \X {0, 1}
    BY <1>1, <1>3 DEF TypeOK
  <2>2. \A i \in DOMAIN cache[seq[h]] : cache[seq[h]][i] = <<h, run[h]>>
    BY ZenonT(30), <1>9 DEF GenInv, Cached
  <2>3. /\ new \in Seq(Gens \X {0, 1}) /\ Len(new) = Len(cache[seq[h]]) + 1 /\ Len(new) > 0
        /\ \A i \in DOMAIN new : new[i] = <<h, run[h]>>
    <3>1. new = Append(cache[seq[h]], <<h, run[h]>>) /\ cache[seq[h]] \in Seq(Gens \X {0, 1})
      BY <1>9, <1>10
    <3> HIDE DEF new
    <3> QED BY <3>1, <2>1, <2>2, AppendIsOwn
  <2>4. RoundResult(seq[h], ok) = [of |-> {new[i] : i \in DOMAIN new}, n |-> Len(new)]
    BY <1>10 DEF RoundResult, Sample
  <2> HIDE DEF new
  <2>5. /\ RoundResult(seq[h], ok) \in Tokens
        /\ RoundResult(seq[h], ok).of = {<<h, run[h]>>} /\ RoundResult(seq[h], ok).n = Len(new)
    <3>1. PICK tokens \in Seq(Gens \X {0, 1}) : tokens = new
      BY <2>3
    <3>2. Len(tokens) > 0 /\ \A i \in DOMAIN tokens : tokens[i] = <<h, run[h]>>
      BY <2>3, <3>1
    <3>3. PICK r \in {0, 1} : r = run[h]
      BY <2>1
    <3>4. \A i \in DOMAIN tokens : tokens[i] = <<h, r>>
      BY <3>2, <3>3
    <3>5. /\ [of |-> {tokens[i] : i \in DOMAIN tokens}, n |-> Len(tokens)] \in Tokens
          /\ {tokens[i] : i \in DOMAIN tokens} = {<<h, r>>}
      <4>1. 1 \in DOMAIN tokens /\ Len(tokens) \in Nat
        BY <3>2
      <4>2. {tokens[i] : i \in DOMAIN tokens} = {<<h, r>>}
        BY ZenonT(30), <3>4, <4>1
      <4> QED BY <2>1, <3>3, <4>1, <4>2 DEF Tokens
    <3> QED BY <3>1, <3>3, <3>5, <2>4
  <2> QED BY <2>3, <2>5 DEF new
<1>11. ASSUME NEW h \in pending
       PROVE  RoundResult(seq[h], ok) \in Tokens \cup {Failed} /\ RoundResult(seq[h], ok) # None
  BY <1>10, ConstantsOK DEF RoundResult
<1>12. TypeOK'
  <2>1. cache' \in [Seqs -> Seq(Gens \X {0, 1})]
    <3>1. ASSUME NEW s \in Seqs PROVE cache'[s] \in Seq(Gens \X {0, 1})
      <4>1. CASE s \in batch
        BY <4>1, <1>9, <1>10 DEF batch
      <4>2. CASE s \notin batch
        BY <4>2, <1>1, <1>6 DEF TypeOK
      <4> QED BY <4>1, <4>2
    <3> QED BY <3>1, <1>6
  <2>2. nextPos' \in [Seqs -> Nat \cup {None}]
    <3>1. ASSUME NEW s \in batch PROVE nextPos[s] \in Nat
      BY <1>9 DEF batch
    <3> QED BY <3>1, <1>1, <1>7 DEF TypeOK
  <2>3. results' \in [Seqs -> Tokens \cup {None, Failed}]
    <3>1. ASSUME NEW s \in Receivers(g, batch) PROVE RoundResult(s, ok) \in Tokens \cup {Failed}
      BY <1>11 DEF batch, Receivers
    <3> QED BY <3>1, <1>1, <1>6 DEF TypeOK
  <2>4. token' \in [Gens -> Tokens \cup {None, Failed}] /\ left' \in [Gens -> Nat]
    <3>1. left[g] \in Nat \ {0}
      <4>1. left[g] \in Nat /\ left[g] > 0
        BY ZenonT(30), <1>1 DEF CacheInv, GenInv, TypeOK
      <4> QED BY <4>1
    <3> QED BY <3>1, <1>1, <1>2, <1>6, <1>11 DEF TakeResult, TypeOK
  <2> QED BY <2>1, <2>2, <2>3, <2>4, <1>1, <1>7, <1>8, Zenon DEF TypeOK, Seqs
<1>13. FreeInv'
  <2>1. \A h \in Gens : pc'[h] = "idle" <=> pc[h] = "idle"
    BY <1>1, <1>8
  <2> QED BY <2>1, <1>1, <1>7, FreeKept
<1>14. RoundInv'
  <2>1. \A h \in Gens : pc'[h] \notin {"wait", "lead"}
    BY <1>2, <1>8
  <2> QED BY <2>1, <1>7 DEF RoundInv
<1>15. ResultInv'
  <2>1. ASSUME NEW s \in Seqs, results'[s] # None
        PROVE  \E h \in Gens : seq'[h] = s /\ pc'[h] = "woken"
    <3>1. CASE s \in Receivers(g, batch)
      <4>1. PICK h \in pending : seq[h] = s /\ h # g
        BY <3>1 DEF Receivers, batch
      <4> QED BY <4>1, <1>2, <1>7, <1>8
    <3>2. CASE s \notin Receivers(g, batch)
      <4>1. PICK h \in Gens : seq[h] = s /\ pc[h] = "woken"
        BY ZenonT(30), <2>1, <3>2, <1>1, <1>6 DEF ResultInv
      <4> QED BY ZenonT(30), <4>1, <1>1, <1>7, <1>8
    <3> QED BY <3>1, <3>2
  <2>2. ASSUME NEW h \in Gens, pc'[h] = "woken" PROVE results'[seq'[h]] # None
    <3>1. h # g
      BY <2>2, <1>8
    <3>2. CASE pc[h] = "wait"
      <4>1. h \in pending /\ seq[h] \in Receivers(g, batch) /\ seq[h] \in Seqs
        BY <3>1, <3>2, <1>1, <1>2, <1>3 DEF Receivers
      <4> QED BY ZenonT(30), <4>1, <1>6, <1>7, <1>11
    <3>3. CASE pc[h] # "wait"
      <4>1. pc[h] = "woken" /\ seq[h] \in Seqs /\ seq[h] # None /\ h \notin pending
        BY <2>2, <3>1, <3>3, <1>1, <1>2, <1>8, HasSequence
      <4>2. results'[seq[h]] = results[seq[h]]
        BY ZenonT(30), <4>1, <1>4, <1>6 DEF Receivers
      <4> QED BY <4>1, <4>2, <1>1, <1>7 DEF ResultInv
    <3> QED BY <3>2, <3>3
  <2> QED BY <2>1, <2>2 DEF ResultInv, Seqs
<1>16. ASSUME NEW h \in Gens, seq'[h] # None PROVE GenInv(h)'
  <2>1. seq[h] \in Seqs /\ seq[h] # None /\ GenInv(h) /\ left[h] \in Nat
    BY <1>1, <1>7, <1>16 DEF CacheInv, TypeOK
  <2>2. CASE h \notin pending
    <3>1. seq[h] \notin batch /\ h # g
      BY <2>1, <2>2, <1>2, <1>4
    <3>2. Cached(h)' = Cached(h) /\ Position(h)' = Position(h) /\ Result(h)' = Result(h)
      BY ZenonT(30), <2>1, <3>1, <1>6, <1>7 DEF Cached, Position, Result, Receivers
    <3>3. pc'[h] = pc[h] /\ token'[h] = token[h] /\ left'[h] = left[h]
      BY ZenonT(30), <2>2, <3>1, <1>1, <1>2, <1>6, <1>8 DEF TakeResult, TypeOK
    <3> QED BY <2>1, <3>2, <3>3, <1>7, GenKept
  <2>3. CASE h \in pending /\ h # g
    <3>1. pc[h] = "wait" /\ pc'[h] = "woken" /\ left'[h] = left[h]
      BY ZenonT(30), <2>3, <1>1, <1>2, <1>6, <1>8 DEF TakeResult, TypeOK
    <3>2. Result(h)' = RoundResult(seq[h], ok)
      BY ZenonT(30), <2>1, <2>3, <1>1, <1>3, <1>6, <1>7 DEF Result, Receivers
    <3>3. Position(h) \in Nat /\ Position(h)' = Position(h) + 1 /\ Cached(h) \in Seq(Gens \X {0, 1})
      BY ZenonT(30), <2>3, <1>7, <1>9 DEF Position, Cached
    <3>4. CASE ok
      <4>1. /\ Len(Cached(h)') = Len(Cached(h)) + 1 /\ Len(Cached(h)) \in Nat
            /\ \A i \in DOMAIN Cached(h)' : Cached(h)'[i] = <<h, run'[h]>>
            /\ Result(h)'.of = {<<h, run'[h]>>} /\ Result(h)'.n = Len(Cached(h)')
        <5>1. Cached(h) = cache[seq[h]] /\ Cached(h)' = cache'[seq[h]] /\ run'[h] = run[h]
          BY <1>7 DEF Cached
        <5>2. Len(Cached(h)) \in Nat
          BY <3>3
        <5> QED BY <2>3, <3>2, <3>4, <5>1, <5>2, <1>10, Zenon
      <4>2. /\ Len(Cached(h)') <= Position(h)' /\ Position(h)' + left'[h] <= scene'.ctx + 1
            /\ (h \notin cleared' => Len(Cached(h)') = Position(h)') /\ left'[h] > 0
        <5>1. /\ Len(Cached(h)) <= Position(h) /\ Position(h) + left[h] <= scene.ctx
              /\ (h \notin cleared => Len(Cached(h)) = Position(h)) /\ left[h] > 0
          BY ZenonT(30), <2>1, <3>1 DEF GenInv
        <5> QED BY <2>1, <3>1, <3>3, <4>1, <5>1, <1>1, <1>7
      <4>3. Own(h, Result(h))'
        BY <4>1, <4>2 DEF Own
      <4>4. Position(h)' \in Nat
        BY <3>3
      <4> QED BY ZenonT(30), <3>1, <4>1, <4>2, <4>3, <4>4 DEF GenInv
    <3>5. CASE ~ok
      <4>1. Cached(h)' = Cached(h) /\ Result(h)' = Failed /\ Len(Cached(h)) \in Nat
        <5>1. Cached(h) = cache[seq[h]] /\ Cached(h)' = cache'[seq[h]]
          BY <1>7 DEF Cached
        <5>2. cache'[seq[h]] = cache[seq[h]]
          BY <2>3, <3>5, <1>9
        <5>3. Result(h)' = Failed
          BY <3>2, <3>5 DEF RoundResult
        <5> QED BY <5>1, <5>2, <5>3, <3>3
      <4>2. /\ Len(Cached(h)) <= Position(h) /\ Position(h) + left[h] <= scene.ctx
            /\ left[h] > 0 /\ \A i \in DOMAIN Cached(h) : Cached(h)[i] = <<h, run[h]>>
        BY <2>1, <3>1, ZenonT(30) DEF GenInv
      <4>3. /\ Position(h)' \in Nat /\ Len(Cached(h)') <= Position(h)'
            /\ Position(h)' + left'[h] <= scene'.ctx + 1 /\ left'[h] > 0
        BY <2>1, <3>1, <3>3, <4>1, <4>2, <1>1
      <4>4. \A i \in DOMAIN Cached(h)' : Cached(h)'[i] = <<h, run'[h]>>
        BY <4>1, <4>2, <1>7, ZenonT(30)
      <4> QED BY <3>1, <4>1, <4>3, <4>4, ZenonT(30) DEF GenInv
    <3> QED BY <3>4, <3>5
  <2>4. CASE h = g
    <3>1. pc[h] = "lead" /\ h \in pending /\ left'[h] = left[h] - 1
          /\ token'[h] = RoundResult(seq[h], ok)
      BY <2>4, <1>1, <1>2, <1>6 DEF TakeResult, TypeOK
    <3>2. Position(h) \in Nat /\ Position(h)' = Position(h) + 1 /\ Cached(h) \in Seq(Gens \X {0, 1})
      BY ZenonT(30), <3>1, <1>7, <1>9 DEF Position, Cached
    <3>3. CASE ok
      <4>1. /\ Len(Cached(h)') = Len(Cached(h)) + 1 /\ Len(Cached(h)) \in Nat
            /\ \A i \in DOMAIN Cached(h)' : Cached(h)'[i] = <<h, run'[h]>>
            /\ token'[h] \in Tokens
            /\ token'[h].of = {<<h, run'[h]>>} /\ token'[h].n = Len(Cached(h)')
        <5>1. Cached(h) = cache[seq[h]] /\ Cached(h)' = cache'[seq[h]] /\ run'[h] = run[h]
          BY <1>7 DEF Cached
        <5>2. Len(Cached(h)) \in Nat
          BY <3>2
        <5> QED BY <3>1, <3>3, <5>1, <5>2, <1>10, Zenon
      <4>2. pc'[h] = "loop"
        BY <2>4, <3>3, <1>8
      <4>3. /\ Len(Cached(h)) <= Position(h) /\ Position(h) + left[h] <= scene.ctx
            /\ h \notin cleared => Len(Cached(h)) = Position(h)
        BY <2>1, <3>1, ZenonT(30) DEF GenInv
      <4>4. /\ Position(h)' \in Nat /\ Len(Cached(h)') <= Position(h)'
            /\ Position(h)' + left'[h] <= scene'.ctx
            /\ h \notin cleared' => Len(Cached(h)') = Position(h)'
        <5>1. left[h] \in Nat /\ scene.ctx \in Nat /\ scene' = scene /\ cleared' = cleared
          BY ZenonT(30), <2>1, <1>1, <1>7
        <5>2. left'[h] = left[h] - 1
          BY <3>1
        <5>3. /\ Position(h) \in Nat /\ Position(h)' = Position(h) + 1
              /\ Len(Cached(h)) \in Nat /\ Len(Cached(h)') = Len(Cached(h)) + 1
          BY ZenonT(30), <3>2, <4>1
        <5>4. Position(h)' \in Nat /\ Len(Cached(h)') <= Position(h)'
          BY <4>3, <5>3
        <5>5. Position(h)' + left'[h] <= scene.ctx
          BY <4>3, <5>1, <5>2, <5>3
        <5>6. h \notin cleared => Len(Cached(h)') = Position(h)'
          BY <4>3, <5>3
        <5> QED BY ZenonT(30), <5>1, <5>4, <5>5, <5>6
      <4>5. Own(h, token[h])'
        BY <4>1, <4>4, ZenonT(30) DEF Own
      <4> QED BY <4>1, <4>2, <4>4, <4>5, ZenonT(30) DEF GenInv
    <3>4. CASE ~ok
      <4>1. Cached(h)' = Cached(h) /\ pc'[h] = "release"
        BY ZenonT(30), <2>4, <3>1, <3>4, <1>7, <1>8, <1>9 DEF Cached
      <4>2. Position(h)' \in Nat /\ \A i \in DOMAIN Cached(h)' : Cached(h)'[i] = <<h, run'[h]>>
        <5>1. Position(h)' \in Nat
          BY <3>2
        <5>2. (\A i \in DOMAIN Cached(h) : Cached(h)[i] = <<h, run[h]>>) /\ run'[h] = run[h]
          BY ZenonT(30), <2>1, <1>7 DEF GenInv
        <5> QED BY ZenonT(30), <5>1, <5>2, <4>1
      <4> QED BY ZenonT(30), <4>1, <4>2 DEF GenInv
    <3> QED BY <3>3, <3>4
  <2> QED BY <2>2, <2>3, <2>4
<1>17. ASSUME NEW s \in Seqs PROVE Len(cache'[s]) <= scene.ctx
  <2>1. CASE ok /\ s \in batch
    <3>1. PICK h \in pending : seq[h] = s
      BY <2>1 DEF batch
    <3>2. Len(cache[s]) \in Nat /\ Len(cache[s]) < scene.ctx /\ Len(cache'[s]) = Len(cache[s]) + 1
      <4>1. cache[s] \in Seq(Gens \X {0, 1}) /\ Len(cache[s]) < scene.ctx
        BY ZenonT(30), <3>1, <1>9
      <4>2. Len(cache'[s]) = Len(cache[s]) + 1
        BY ZenonT(30), <2>1, <3>1, <1>10
      <4> QED BY <4>1, <4>2
    <3> QED BY <3>2, <1>1
  <2>2. CASE ~(ok /\ s \in batch)
    BY ZenonT(30), <2>2, <1>1, <1>6 DEF CacheInv
  <2> QED BY <2>1, <2>2
<1>18. CacheInv'
  BY <1>16, <1>17 DEF CacheInv, Seqs
<1> QED BY <1>12, <1>13, <1>14, <1>15, <1>18 DEF RoundsInv

-----------------------------------------------------------------------------
(* The theorems *)

\* A new Batcher: every sequence is free.
LEMMA InitRounds == Init => RoundsInv
<1> SUFFICES ASSUME Init PROVE RoundsInv
  OBVIOUS
<1>1. /\ scene.seqs \in Nat \ {0} /\ scene.ctx \in Nat \ {0, 1} /\ None \notin Seqs
      /\ Seqs = 0 .. scene.seqs - 1
  BY ConstantsOK DEF Init, Scene, Seqs
<1>2. /\ free \in Seq(Seqs) /\ Len(free) = scene.seqs
      /\ \A i \in 1 .. Len(free) : free[i] = scene.seqs - i
  <2>1. free = [i \in 1 .. scene.seqs |-> scene.seqs - i]
    BY DEF Init
  <2>2. \A i \in 1 .. scene.seqs : scene.seqs - i \in Seqs
    BY <1>1
  <2> HIDE DEF Seqs
  <2> QED BY <1>1, <2>1, <2>2
<1>3. TypeOK
  <2>1. cache \in [Seqs -> Seq(Gens \X {0, 1})]
    <3>1. << >> \in Seq(Gens \X {0, 1})
      OBVIOUS
    <3> QED BY <3>1 DEF Init
  <2> QED BY ZenonT(30), <1>2, <2>1 DEF Init, TypeOK, Running
<1>4. FreeInv
  <2>1. \A s \in Seqs : \E i \in 1 .. Len(free) : free[i] = s
    <3>1. ASSUME NEW s \in Seqs PROVE \E i \in 1 .. Len(free) : free[i] = s
      <4>1. scene.seqs - s \in 1 .. Len(free) /\ free[scene.seqs - s] = s
        BY <1>1, <1>2
      <4> QED BY <4>1
    <3> QED BY <3>1
  <2>2. \A i, j \in 1 .. Len(free) : free[i] = free[j] => i = j
    BY <1>1, <1>2
  <2> QED BY ZenonT(30), <2>1, <2>2, <1>1 DEF Init, FreeInv
<1>5. ResultInv /\ RoundInv /\ CacheInv
  BY <1>1 DEF Init, ResultInv, RoundInv, CacheInv
<1> QED BY <1>3, <1>4, <1>5 DEF RoundsInv

\* Every critical section of the Batcher keeps the invariant.
LEMMA NextKeepsRounds == RoundsInv /\ [Next]_vars => RoundsInv'
<1> SUFFICES ASSUME RoundsInv, [Next]_vars PROVE RoundsInv'
  OBVIOUS
<1>1. CASE UNCHANGED vars
  <2>1. TypeOK' /\ FreeInv' /\ ResultInv' /\ RoundInv'
    <3>1. TypeOK'
      BY <1>1 DEF RoundsInv, TypeOK, vars, Seqs
    <3> QED BY <3>1, <1>1, FreeKept, ResultsKept, RoundKept DEF RoundsInv, vars
  <2>2. CacheInv'
    BY ZenonT(30), <1>1 DEF RoundsInv, CacheInv, GenInv, Own, Cached, Position, Result, Seqs, vars, Tokens
  <2> QED BY <2>1, <2>2 DEF RoundsInv
<1>2. CASE Next
  <2>1. scene' = scene
    BY <1>2 DEF Next
  <2>2. CASE clear
    BY <2>1, <2>2, ClearKeeps
  <2>3. ASSUME NEW g \in Gens, acquire_seq(g) \/ AcquireFails(g) \/ GenStep(g) PROVE RoundsInv'
    <3>1. CASE acquire_seq(g)
      BY <2>1, <3>1, AcquireKeeps
    <3>2. CASE AcquireFails(g)
      BY <3>2, <1>1 DEF AcquireFails
    <3>3. CASE GenStep(g)
      BY <3>3, <2>1, PromptFailsKeeps, PrefillKeeps, ScoreOptionsKeeps, LoopEndsKeeps,
         NextTokenKeeps, LeadRoundKeeps, FollowerTakesKeeps, ReleaseKeeps DEF GenStep
    <3> QED BY <2>3, <3>1, <3>2, <3>3
  <2> QED BY <1>2, <2>2, <2>3 DEF Next
<1> QED BY <1>1, <1>2

\* The sequences, positions, results and rounds of the Batcher agree.
THEOREM RoundsInvariance == Spec => []RoundsInv
BY InitRounds, NextKeepsRounds, PTL DEF Spec

\* next_token: whoever sleeps is in the round that a leader is about to decode,
\* and whoever woke up finds a result.
THEOREM FollowersGetTheirResults == Spec => []FollowersAreServed
<1>1. RoundsInv => FollowersAreServed
  BY DEF RoundsInv, ResultInv, RoundInv, FollowersAreServed
<1> QED BY <1>1, RoundsInvariance, PTL

\* Batcher and generate: every token a generation goes on with was sampled after
\* its own prompt and tokens and nothing else, and no sequence is shared,
\* overfull or given away with a result in it.
THEOREM GenerationsKeepApart == Spec => []StreamsAreOwn
<1>1. RoundsInv => StreamsAreOwn
  <2> SUFFICES ASSUME RoundsInv PROVE StreamsAreOwn
    OBVIOUS
  <2>1. SequencesAreExclusive
    BY DEF RoundsInv, FreeInv, ResultInv, CacheInv, SequencesAreExclusive
  <2>2. ASSUME NEW g \in Gens, pc[g] = "loop"
        PROVE  token[g].of = {<<g, run[g]>>} /\ (g \notin cleared => token[g].n = nextPos[seq[g]])
    BY ZenonT(30), <2>2, HasSequence DEF RoundsInv, CacheInv, GenInv, Own, Position
  <2> QED BY ZenonT(30), <2>1, <2>2 DEF StreamsAreOwn
<1> QED BY <1>1, RoundsInvariance, PTL
=============================================================================
