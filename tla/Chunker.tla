------------------------------ MODULE Chunker ------------------------------
(***************************************************************************)
(* chunk_text (src/src/core/rag/chunker.cpp).  A text is a sequence of      *)
(* bytes of five kinds: a letter, a byte that continues a UTF-8 sequence, a *)
(* full stop, a space and a newline.  Positions count from 0, as in the     *)
(* source, and a chunk is the range [from, to) of a text.                   *)
(***************************************************************************)
EXTENDS Integers, Sequences, FiniteSets

Bytes == {"a", "~", ".", "_", "/"}
At(t, i) == t[i + 1]
is_space(c) == c \in {"_", "/"}
is_utf8_continuation(c) == c = "~"

\* The texts of up to n bytes that are UTF-8 and have no character of three bytes.
Texts(n) ==
    {t \in UNION {[1 .. k -> Bytes] : k \in 0 .. n} :
        \A i \in DOMAIN t : t[i] = "~" => i > 1 /\ t[i - 1] = "a"}

skip_space(t, i) ==
    CHOOSE j \in i .. Len(t) :
        /\ \A k \in i .. j - 1 : is_space(At(t, k))
        /\ j < Len(t) => ~is_space(At(t, j))

\* A blank line ends before b: only spaces are between two newlines.
paragraph_break(t, start, b) ==
    /\ At(t, b - 1) = "/" /\ b >= start + 2
    /\ \E j \in start .. b - 2 : At(t, j) = "/" /\ \A k \in j + 1 .. b - 2 : At(t, k) = "_"
line_break(t, start, b) == At(t, b - 1) = "/"
sentence_break(t, start, b) == b >= start + 2 /\ is_space(At(t, b - 1)) /\ At(t, b - 2) = "."
word_break(t, start, b) == is_space(At(t, b - 1)) \/ is_space(At(t, b))

\* The last place of the back half of the window where the text breaks, by the
\* strongest kind of break there is; or a cut between two characters.
Largest(S) == CHOOSE m \in S : \A x \in S : x <= m
Cut(t, start, hi) ==
    LET whole == {b \in start + 1 .. hi : ~is_utf8_continuation(At(t, b))}
    IN  IF whole = {} THEN start + 1 ELSE Largest(whole)
find_break(t, start, hi) ==
    LET back == start + (hi - start) \div 2 + 1 .. hi
        by == <<{b \in back : paragraph_break(t, start, b)}, {b \in back : line_break(t, start, b)},
                {b \in back : sentence_break(t, start, b)}, {b \in back : word_break(t, start, b)}>>
        kinds == {k \in 1 .. 4 : by[k] # {}}
    IN  IF kinds = {} THEN Cut(t, start, hi)
        ELSE Largest(by[CHOOSE k \in kinds : \A l \in kinds : k <= l])

\* The range without the spaces around it, or nothing.
trimmed(t, from, to) ==
    LET ink == {i \in from .. to - 1 : ~is_space(At(t, i))}
    IN  IF ink = {} THEN << >>
        ELSE <<[from |-> CHOOSE i \in ink : \A j \in ink : i <= j, to |-> Largest(ink) + 1]>>

\* Where the next chunk starts: a step back, then on to the start of a word.
NextFrom(t, pos, end, overlap) ==
    LET asked == IF end > overlap THEN end - overlap ELSE 0
        back == IF asked <= pos THEN pos + 1 ELSE asked
    IN  CHOOSE b \in back .. end :
            /\ \A k \in back .. b - 1 : ~is_space(At(t, k - 1))
            /\ b < end => is_space(At(t, b - 1))
chunk_text(t, size, overlap) ==
    LET from[pos \in 0 .. Len(t)] ==
            IF pos = Len(t) THEN << >>
            ELSE IF Len(t) - pos <= size THEN trimmed(t, pos, Len(t))
            ELSE LET end == find_break(t, pos, pos + size)
                     next == IF overlap > 0 THEN NextFrom(t, pos, end, overlap) ELSE end
                 IN  trimmed(t, pos, end) \o from[skip_space(t, next)]
    IN  from[skip_space(t, 0)]

\* Chunks are no longer than asked, come in order, cut no character in two and
\* leave out nothing but spaces.
ChunksCover(t, size, overlap) ==
    LET c == chunk_text(t, size, overlap)
        ranges == {c[i] : i \in DOMAIN c}
    IN  /\ \A r \in ranges :
            /\ r.to - r.from \in 1 .. size
            /\ ~is_utf8_continuation(At(t, r.from))
            /\ r.to < Len(t) => ~is_utf8_continuation(At(t, r.to))
        /\ \A i \in 1 .. Len(c) - 1 : c[i].from < c[i + 1].from /\ c[i].to <= c[i + 1].to
        /\ \A i \in 0 .. Len(t) - 1 :
            is_space(At(t, i)) \/ \E r \in ranges : i \in r.from .. r.to - 1
=============================================================================
