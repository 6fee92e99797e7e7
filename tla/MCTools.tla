------------------------------ MODULE MCTools ------------------------------
(***************************************************************************)
(* The two tools that do their own input and output, side by side: the     *)
(* model hub (Hub) and the voice loop (VoiceLoop).  A behaviour is about   *)
(* one of them and the other does not move.                                *)
(*                                                                         *)
(* The repository has a whole file for each of two similar quants, one     *)
(* that is split in two, a projector and a text file, or parts of that.    *)
(***************************************************************************)
EXTENDS Hub

CONSTANTS Options, Chunk, Keep, Unread, Reply, MaxUnits, MaxErrors   \* of VoiceLoop

VARIABLES
    tool,     \* "hub" or "voice"
    o, mic, captured, speaker, device, replies, pc, chunk, eof, buf, bufStart, clock, origin,
    wasMuted, overlap, cancelled, turns, finished, flushed, gate, fed, found, stop, flags,
    errors, lapsed

V == INSTANCE VoiceLoop

-----------------------------------------------------------------------------
(* What the hub is asked *)

File(path, base, exact, loose) ==
    [NoFile EXCEPT !.path = path, !.base = base, !.gguf = TRUE, !.exact = exact, !.loose = loose]
Q4K == File("x-q4_k.gguf", "x-q4_k.gguf", {"Q4_K"}, {"Q4_K"})
Q4KM == File("x-q4_k_m.gguf", "x-q4_k_m.gguf", {"Q4_K_M"}, {"Q4_K", "Q4_K_M"})
Shard(i) == [File(IF i = 1 THEN "q8/1of2.gguf" ELSE "q8/2of2.gguf",
                  IF i = 1 THEN "1of2.gguf" ELSE "2of2.gguf", {"Q8"}, {"Q8"})
             EXCEPT !.set = "q8", !.index = i, !.total = 2]
Projector == [File("mmproj-q8.gguf", "mmproj-q8.gguf", {"Q8"}, {"Q8"}) EXCEPT !.mmproj = TRUE]
Readme == [NoFile EXCEPT !.path = "README.md", !.base = "README.md"]

MCListings == {<<Readme, Q4KM, Q4K>>, <<Projector, Shard(2), Shard(1)>>, <<Shard(1)>>}

Ask(selector, dotted) == [selector |-> selector, dotted |-> dotted, revision |-> 0,
                          name |-> "m", allow |-> FALSE]
Pinned == [Ask("Q8", FALSE) EXCEPT !.revision = 1]
Medium == [Ask("Q4_K_M", FALSE) EXCEPT !.allow = TRUE]
MCAsks == {Ask("Q4_K", FALSE), Ask("Q8", FALSE), Ask("", FALSE), Ask("2of2.gguf", TRUE), Pinned,
           Medium}
MCTurns == {<<Ask("Q8", FALSE), Pinned>>, <<Pinned, Ask("Q8", FALSE)>>,
            <<Medium, Ask("Q4_K", FALSE)>>}

MCLengths == {<<2, 2>>, <<2, 3>>}
MCAnnounced == {[size |-> TRUE, sha |-> TRUE], [size |-> TRUE, sha |-> FALSE],
                [size |-> FALSE, sha |-> TRUE], [size |-> FALSE, sha |-> FALSE]}
MCCatalogues == {NoCatalog, [NoCatalog EXCEPT !["m"] = [NoEntry EXCEPT !.repo = "another"]]}

-----------------------------------------------------------------------------
(* How the voice loop is started *)

Base == [barge |-> FALSE, turns |-> 0, frame |-> 1, speech |-> 2, silence |-> 1, longest |-> 4,
         pre |-> 1, post |-> 1, least |-> 2, overlap |-> 2,
         input |-> "device", output |-> "device", detector |-> "energy"]
\* The sound devices, with and without barge-in, the VAD engine, a limit on the
\* turns; and a file, whose frames do not fit the chunks.
MCOptions ==
    {Base, [Base EXCEPT !.barge = TRUE, !.output = "file"],
     [Base EXCEPT !.barge = TRUE, !.turns = 2, !.detector = "vad"]}
    \cup {[Base EXCEPT !.input = "file", !.output = "file", !.frame = f, !.speech = 3 - f,
                       !.silence = 3 - f, !.barge = (f = 2), !.detector = "vad"] : f \in 1 .. 2}

-----------------------------------------------------------------------------
voiceVars == <<o, mic, captured, speaker, device, replies, pc, chunk, eof, buf, bufStart, clock,
               origin, wasMuted, overlap, cancelled, turns, finished, flushed, gate, fed, found, stop,
               flags, errors, lapsed>>
toolVars == <<tool, vars, voiceVars>>

\* The tool that does not move starts in one way only; for the hub that is a
\* pull of a file that the repository does not have.  The branch starts at the
\* first revision; its moves lead to the other one and back.
MCInit ==
    /\ tool \in {"hub", "voice"} /\ Init /\ V!Init /\ head = 1
    /\ restricted => known = [size |-> TRUE, sha |-> TRUE]
    /\ tool = "hub" => o = Base
    /\ tool = "voice" =>
        /\ listing = <<Shard(1)>> /\ ask = Ask("2of2.gguf", TRUE) /\ ~restricted
        /\ length = <<2, 2>> /\ known = [size |-> TRUE, sha |-> TRUE] /\ catalog = NoCatalog

HubMoves(A) == tool = "hub" /\ A /\ UNCHANGED <<tool, voiceVars>>
VoiceMoves(A) == tool = "voice" /\ A /\ UNCHANGED <<tool, vars>>

MCNext == HubMoves(Next) \/ VoiceMoves(V!Next)

\* The fairness of Hub!FairSpec and of VoiceLoop!Spec.
MCSpec ==
    /\ MCInit /\ [][MCNext]_toolVars
    /\ WF_toolVars(HubMoves(Command))
    /\ WF_toolVars(VoiceMoves(V!Loop)) /\ WF_toolVars(VoiceMoves(V!Playback))

-----------------------------------------------------------------------------
(* The properties of VoiceLoop, as they are stated there *)

\* What is transcribed is the whole of a segment of the input, and in half-duplex
\* was captured after the last reply, and while none was produced unless a turn
\* failed (handle, energy_gate_feed, restart_listening).
UtterancesExact == V!UtterancesExact

\* Ctrl-C ends the loop (on_sigint, run_voice_loop), if the speaker could be started.
SigintEnds == V!SigintEnds
=============================================================================
