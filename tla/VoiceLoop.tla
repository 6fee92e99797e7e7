----------------------------- MODULE VoiceLoop -----------------------------
(***************************************************************************)
(* agent voice: run_voice_loop and the energy gate of voice_core.cpp, the  *)
(* hooks and the signal handler of voice.cpp, and the threads of the sound *)
(* devices in audio.cpp, all under src/tools/cli/src.                      *)
(*                                                                         *)
(* Sound is counted in units.  A captured unit has speech in it or not, was *)
(* captured while a reply was produced, while one was playing or in        *)
(* between, and belongs to the reply after which it was captured.  A frame *)
(* of the energy gate is voiced when a unit of it is; its noise floor is   *)
(* left out.                                                               *)
(***************************************************************************)
EXTENDS Integers, Sequences

CONSTANTS
    Options,  \* [barge, turns, frame, speech, silence, longest, pre, post, least,
              \*  overlap, input, output, detector]: the options of loop and gate
    Chunk,    \* chunk_samples
    Keep,     \* units of buf that are kept
    Unread,   \* max_samples of the capture buffer
    Reply,    \* units of a spoken reply
    MaxUnits, \* bound on the units captured
    MaxErrors \* bound on the hooks that fail

VARIABLES
    o,        \* the options of this run
    mic,      \* captured units that are not read yet
    captured, \* how many there were
    speaker,  \* units of the replies that are still to play
    device,   \* DeviceOutput: "none" before it is opened, "on", or "silent" for good
    replies,  \* how many replies were played
    pc,       \* where run_voice_loop is
    chunk, eof, \* what the last read returned
    buf, bufStart, clock, origin, \* LoopState
    wasMuted, overlap, cancelled, turns,
    finished, \* segments that are to be handled, relative to the last reset
    flushed,  \* they come from the flush at the end of the input
    gate,     \* EnergyGate
    fed, found, \* history: units fed and segments found since the last reset
    stop,     \* g_stop
    flags,    \* the sessions whose cancel flag is set
    errors,
    lapsed    \* history: a turn has failed since listening was restarted

inputVars == <<mic, captured>>
loopVars == <<chunk, eof, buf, bufStart, clock, origin, wasMuted, overlap, finished, flushed>>
gateVars == <<gate, fed, found>>
signalVars == <<stop, flags>>
hookVars == <<errors, lapsed, device>>
vars == <<o, mic, captured, speaker, device, replies, pc, chunk, eof, buf, bufStart, clock, origin,
          wasMuted, overlap, cancelled, turns, finished, flushed, gate, fed, found, stop,
          flags, errors, lapsed>>

Sessions == {"asr", "llm", "tts", "vad"}
Smaller(a, b) == IF a < b THEN a ELSE b
Larger(a, b) == IF a > b THEN a ELSE b

-----------------------------------------------------------------------------
(* The energy gate *)

\* energy_gate_reset
Fresh == [partial |-> << >>, pos |-> 0, speaking |-> FALSE, start |-> 0, last |-> 0,
          run |-> 0, runStart |-> 0, quiet |-> 0]

\* A frame before speech: enough voiced ones in a row are the start of it.
Waiting(g, voiced, end) ==
    LET run == g.run + 1
        from == IF g.run = 0 THEN g.pos ELSE g.runStart
    IN  IF ~voiced THEN [g EXCEPT !.run = 0, !.pos = end]
        ELSE IF run < o.speech THEN [g EXCEPT !.run = run, !.runStart = from, !.pos = end]
        ELSE [g EXCEPT !.run = run, !.runStart = from, !.pos = end, !.speaking = TRUE,
                       !.start = from, !.last = end, !.quiet = 0]

\* A frame of speech: enough silence ends the segment, and so does its length.
Speaking(g, voiced, end) ==
    LET heard == IF voiced THEN [g EXCEPT !.last = end, !.quiet = 0, !.pos = end]
                 ELSE [g EXCEPT !.quiet = @ + 1, !.pos = end]
    IN  IF heard.quiet >= o.silence
          THEN [gate |-> [heard EXCEPT !.speaking = FALSE, !.run = 0],
                segments |-> <<[start |-> g.start, end |-> g.last]>>]
        ELSE IF end - g.start >= o.longest
          THEN [gate |-> [heard EXCEPT !.start = end, !.last = end],
                segments |-> <<[start |-> g.start, end |-> end]>>]
        ELSE [gate |-> heard, segments |-> << >>]

\* gate_frame, on the gate and the segments so far.
gate_frame(s, frame) ==
    LET g == s.gate
        voiced == \E i \in DOMAIN frame : frame[i]
        end == g.pos + Len(frame)
    IN  IF ~g.speaking THEN [s EXCEPT !.gate = Waiting(g, voiced, end)]
        ELSE LET next == Speaking(g, voiced, end)
             IN  [gate |-> next.gate, segments |-> s.segments \o next.segments]

\* gate_frame on each of the frames.
Frames(g, frames) ==
    LET after[k \in 0 .. Len(frames)] ==
            IF k = 0 THEN [gate |-> g, segments |-> << >>]
            ELSE CHOOSE next \in {gate_frame(s, frames[k]) : s \in {after[k - 1]}} : TRUE
    IN  after[Len(frames)]

\* energy_gate_feed completes the frame that was begun, takes whole frames from
\* the samples and keeps the rest of them.
energy_gate_feed(g, samples) ==
    LET take == IF g.partial = << >> THEN 0
                ELSE Smaller(o.frame - Len(g.partial), Len(samples))
        begun == g.partial \o SubSeq(samples, 1, take)
        whole == (Len(samples) - take) \div o.frame
        frames == (IF Len(begun) = o.frame THEN <<begun>> ELSE << >>)
                  \o [k \in 1 .. whole |-> SubSeq(samples, take + (k - 1) * o.frame + 1,
                                                          take + k * o.frame)]
        rest == (IF Len(begun) = o.frame THEN << >> ELSE begun)
                \o SubSeq(samples, take + whole * o.frame + 1, Len(samples))
    IN  [Frames(g, frames) EXCEPT !.gate.partial = rest]

\* energy_gate_flush
Flushed(g) == IF g.speaking THEN <<[start |-> g.start, end |-> g.last]>> ELSE << >>
AfterFlush(g) == [g EXCEPT !.speaking = FALSE, !.run = 0, !.partial = << >>]

Voices(units) == [i \in DOMAIN units |-> units[i].voice]
ResetGate == gate' = Fresh /\ fed' = << >> /\ found' = << >>

-----------------------------------------------------------------------------
(* The devices *)

\* A file is read from its beginning; the microphone starts with nothing.
Recording == [voice : BOOLEAN, during : {"listening"}, reply : {0}]
Init ==
    /\ o \in Options
    /\ IF o.input = "file" THEN mic \in [1 .. MaxUnits -> Recording] /\ captured = MaxUnits
       ELSE mic = << >> /\ captured = 0
    /\ speaker = 0 /\ device = "none" /\ replies = 0
    /\ pc = "read" /\ chunk = << >> /\ eof = FALSE
    /\ buf = << >> /\ bufStart = 0 /\ clock = 0 /\ origin = 0
    /\ wasMuted = FALSE /\ overlap = 0 /\ cancelled = FALSE /\ turns = 0
    /\ finished = << >> /\ flushed = FALSE
    /\ gate = Fresh /\ fed = << >> /\ found = << >>
    /\ stop = FALSE /\ flags = {} /\ errors = 0 /\ lapsed = FALSE

\* What the loop is doing while a unit is captured.
Doing == IF pc \in {"respond", "turn", "speak"} THEN "producing"
         ELSE IF speaker > 0 THEN "playing" ELSE "listening"

\* capture_callback: the oldest unit goes when nobody reads.
Capture(voice) ==
    /\ o.input = "device" /\ captured < MaxUnits /\ pc # "ended"
    /\ captured' = captured + 1
    /\ LET all == Append(mic, [voice |-> voice, during |-> Doing, reply |-> replies])
       IN  mic' = IF Len(all) > Unread THEN Tail(all) ELSE all
    /\ UNCHANGED <<o, speaker, replies, pc, loopVars, cancelled, turns, gateVars, signalVars,
                   hookVars>>

\* playback_callback
Playback ==
    /\ o.output = "device" /\ device = "on" /\ speaker > 0
    /\ speaker' = speaker - 1
    /\ UNCHANGED <<o, inputVars, replies, pc, loopVars, cancelled, turns, gateVars, signalVars,
                   hookVars>>

\* play: the sound device, once it is started, plays it in time, a file that
\* stands for it as long as the input is read; without barge-in a file has it at once.
Playable == IF o.output = "file" /\ ~o.barge THEN 0 ELSE Reply
Queue == IF o.output = "file" THEN Playable ELSE speaker + Playable

\* on_sigint
Sigint ==
    /\ ~stop /\ pc # "ended"
    /\ stop' = TRUE /\ flags' = Sessions
    /\ UNCHANGED <<o, inputVars, speaker, replies, pc, loopVars, cancelled, turns, gateVars,
                   hookVars>>

-----------------------------------------------------------------------------
(* The loop *)

Done(gone, count) == gone \/ (o.turns > 0 /\ count >= o.turns)

\* Leaving the loop: stop cuts the reply off, drain waits for the rest of it.
Leave ==
    /\ pc = "read" /\ (Done(cancelled, turns) \/ stop)
    /\ pc' = "drain"
    /\ speaker' = IF cancelled \/ o.output = "file" THEN 0 ELSE speaker
    /\ UNCHANGED <<o, inputVars, replies, loopVars, cancelled, turns, gateVars, signalVars,
                   hookVars>>

\* device_drain looks again and again whether something is left to play.
Drains == pc = "drain" /\ speaker > 0 /\ UNCHANGED vars

Drained ==
    /\ pc = "drain" /\ speaker = 0
    /\ pc' = "ended"
    /\ UNCHANGED <<o, inputVars, speaker, replies, loopVars, cancelled, turns, gateVars, signalVars,
                   hookVars>>

\* read, which gives up after a while, and tick.
Reads ==
    /\ LET n == Smaller(Chunk, Len(mic))
       IN  /\ chunk' = SubSeq(mic, 1, n)
           /\ mic' = SubSeq(mic, n + 1, Len(mic))
           /\ eof' = (o.input = "file" /\ n = Len(mic))
           /\ speaker' = IF o.output = "file" THEN Larger(0, speaker - n) ELSE speaker
    /\ pc' = "got"
    /\ UNCHANGED <<o, captured, replies, buf, bufStart, clock, origin, wasMuted, overlap,
                   finished, flushed, cancelled, turns, gateVars, signalVars,
                   hookVars>>
\* Mutant of Read: the loop does not look at the stop flag.
ReadOn == pc = "read" /\ ~Done(cancelled, turns) /\ Reads
Read == pc = "read" /\ ~Done(cancelled, turns) /\ ~stop /\ Reads

\* Half-duplex: what the microphone hears while the reply plays is dropped.
Muted ==
    /\ pc = "got" /\ ~o.barge /\ speaker > 0
    /\ clock' = clock + Len(chunk) /\ buf' = << >> /\ bufStart' = clock'
    /\ wasMuted' = TRUE
    /\ chunk' = << >>
    /\ pc' = IF eof THEN "drain" ELSE "read"
    /\ UNCHANGED <<o, inputVars, speaker, replies, eof, origin, overlap, finished, flushed,
                   cancelled, turns, gateVars, signalVars,
                   hookVars>>

\* A reset detector counts from the samples read so far.
Origin == IF wasMuted THEN clock ELSE origin

\* The chunk goes to the buffer and to the detector.  Speech over a reply, long
\* enough of it, stops the reply.
Feed ==
    /\ pc = "got" /\ (o.barge \/ speaker = 0)
    /\ wasMuted' = FALSE /\ origin' = Origin
    /\ LET before == IF wasMuted THEN << >> ELSE fed
           next == energy_gate_feed(IF wasMuted THEN Fresh ELSE gate, Voices(chunk))
           over == overlap + Len(chunk)
           talks == o.barge /\ next.gate.speaking /\ speaker > 0
       IN  /\ gate' = next.gate
           /\ fed' = before \o chunk
           /\ found' = (IF wasMuted THEN << >> ELSE found) \o next.segments
           /\ finished' = next.segments
           /\ IF chunk # << >> /\ talks /\ over >= o.overlap
                THEN speaker' = 0 /\ overlap' = 0
                ELSE /\ UNCHANGED speaker
                     /\ overlap' = IF chunk = << >> THEN overlap
                                   ELSE IF talks THEN over
                                   ELSE IF next.gate.speaking THEN overlap ELSE 0
    /\ buf' = buf \o chunk /\ clock' = clock + Len(chunk)
    /\ chunk' = << >> /\ flushed' = FALSE
    /\ pc' = "handle"
    /\ UNCHANGED <<o, inputVars, replies, eof, bufStart, cancelled, turns, signalVars, hookVars>>

\* vad_feed and vad_flush fail when their session is cancelled: so does the loop.
DetectorFails ==
    /\ o.detector = "vad" /\ "vad" \in flags
    /\ \/ pc = "got" /\ (o.barge \/ speaker = 0) /\ chunk # << >>
       \/ pc = "handle" /\ finished = << >> /\ eof /\ ~flushed
    /\ pc' = "ended"
    /\ UNCHANGED <<o, inputVars, speaker, replies, loopVars, cancelled, turns, gateVars, signalVars,
                   hookVars>>

\* Mutant of Excess: a chunk is dropped once its segments were handled.
ExcessAll == Len(buf)
\* The buffer keeps what a segment can still need.
Excess == Larger(0, Smaller(Len(buf), clock - Keep - bufStart))

\* After the segments of a chunk: at the end of the input what the detector
\* still holds is handled too, and the loop ends.
NextChunk ==
    /\ pc = "handle" /\ finished = << >>
    /\ buf' = SubSeq(buf, Excess + 1, Len(buf)) /\ bufStart' = bufStart + Excess
    /\ IF eof /\ ~flushed
         THEN /\ gate' = AfterFlush(gate) /\ found' = found \o Flushed(gate)
              /\ finished' = IF Done(cancelled, turns) THEN << >> ELSE Flushed(gate)
              /\ flushed' = TRUE
              /\ UNCHANGED <<pc, fed, speaker>>
         ELSE /\ pc' = IF eof THEN "drain" ELSE "read"
              /\ speaker' = IF eof /\ (cancelled \/ o.output = "file") THEN 0 ELSE speaker
              /\ UNCHANGED <<gateVars, finished, flushed>>
    /\ UNCHANGED <<o, inputVars, replies, chunk, eof, clock, origin, wasMuted, overlap,
                   cancelled, turns, signalVars, hookVars>>

-----------------------------------------------------------------------------
(* handle *)

BufEnd == bufStart + Len(buf)
From == Larger(bufStart, origin + Head(finished).start - o.pre)
To == Smaller(BufEnd, origin + Head(finished).end + o.post)
TooShort == To - From < o.least
Utterance == SubSeq(buf, From - bufStart + 1, To - bufStart)

\* What is left to handle after a segment.
Rest(gone, count) == finished' = IF Done(gone, count) THEN << >> ELSE Tail(finished)

\* hook_failed: a cancelled hook ends the loop, another one is counted.
HookFailed(session) ==
    /\ \/ session \in flags /\ cancelled' = TRUE /\ UNCHANGED errors
       \/ errors < MaxErrors /\ errors' = errors + 1 /\ UNCHANGED cancelled
    /\ pc' = "handle" /\ Rest(cancelled', turns')
    /\ lapsed' = (lapsed \/ (session # "asr" /\ ~o.barge))
    /\ UNCHANGED <<o, inputVars, speaker, replies, chunk, eof, buf, bufStart, clock, origin,
                   wasMuted, overlap, flushed, gateVars, signalVars>>

\* restart_listening, which a file has nothing to discard for.
Restart ==
    /\ mic' = IF o.input = "file" THEN mic ELSE << >>
    /\ ResetGate
    /\ origin' = clock /\ buf' = << >> /\ bufStart' = clock
    /\ replies' = replies + 1 /\ lapsed' = FALSE

\* The end of a turn.
Replied ==
    /\ pc' = "handle"
    /\ IF o.barge THEN UNCHANGED <<mic, gateVars, origin, buf, bufStart, replies, lapsed>>
       ELSE Restart
    /\ UNCHANGED <<o, captured, chunk, eof, clock, wasMuted, overlap, flushed, cancelled,
                   signalVars, errors>>

\* What a transcript and a reply come to: words outside brackets, and something
\* to say once the blocks and the markup are gone.
Transcripts == {"words", "noise"}
Answers == {"speech", "markup"}
is_meaningful_transcript(text) == text = "words"
speakable_text(reply) == reply = "speech"

\* Too little sound.
Skip ==
    /\ pc = "handle" /\ finished # << >> /\ TooShort
    /\ finished' = Tail(finished)
    /\ UNCHANGED <<o, inputVars, speaker, replies, pc, chunk, eof, buf, bufStart, clock, origin,
                   wasMuted, overlap, flushed, cancelled, turns, gateVars, signalVars,
                   hookVars>>

Transcribe(text) ==
    /\ pc = "handle" /\ finished # << >> /\ ~TooShort
    /\ IF is_meaningful_transcript(text) THEN pc' = "respond" /\ UNCHANGED finished
       ELSE finished' = Tail(finished) /\ UNCHANGED pc
    /\ UNCHANGED <<o, inputVars, speaker, replies, chunk, eof, buf, bufStart, clock, origin,
                   wasMuted, overlap, flushed, cancelled, turns, gateVars, signalVars,
                   hookVars>>

TranscribeFails ==
    /\ pc = "handle" /\ finished # << >> /\ ~TooShort
    /\ UNCHANGED <<turns, device>> /\ HookFailed("asr")

\* respond first clears the flag of its session.
Respond ==
    /\ pc = "respond"
    /\ pc' = "turn" /\ flags' = flags \ {"llm"}
    /\ UNCHANGED <<o, inputVars, speaker, replies, loopVars, cancelled, turns, gateVars,
                   stop, hookVars>>

\* run_turn answers.
Turn(reply) ==
    /\ pc = "turn"
    /\ turns' = turns + 1
    /\ UNCHANGED speaker
    /\ IF speakable_text(reply)
         THEN /\ pc' = "speak"
              /\ UNCHANGED <<o, inputVars, replies, loopVars, cancelled, gateVars, signalVars,
                   hookVars>>
         ELSE Replied /\ Rest(cancelled, turns') /\ UNCHANGED device

TurnFails == pc = "turn" /\ UNCHANGED <<turns, device>> /\ HookFailed("llm")

\* speak and play, which opens the sound device the first time.
Speak ==
    /\ pc = "speak"
    /\ speaker' = Queue
    /\ device' = IF device = "none" /\ o.output = "device" THEN "on" ELSE device
    /\ Replied /\ Rest(cancelled, turns)
    /\ UNCHANGED turns

SpeakFails == pc = "speak" /\ UNCHANGED <<turns, device>> /\ HookFailed("tts")

\* play opens the sound device and cannot start it; it does not try again, and
\* what the next replies queue is never played.
StartFails ==
    /\ pc = "speak" /\ o.output = "device" /\ device = "none"
    /\ errors < MaxErrors /\ errors' = errors + 1
    /\ device' = "silent" /\ lapsed' = ~o.barge
    /\ pc' = "handle" /\ Rest(cancelled, turns)
    /\ UNCHANGED <<o, inputVars, speaker, replies, chunk, eof, buf, bufStart, clock, origin,
                   wasMuted, overlap, flushed, cancelled, turns, gateVars, signalVars>>

Ended == pc = "ended" /\ UNCHANGED vars

Loop == Leave \/ Drained \/ Read \/ Muted \/ Feed \/ DetectorFails \/ NextChunk \/ Skip
        \/ (\E text \in Transcripts : Transcribe(text)) \/ TranscribeFails
        \/ Respond \/ (\E reply \in Answers : Turn(reply)) \/ TurnFails \/ Speak \/ SpeakFails
        \/ StartFails
Next == (\E v \in BOOLEAN : Capture(v)) \/ Playback \/ Sigint \/ Loop \/ Drains \/ Ended

\* The thread of the loop and the thread of the speaker run.
Spec == Init /\ [][Next]_vars /\ WF_vars(Loop) /\ WF_vars(Playback)

-----------------------------------------------------------------------------
(* Properties *)

TypeOK ==
    /\ o \in Options /\ Len(mic) <= Larger(Unread, IF o.input = "file" THEN MaxUnits ELSE 0)
    /\ speaker >= 0 /\ device \in {"none", "on", "silent"} /\ replies >= 0
    /\ errors \in 0 .. MaxErrors
    /\ pc \in {"read", "got", "handle", "respond", "turn", "speak", "drain", "ended"}
    /\ flags \subseteq Sessions
    /\ {eof, wasMuted, cancelled, stop, flushed, lapsed} \subseteq BOOLEAN
    /\ clock = BufEnd /\ Len(buf) <= Keep + Chunk

\* The segments of the gate do not depend on how the input is cut into chunks
\* (energy_gate_feed carries part of a frame over): they are those of the whole
\* input since the last reset, fed at once, as detect_speech_energy does.
GateExact ==
    pc = "handle" =>
    \E all \in {energy_gate_feed(Fresh, Voices(fed))} :
        IF flushed THEN found = all.segments \o Flushed(all.gate) \/ found = all.segments
        ELSE found = all.segments /\ gate = all.gate

\* What transcribe gets (handle) is the whole of the segment that the detector
\* found, sample for sample, and nothing of a segment found before a reset:
\* the clock, the origin of the detector and the bounded buffer stay together
\* over replies, muted stretches and the trimming of the buffer.
WholeUtterance ==
    TypeOK /\ (pc = "handle" /\ finished # << >> /\ ~TooShort =>
        LET seg == Head(finished)
        IN  /\ \E i \in DOMAIN found : found[i] = seg
            /\ From <= origin + seg.start /\ To >= origin + seg.end
            /\ SubSeq(buf, origin + seg.start - bufStart + 1, origin + seg.end - bufStart)
                 = SubSeq(fed, seg.start + 1, seg.end))

\* Half-duplex: what is transcribed was captured after the last reply that came
\* to its end (restart_listening), and unless a turn has failed since, which does
\* not get that far (hook_failed), never while a reply was being produced.
HeardAfterReply ==
    pc = "handle" /\ finished # << >> /\ ~TooShort /\ ~o.barge /\ o.input = "device" =>
        \A i \in DOMAIN Utterance :
            Utterance[i].reply = replies /\ (lapsed \/ Utterance[i].during # "producing")

\* What the loop makes of the sound, as a whole.
UtterancesExact == WholeUtterance /\ GateExact /\ HeardAfterReply

\* Half-duplex: "audio captured while a reply is being produced or played is
\* dropped, so the agent does not hear itself" (voice.hpp).  This does not hold:
\* a turn that fails leaves what was captured during it, and a reply that stops
\* playing between two reads leaves what was captured and is not read yet.
NoEchoHeard ==
    pc = "handle" /\ finished # << >> /\ ~TooShort /\ ~o.barge =>
        \A i \in DOMAIN Utterance : Utterance[i].during = "listening"

\* Ctrl-C ends the loop, whatever it is doing, also when clear_cancel in respond
\* takes back the cancel flag that the signal handler has just set; unless a
\* reply waits for a sound device that could not be started (device_drain).
SigintEnds == stop ~> (pc = "ended" \/ (device = "silent" /\ speaker > 0))
=============================================================================
