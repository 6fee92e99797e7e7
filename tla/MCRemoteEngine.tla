--------------------------- MODULE MCRemoteEngine ---------------------------
(***************************************************************************)
(* RemoteEngine for TLC: two interchangeable callers, and a Scene for each *)
(* group of mishaps that interact.                                         *)
(***************************************************************************)
EXTENDS RemoteEngine

\* Streaming runs and token counts; failing runs, bad frames, crashes.
Streams == [concurrent |-> TRUE, kinds |-> {"Run", "CountTokens"}, calls |-> 3, chunks |-> 1,
            sizes |-> {0}, happens |-> {"fail", "garble", "crash", "encode"}]

\* Cancels and deadlines of runs that share a host.
Deadlines == [concurrent |-> TRUE, kinds |-> {"Run"}, calls |-> 2, chunks |-> 0,
              sizes |-> {0}, happens |-> {"cancel", "watchdog"}]

\* Responses in shared memory, and enough calls for segments to be reused.
Segments == [concurrent |-> TRUE, kinds |-> {"Run"}, calls |-> 4, chunks |-> 0,
             sizes |-> {0, 1, 2}, happens |-> {"crash"}]

\* An engine that runs one request at a time; starts that fail.
Serial == [concurrent |-> FALSE, kinds |-> {"Run", "ResetCache"}, calls |-> 3, chunks |-> 0,
           sizes |-> {0}, happens |-> {"cancel", "crash", "start"}]

AllScenes == {Streams, Deadlines, Segments, Serial}

ASSUME ScenesTyped == AllScenes \subseteq Scene

\* A host that dies while responses in shared memory are held.
Dying == {[Segments EXCEPT !.calls = 3, !.sizes = {0, 1}]}

CallerSymmetry == Permutations(Callers)
=============================================================================
