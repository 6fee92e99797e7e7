------------------------- MODULE ShellCommandProofs -------------------------
(***************************************************************************)
(* Proofs about ShellCommand, for any processes, timeouts, cap and buffer  *)
(* sizes: a command that was stopped leaves nothing of its process group   *)
(* behind, and its output is exact.                                        *)
(***************************************************************************)
EXTENDS ShellCommand, TLAPS

\* Before the shell has a session of its own nothing else of the command runs.
\* Once SIGKILL was sent the group is dead, and nobody can join it; and a call
\* that was told to stop does not return before.
TreeInv ==
    /\ shell = "forked" => ~proc[Shell].group
    /\ ~proc[Stranger].group
    /\ shell # "sh" => \A p \in Kids : proc[p] = NoProcess
    /\ killed => \A p \in Processes : proc[p].group => ~proc[p].live
    /\ killed /\ shell = "forked" => ~proc[Shell].live
    /\ killed => halt # "none"
    /\ at \in {"idle", "opened", "forked"} => halt = "none"
    /\ at \in {"idle", "opened"} => shell = "forked" /\ proc[Shell] = NoProcess
    /\ at = "poll" /\ ended /\ halt # "none" => killed
    /\ at \in {"reap", "done"} /\ halt # "none" => killed
    /\ at = "reap" => killed

\* Where the bytes are that were printed, and that nobody can print any more
\* once the loop has seen the end of the output.
OutputInv ==
    /\ output.got + bytes = printed
    /\ ended => bytes = 0 /\ at \notin {"idle", "opened", "forked"}
    /\ ended => \A p \in Processes : ~proc[p].holds
    /\ outcome = "ran" => at = "done" /\ (ended \/ halt # "none")
    /\ output.kept = IF output.got <= Cap THEN output.got ELSE Cap
    /\ output.marks \in {0, 1} /\ (output.marks = 1 => output.got > Cap)

CommandInv == CommandTypeOK /\ TreeInv /\ OutputInv

\* Min of two numbers, without the set.
LEMMA MinOfTwo ==
    ASSUME NEW a \in Int, NEW b \in Int
    PROVE  Min({a, b}) = IF a <= b THEN a ELSE b
<1> DEFINE m == IF a <= b THEN a ELSE b
<1>1. m \in {a, b} /\ \A y \in {a, b} : m <= y
  OBVIOUS
<1>2. \A x \in {a, b} : (\A y \in {a, b} : x <= y) => x = m
  OBVIOUS
<1> QED  BY <1>1, <1>2 DEF Min

\* The call begins with nothing forked and nothing printed.
LEMMA InitCommandInv == CommandInit => CommandInv
<1> SUFFICES ASSUME CommandInit PROVE CommandInv
  OBVIOUS
<1>1. CommandTypeOK
  <2>1. output \in Output
    BY CommandConstants DEF CommandInit, Output
  <2>2. proc \in Table
    BY DEF CommandInit, NoProcess, Process, Table
  <2>3. bytes \in 0 .. MaxBytes /\ printed \in 0 .. MaxBytes
    BY CommandConstants DEF CommandInit
  <2> QED  BY ZenonT(30), <2>1, <2>2, <2>3 DEF CommandInit, CommandTypeOK
<1>2. TreeInv
  BY DEF CommandInit, TreeInv, NoProcess, Processes
<1>3. OutputInv
  BY CommandConstants DEF CommandInit, OutputInv, NoProcess, Processes
<1> QED  BY <1>1, <1>2, <1>3 DEF CommandInv

\* A refused call has started nothing.
LEMMA RefuseStep == ASSUME CommandInv, Refuse PROVE CommandInv'
<1>1. CommandTypeOK'
  BY DEF CommandInv, CommandTypeOK, Refuse, call, loop, tree
<1>2. TreeInv'
  BY DEF CommandInv, CommandTypeOK, TreeInv, Processes, Refuse, call, loop, tree
<1>3. OutputInv'
  BY DEF CommandInv, CommandTypeOK, OutputInv, Refuse, call, loop, tree
<1> QED  BY <1>1, <1>2, <1>3 DEF CommandInv

\* Nothing is forked yet.
LEMMA run_shell_commandStep == ASSUME CommandInv, run_shell_command PROVE CommandInv'
<1>1. CommandTypeOK'
  BY DEF CommandInv, CommandTypeOK, run_shell_command, call, loop, tree
<1>2. TreeInv'
  BY DEF CommandInv, CommandTypeOK, TreeInv, Processes, run_shell_command, call, loop, tree
<1>3. OutputInv'
  BY DEF CommandInv, CommandTypeOK, OutputInv, run_shell_command, call, loop, tree
<1> QED  BY <1>1, <1>2, <1>3 DEF CommandInv

\* A failed fork has started nothing.
LEMMA ForkFailsStep == ASSUME CommandInv, ForkFails PROVE CommandInv'
<1>1. CommandTypeOK'
  BY DEF CommandInv, CommandTypeOK, ForkFails, call, loop, tree
<1>2. TreeInv'
  BY DEF CommandInv, CommandTypeOK, TreeInv, Processes, ForkFails, call, loop, tree
<1>3. OutputInv'
  BY DEF CommandInv, CommandTypeOK, OutputInv, ForkFails, call, loop, tree
<1> QED  BY <1>1, <1>2, <1>3 DEF CommandInv

\* The parent goes into its loop.
LEMMA CloseWriteEndStep == ASSUME CommandInv, CloseWriteEnd PROVE CommandInv'
<1>1. CommandTypeOK'
  BY DEF CommandInv, CommandTypeOK, CloseWriteEnd, call, loop, tree
<1>2. TreeInv'
  BY DEF CommandInv, CommandTypeOK, TreeInv, Processes, CloseWriteEnd, call, loop, tree
<1>3. OutputInv'
  BY DEF CommandInv, CommandTypeOK, OutputInv, CloseWriteEnd, call, loop, tree
<1> QED  BY <1>1, <1>2, <1>3 DEF CommandInv

\* The end of the output is seen when nobody has the pipe.
LEMMA ReadNothingStep == ASSUME CommandInv, ReadNothing PROVE CommandInv'
<1>1. CommandTypeOK'
  BY DEF CommandInv, CommandTypeOK, ReadNothing, call, loop, tree
<1>2. TreeInv'
  BY DEF CommandInv, CommandTypeOK, TreeInv, Processes, ReadNothing, call, loop, tree
<1>3. OutputInv'
  BY DEF CommandInv, CommandTypeOK, OutputInv, ReadNothing, call, loop, tree
<1> QED  BY <1>1, <1>2, <1>3 DEF CommandInv

\* The loop ends with the output, which a stopped command has after its SIGKILL.
LEMMA TryReapStep == ASSUME CommandInv, TryReap PROVE CommandInv'
<1>1. CommandTypeOK'
  BY ZenonT(30) DEF CommandInv, CommandTypeOK, TryReap, call, loop, tree
<1>2. TreeInv'
  BY DEF CommandInv, CommandTypeOK, TreeInv, Processes, TryReap, call, loop, tree
<1>3. OutputInv'
  BY DEF CommandInv, CommandTypeOK, OutputInv, TryReap, call, loop, tree
<1> QED  BY <1>1, <1>2, <1>3 DEF CommandInv

\* The loop is left early after SIGKILL only.
LEMMA GiveUpStep == ASSUME CommandInv, GiveUp PROVE CommandInv'
<1>1. CommandTypeOK'
  BY DEF CommandInv, CommandTypeOK, GiveUp, Impatient, call, loop, tree
<1>2. TreeInv'
  BY DEF CommandInv, CommandTypeOK, TreeInv, Processes, GiveUp, Impatient, call, loop, tree
<1>3. OutputInv'
  BY DEF CommandInv, CommandTypeOK, OutputInv, GiveUp, Impatient, call, loop, tree
<1> QED  BY <1>1, <1>2, <1>3 DEF CommandInv

\* As TryReap; the loop was left after SIGKILL, so the command was stopped.
LEMMA ReapStep == ASSUME CommandInv, Reap PROVE CommandInv'
<1>1. CommandTypeOK'
  BY DEF CommandInv, CommandTypeOK, Reap, call, loop, tree
<1>2. TreeInv'
  BY DEF CommandInv, CommandTypeOK, TreeInv, Processes, Reap, call, loop, tree
<1>3. halt # "none"
  BY DEF CommandInv, TreeInv, Reap
<1>4. OutputInv'
  BY <1>3 DEF CommandInv, CommandTypeOK, OutputInv, Reap, call, loop, tree
<1> QED  BY <1>1, <1>2, <1>4 DEF CommandInv

\* What a process of the command may become at any time.
Allowed(p, r) ==
    /\ ended => ~r.holds
    /\ killed /\ r.group => ~r.live
    /\ p \in Kids => shell = "sh" \/ r = NoProcess
    /\ p = Stranger => ~r.group
    /\ p = Shell => at \notin {"idle", "opened"}
    /\ p = Shell /\ shell = "forked" => ~r.group /\ (killed => ~r.live)

\* One process becomes what it may become.
LEMMA BecomesStep ==
    ASSUME CommandInv, NEW p \in Processes, \E r \in Process : Allowed(p, r) /\ Becomes(p, r)
    PROVE  CommandInv'
<1>1. PICK r \in Process : Allowed(p, r) /\ Becomes(p, r)
  OBVIOUS
<1>2. UNCHANGED <<given, watched, flag, at, halt, ended, killed, reaped, output, outcome, passed, shell,
                  bytes, printed>>
  BY <1>1 DEF Becomes, call, loop
<1>3. proc \in Table /\ proc' \in Table
  BY <1>1 DEF CommandInv, CommandTypeOK, Becomes, Table
<1>4. CommandTypeOK'
  BY <1>2, <1>3 DEF CommandInv, CommandTypeOK
<1>5. \A q \in Processes : proc'[q] = IF q = p THEN r ELSE proc[q]
  BY <1>1, <1>3 DEF Becomes, Table
<1>6. Shell \in Processes /\ Stranger \in Processes /\ Kids \subseteq Processes
  BY DEF Processes
<1>7. TreeInv'
  BY <1>1, <1>2, <1>5, <1>6 DEF CommandInv, TreeInv, Allowed
<1>8. OutputInv'
  BY <1>1, <1>2, <1>5 DEF CommandInv, OutputInv, Allowed
<1> QED  BY <1>4, <1>7, <1>8 DEF CommandInv

\* Before the fork there is no child; the shell takes the pipe with it.
LEMMA ForkStep == ASSUME CommandInv, Fork PROVE CommandInv'
<1> DEFINE r == [NoProcess EXCEPT !.live = TRUE, !.holds = TRUE]
<1>1. r \in Process /\ r.live /\ r.holds /\ ~r.group
  BY ZenonT(30) DEF Process, NoProcess
<1>2. proc' = [proc EXCEPT ![Shell] = r] /\ proc \in Table /\ at = "opened" /\ at' = "forked"
  BY DEF Fork, CommandInv, CommandTypeOK
<1>3. UNCHANGED <<given, watched, flag, halt, ended, killed, reaped, output, outcome, passed, shell, bytes,
                  printed>>
  BY DEF Fork, call
<1> HIDE DEF r
<1>4. Shell \in Processes /\ Stranger \in Processes /\ Kids \subseteq Processes
  BY DEF Processes
<1>5. proc' \in Table /\ \A q \in Processes : proc'[q] = IF q = Shell THEN r ELSE proc[q]
  BY <1>1, <1>2, <1>4 DEF Table
<1>6. ~killed /\ ~ended /\ halt = "none" /\ shell = "forked"
  BY <1>2 DEF CommandInv, CommandTypeOK, TreeInv, OutputInv
<1>7. CommandTypeOK'
  BY <1>2, <1>3, <1>5 DEF CommandInv, CommandTypeOK
<1>8. TreeInv'
  BY <1>1, <1>2, <1>3, <1>4, <1>5, <1>6, CommandConstants DEF CommandInv, TreeInv
<1>9. OutputInv'
  BY <1>2, <1>3, <1>6 DEF CommandInv, OutputInv
<1> QED  BY <1>7, <1>8, <1>9 DEF CommandInv

\* The shell gets a group of its own; it does not when it was killed before.
LEMMA SetsidStep == ASSUME CommandInv, Setsid PROVE CommandInv'
<1>1. UNCHANGED <<given, watched, flag, at, halt, ended, killed, reaped, output, outcome, passed, bytes,
                  printed>>
  BY DEF Setsid, call, loop
<1>2. proc \in Table /\ proc[Shell].live /\ shell = "forked" /\ shell' = "leads"
  BY DEF Setsid, CommandInv, CommandTypeOK
<1>3. Shell \in Processes /\ Stranger \in Processes /\ Kids \subseteq Processes
  BY DEF Processes
<1>4. /\ proc' \in Table
      /\ \A q \in Processes \ {Shell} : proc'[q] = proc[q]
      /\ proc'[Shell].live = proc[Shell].live /\ proc'[Shell].holds = proc[Shell].holds
  BY ZenonT(30), <1>2, <1>3 DEF Setsid, Table, Process
<1>5. ~killed /\ at \notin {"idle", "opened"}
  BY <1>2 DEF CommandInv, TreeInv, NoProcess
<1>6. CommandTypeOK'
  BY <1>1, <1>2, <1>4 DEF CommandInv, CommandTypeOK
<1>7. TreeInv'
  BY <1>1, <1>2, <1>3, <1>4, <1>5, CommandConstants DEF CommandInv, TreeInv
<1>8. OutputInv'
  BY <1>1, <1>3, <1>4 DEF CommandInv, OutputInv
<1> QED  BY <1>6, <1>7, <1>8 DEF CommandInv

\* From here on the shell can start processes.
LEMMA ExecStep == ASSUME CommandInv, Exec PROVE CommandInv'
<1>1. CommandTypeOK'
  BY DEF CommandInv, CommandTypeOK, Exec, call, loop
<1>2. TreeInv'
  BY DEF CommandInv, TreeInv, Exec, call, loop
<1>3. OutputInv'
  BY DEF CommandInv, OutputInv, Exec, call, loop
<1> QED  BY <1>1, <1>2, <1>3 DEF CommandInv

\* A signal ends processes, or does nothing to them; SIGKILL ends all it reaches.
LEMMA SignalTree ==
    ASSUME CommandTypeOK, Sigterm \/ Sigkill
    PROVE  /\ proc' \in Table
           /\ \A p \in Processes : /\ proc'[p].live => proc[p].live
                                   /\ proc'[p].group => proc[p].group
                                   /\ proc'[p].holds => proc[p].holds
                                   /\ proc[p] = NoProcess => proc'[p] = NoProcess
           /\ Sigkill => \A p \in Reached : ~proc'[p].live
<1>1. proc \in [Processes -> Process]
  BY DEF CommandTypeOK, Table
<1>2. \A p \in Processes : proc[p].group \in BOOLEAN /\ proc[p].live \in BOOLEAN
  BY <1>1 DEF Process
<1>3. \A p \in Processes : /\ Ended(p) \in Process /\ ~Ended(p).live /\ ~Ended(p).holds
                           /\ Ended(p).group => proc[p].group
  BY ZenonT(30), <1>2 DEF Ended, NoProcess, Process
<1>4. /\ proc' \in [Processes -> Process]
      /\ \A p \in Processes : proc'[p] = proc[p] \/ (proc[p].live /\ proc'[p] = Ended(p))
  BY <1>1, <1>3, Zenon DEF Sigterm, Sigkill, signal_tree
<1>5. Reached \subseteq Processes
  BY DEF Reached, Processes
<1>6. Sigkill => \A p \in Reached : ~proc'[p].live
  BY <1>1, <1>2, <1>3, <1>5 DEF Sigkill, signal_tree
<1>7. ~NoProcess.live
  BY DEF NoProcess
<1> QED  BY <1>3, <1>4, <1>6, <1>7 DEF Table

\* The command is told to stop; what it has started can only have become less.
LEMMA CheckStep == ASSUME CommandInv, Check PROVE CommandInv'
<1>1. UNCHANGED <<given, watched, flag, ended, killed, reaped, output, outcome, passed, shell, bytes, printed>>
  BY DEF Check, call
<1>2. at = "check" /\ at' = "kill" /\ halt' \in {"none", "cancelled", "timed_out"}
      /\ (halt # "none" => halt' = halt)
  BY DEF Check, CommandInv, CommandTypeOK, cancel_requested
<1>3. /\ proc' \in Table
      /\ \A p \in Processes : /\ proc'[p].live => proc[p].live
                              /\ proc'[p].group => proc[p].group
                              /\ proc'[p].holds => proc[p].holds
                              /\ proc[p] = NoProcess => proc'[p] = NoProcess
  <2>1. CASE halt' # halt
    BY <2>1, SignalTree DEF Check, CommandInv
  <2>2. CASE halt' = halt
    BY <2>2 DEF Check, CommandInv, CommandTypeOK
  <2> QED  BY <2>1, <2>2
<1>4. Shell \in Processes /\ Stranger \in Processes /\ Kids \subseteq Processes
  BY DEF Processes
<1>5. CommandTypeOK'
  BY <1>1, <1>2, <1>3 DEF CommandInv, CommandTypeOK
<1>6. TreeInv'
  BY <1>1, <1>2, <1>3, <1>4 DEF CommandInv, TreeInv
<1>7. OutputInv'
  BY <1>1, <1>2, <1>3 DEF CommandInv, OutputInv
<1> QED  BY <1>5, <1>6, <1>7 DEF CommandInv

\* After SIGKILL nothing of the group is alive; the shell is not when it had none.
LEMMA EscalateStep == ASSUME CommandInv, Escalate PROVE CommandInv'
<1>1. UNCHANGED <<given, watched, flag, halt, ended, reaped, output, outcome, passed, shell, bytes, printed>>
  BY DEF Escalate, call
<1>2. at = "kill" /\ at' = "poll"
  BY DEF Escalate
<1>3. /\ killed' \in BOOLEAN /\ (killed => killed') /\ (killed' => halt # "none")
      /\ ended /\ halt # "none" => killed'
  BY ZenonT(30) DEF Escalate, Overdue, CommandInv, CommandTypeOK, TreeInv
<1>4. /\ proc' \in Table
      /\ \A p \in Processes : /\ proc'[p].live => proc[p].live
                              /\ proc'[p].group => proc[p].group
                              /\ proc'[p].holds => proc[p].holds
                              /\ proc[p] = NoProcess => proc'[p] = NoProcess
      /\ killed' /\ ~killed => \A p \in Reached : ~proc'[p].live
  <2>1. CASE halt # "none" /\ ~killed /\ Overdue
    BY <2>1, SignalTree DEF Escalate, CommandInv
  <2>2. CASE ~(halt # "none" /\ ~killed /\ Overdue)
    BY <2>2 DEF Escalate, CommandInv, CommandTypeOK
  <2> QED  BY <2>1, <2>2
<1>5. Shell \in Processes /\ Stranger \in Processes /\ Kids \subseteq Processes
  BY DEF Processes
<1>6. CommandTypeOK'
  BY <1>1, <1>2, <1>3, <1>4 DEF CommandInv, CommandTypeOK
<1>7. killed' => /\ \A p \in Processes : proc'[p].group => ~proc'[p].live
                 /\ shell = "forked" => ~proc'[Shell].live
  <2>1. CASE killed
    BY <2>1, <1>4, <1>5 DEF CommandInv, TreeInv
  <2>2. CASE ~killed /\ shell = "forked"
    BY <2>2, <1>4, <1>5 DEF CommandInv, TreeInv, Reached, Processes, NoProcess
  <2>3. CASE ~killed /\ shell # "forked"
    BY <2>3, <1>4 DEF Reached
  <2> QED  BY <2>1, <2>2, <2>3
<1>8. TreeInv'
  BY <1>1, <1>2, <1>3, <1>4, <1>5, <1>7 DEF CommandInv, TreeInv
<1>9. OutputInv'
  BY <1>1, <1>2, <1>4 DEF CommandInv, OutputInv
<1> QED  BY <1>6, <1>8, <1>9 DEF CommandInv

\* The bytes that are read are added to what was collected, up to the cap.
LEMMA ReadStep == ASSUME CommandInv, Read PROVE CommandInv'
<1> DEFINE n == IF bytes <= ReadSize THEN bytes ELSE ReadSize
           left == Cap - output.kept
           take == IF n <= left THEN n ELSE left
<1>1. UNCHANGED <<given, watched, flag, halt, ended, killed, reaped, outcome, passed, shell, proc, printed>>
  BY DEF Read, call
<1>2. at = "poll" /\ at' = "give" /\ ~ended /\ bytes > 0
  BY DEF Read
<1>3. /\ bytes \in Nat /\ printed \in Nat /\ printed <= MaxBytes /\ output.got + bytes = printed
      /\ output.got \in Nat /\ output.kept \in Nat /\ output.kept <= Cap
      /\ output.marks \in {0, 1} /\ (output.marks = 1 => output.got > Cap)
      /\ output.kept = IF output.got <= Cap THEN output.got ELSE Cap
  BY CommandConstants DEF CommandInv, CommandTypeOK, OutputInv, Output
<1>4. n \in Nat /\ n > 0 /\ n <= bytes /\ Min({bytes, ReadSize}) = n
  BY <1>2, <1>3, MinOfTwo, CommandConstants
<1>5. left \in Nat /\ Min({n, left}) = take
  BY <1>3, <1>4, MinOfTwo, CommandConstants
<1>6. bytes' = bytes - n /\ output' = Collected(n)
  BY <1>4, Zenon DEF Read
<1> HIDE DEF n
<1>7. /\ output'.got = output.got + n
      /\ output'.kept = IF output.kept + output.marks < Cap THEN output.kept + take ELSE output.kept
      /\ output'.marks = IF output.kept + output.marks < Cap /\ take < n
                         THEN output.marks + 1 ELSE output.marks
      /\ output' = [kept |-> output'.kept, marks |-> output'.marks, got |-> output'.got]
  <2>1. output = [kept |-> output.kept, marks |-> output.marks, got |-> output.got]
    BY DEF CommandInv, CommandTypeOK, Output
  <2> QED  BY <1>5, <1>6, <2>1 DEF Collected
<1>8. /\ output'.got + bytes' = printed
      /\ output'.got \in Nat
      /\ output'.kept = IF output'.got <= Cap THEN output'.got ELSE Cap
      /\ output'.marks \in {0, 1} /\ (output'.marks = 1 => output'.got > Cap)
  BY <1>3, <1>4, <1>5, <1>6, <1>7, CommandConstants
<1>9. output' \in Output /\ bytes' \in 0 .. MaxBytes
  BY <1>3, <1>4, <1>6, <1>7, <1>8, CommandConstants DEF Output
<1>10. CommandTypeOK'
  BY <1>1, <1>2, <1>9 DEF CommandInv, CommandTypeOK
<1>11. TreeInv'
  BY <1>1, <1>2 DEF CommandInv, TreeInv
<1>12. OutputInv'
  BY <1>1, <1>2, <1>8 DEF CommandInv, OutputInv
<1> QED  BY <1>10, <1>11, <1>12 DEF CommandInv

\* Whoever prints has the pipe, so that the end of the output was not seen.
LEMMA PrintsStep ==
    ASSUME CommandInv, NEW p \in Kids \cup {Shell}, Prints(p) PROVE CommandInv'
<1>1. UNCHANGED <<given, watched, flag, at, halt, ended, killed, reaped, output, outcome, passed, shell, proc>>
  BY DEF Prints, call, loop
<1>2. PICK n \in 1 .. MaxBytes - printed : bytes' = bytes + n /\ printed' = printed + n
  BY DEF Prints
<1>3. ~ended
  BY DEF Prints, CommandInv, OutputInv, Processes
<1>4. /\ bytes \in Nat /\ printed \in Nat /\ printed <= MaxBytes /\ output.got + bytes = printed
      /\ output.got \in Nat
  BY CommandConstants DEF CommandInv, CommandTypeOK, OutputInv, Output
<1>5. bytes' \in 0 .. MaxBytes /\ printed' \in 0 .. MaxBytes /\ output.got + bytes' = printed'
  BY <1>2, <1>4, CommandConstants
<1>6. CommandTypeOK'
  BY <1>1, <1>5 DEF CommandInv, CommandTypeOK
<1>7. TreeInv'
  BY <1>1 DEF CommandInv, TreeInv
<1>8. OutputInv'
  BY <1>1, <1>3, <1>5 DEF CommandInv, OutputInv
<1> QED  BY <1>6, <1>7, <1>8 DEF CommandInv

\* A process forks, leaves the session, closes its output, ignores SIGTERM or ends.
LEMMA ProcessStep ==
    ASSUME CommandInv, NEW p \in Kids \cup {Shell},
           \/ ClosesOutput(p) \/ IgnoresSigterm(p) \/ Exits(p) \/ LeavesSession(p)
           \/ \E k \in Kids : Forks(p, k)
    PROVE  CommandInv'
<1>1. p \in Processes /\ p # Stranger /\ Kids \subseteq Processes
  BY CommandConstants DEF Processes
<1>2. proc \in [Processes -> Process]
  BY DEF CommandInv, CommandTypeOK, Table
<1>3. proc[p] \in [live : BOOLEAN, group : BOOLEAN, holds : BOOLEAN, deaf : BOOLEAN]
  BY <1>1, <1>2 DEF Process
<1>4. /\ ended => ~proc[p].holds
      /\ killed /\ proc[p].group => ~proc[p].live
      /\ proc[p].live /\ shell # "forked" => (p \in Kids => shell = "sh") /\ at \notin {"idle", "opened"}
  <2>1. ended => ~proc[p].holds
    BY <1>1 DEF CommandInv, OutputInv
  <2>2. killed /\ proc[p].group => ~proc[p].live
    BY <1>1 DEF CommandInv, OutputInv, TreeInv
  <2>3. proc[p].live /\ shell # "forked" => (p \in Kids => shell = "sh") /\ at \notin {"idle", "opened"}
    BY <1>1 DEF CommandInv, TreeInv, NoProcess
  <2> QED BY <2>1, <2>2, <2>3
<1>5. CASE ClosesOutput(p)
  <2> DEFINE r == [proc[p] EXCEPT !.holds = FALSE]
  <2>1. r \in Process /\ ~r.holds /\ r.group = proc[p].group /\ r.live = proc[p].live
    BY ZenonT(30), <1>3 DEF Process
  <2>2. Allowed(p, r) /\ Becomes(p, r)
    BY <1>1, <1>4, <1>5, <2>1 DEF ClosesOutput, Alive, Allowed
  <2> QED  BY <1>1, <2>1, <2>2, BecomesStep
<1>6. CASE IgnoresSigterm(p)
  <2> DEFINE r == [proc[p] EXCEPT !.deaf = TRUE]
  <2>1. r \in Process /\ r.holds = proc[p].holds /\ r.group = proc[p].group /\ r.live = proc[p].live
    BY ZenonT(30), <1>3 DEF Process
  <2>2. Allowed(p, r) /\ Becomes(p, r)
    BY <1>1, <1>4, <1>6, <2>1 DEF IgnoresSigterm, Alive, Allowed
  <2> QED  BY <1>1, <2>1, <2>2, BecomesStep
<1>7. CASE LeavesSession(p)
  <2> DEFINE r == [proc[p] EXCEPT !.group = FALSE]
  <2>1. r \in Process /\ r.holds = proc[p].holds /\ ~r.group /\ r.live = proc[p].live
    BY ZenonT(30), <1>3 DEF Process
  <2>2. Allowed(p, r) /\ Becomes(p, r)
    BY <1>1, <1>4, <1>7, <2>1 DEF LeavesSession, Alive, Allowed
  <2> QED  BY <1>1, <2>1, <2>2, BecomesStep
<1>8. CASE Exits(p)
  <2>1. Ended(p) \in Process /\ ~Ended(p).holds /\ ~Ended(p).live
    BY ZenonT(30), <1>3 DEF Process, Ended, NoProcess
  <2>2. shell # "forked" /\ proc[p].live /\ Becomes(p, Ended(p))
    BY <1>8 DEF Exits, Alive
  <2>3. Allowed(p, Ended(p))
    BY <1>1, <1>4, <2>1, <2>2 DEF Allowed
  <2> QED  BY <1>1, <2>1, <2>2, <2>3, BecomesStep
<1>9. CASE \E k \in Kids : Forks(p, k)
  <2>1. PICK k \in Kids : Forks(p, k)
    BY <1>9
  <2>2. k \in Processes /\ k # Stranger /\ k # Shell
    BY <1>1, CommandConstants
  <2>3. Allowed(k, proc[p]) /\ Becomes(k, proc[p])
    BY <1>4, <2>1, <2>2 DEF Forks, Alive, Allowed
  <2> QED  BY <1>1, <1>2, <2>2, <2>3, BecomesStep
<1> QED  BY <1>5, <1>6, <1>7, <1>8, <1>9

\* A process of another thread has the pipe, and is in no group of the command.
LEMMA StrangerStep == ASSUME CommandInv, StrangerStarts \/ StrangerEnds PROVE CommandInv'
<1>1. Stranger \in Processes /\ Stranger \notin Kids /\ Stranger # Shell
  BY CommandConstants DEF Processes
<1>2. CASE StrangerStarts
  <2> DEFINE r == [NoProcess EXCEPT !.live = TRUE, !.holds = TRUE]
  <2>1. r \in Process /\ ~r.group
    BY ZenonT(30) DEF Process, NoProcess
  <2>2. ~ended
    BY <1>2 DEF StrangerStarts, CommandInv, OutputInv
  <2>3. Allowed(Stranger, r) /\ Becomes(Stranger, r)
    BY <1>1, <1>2, <2>1, <2>2 DEF StrangerStarts, Allowed
  <2> QED  BY <1>1, <2>1, <2>3, BecomesStep
<1>3. CASE StrangerEnds
  <2>1. NoProcess \in Process /\ ~NoProcess.group /\ ~NoProcess.holds
    BY DEF Process, NoProcess
  <2>2. Allowed(Stranger, NoProcess) /\ Becomes(Stranger, NoProcess)
    BY <1>1, <1>3, <2>1 DEF StrangerEnds, Allowed
  <2> QED  BY <1>1, <2>1, <2>2, BecomesStep
<1> QED  BY <1>2, <1>3

\* The flag, the clock, and a step that changes nothing.
LEMMA OutsideStep ==
    ASSUME CommandInv, RequestCancel \/ Tick \/ Returned \/ UNCHANGED commandVars
    PROVE  CommandInv'
<1>1. /\ UNCHANGED <<given, watched, at, halt, ended, killed, reaped, output, outcome, shell, proc, bytes, printed>>
      /\ flag' \in BOOLEAN /\ passed' \subseteq {"timeout", "grace", "patience"}
  BY ZenonT(30) DEF CommandInv, CommandTypeOK, RequestCancel, Tick, Returned, commandVars, call, loop, tree
<1>2. CommandTypeOK'
  BY <1>1 DEF CommandInv, CommandTypeOK
<1>3. TreeInv'
  BY <1>1 DEF CommandInv, TreeInv
<1>4. OutputInv'
  BY <1>1 DEF CommandInv, OutputInv
<1> QED  BY <1>2, <1>3, <1>4 DEF CommandInv

\* CommandInv holds in every state of a call of run_shell_command.
THEOREM CommandInvariance == CommandSpec => []CommandInv
<1>1. CommandInv /\ [CommandNext]_commandVars => CommandInv'
  <2> SUFFICES ASSUME CommandInv, [CommandNext]_commandVars PROVE CommandInv'
    OBVIOUS
  <2>1. CASE Parent
    BY <2>1, RefuseStep, run_shell_commandStep, ForkStep, ForkFailsStep, CloseWriteEndStep, CheckStep,
       EscalateStep, ReadStep, ReadNothingStep, TryReapStep, GiveUpStep, ReapStep DEF Parent
  <2>2. CASE Command
    BY <2>2, SetsidStep, ExecStep, PrintsStep, ProcessStep DEF Command
  <2>3. CASE StrangerStarts \/ StrangerEnds
    BY <2>3, StrangerStep
  <2>4. CASE RequestCancel \/ Tick \/ Returned \/ UNCHANGED commandVars
    BY <2>4, OutsideStep
  <2> QED  BY <2>1, <2>2, <2>3, <2>4 DEF CommandNext
<1> QED  BY InitCommandInv, <1>1, PTL DEF CommandSpec

\* What run_command returns is true of the processes it started, whatever they
\* and the other threads do: a command that was stopped leaves nothing alive in
\* its process group, and the output is what was printed, cut and marked at the
\* cap only, and complete unless the command was stopped.
THEOREM CommandsAreExact == CommandSpec => []CommandsExact
<1>1. CommandInv => CommandsExact
  <2> SUFFICES ASSUME CommandInv PROVE CommandsExact
    OBVIOUS
  <2>1. TreeIsStopped
    BY DEF CommandInv, TreeInv, TreeIsStopped
  <2>2. Min({output.got, Cap}) = IF output.got <= Cap THEN output.got ELSE Cap
    BY MinOfTwo, CommandConstants DEF CommandInv, CommandTypeOK, Output
  <2>3. bytes \in Int /\ output.got \in Int
    BY DEF CommandInv, CommandTypeOK, Output
  <2>4. OutputExact
    BY <2>2, <2>3 DEF CommandInv, OutputInv, OutputExact
  <2> QED  BY <2>1, <2>4 DEF CommandsExact, CommandInv
<1> QED  BY CommandInvariance, <1>1, PTL
=============================================================================
