---------------------------- MODULE ShellCommand ----------------------------
(***************************************************************************)
(* One call of the run_command tool on a POSIX system: the arguments       *)
(* (src/src/core/tools/terminal_tools.cpp) and run_shell_posix             *)
(* (src/src/hal/process.cpp), which starts a shell in a session of its     *)
(* own, collects what it prints and stops its process group when the turn  *)
(* is cancelled or the timeout is over.                                    *)
(*                                                                         *)
(* The processes are the shell and the Kids that it or they fork.  They    *)
(* ignore SIGTERM, leave the session, close their output, print and exit   *)
(* as they like; SIGKILL ends a process where it stands.  Output is a      *)
(* number of bytes: a pipe keeps their order.  The pipe is not             *)
(* close-on-exec, so a process that another thread starts meanwhile may    *)
(* hold it too (Stranger).                                                 *)
(***************************************************************************)
EXTENDS Integers, FiniteSetsExt

CONSTANTS
    Kids,       \* processes that the command may start
    Shell,      \* the process that is forked
    Stranger,   \* a process that another thread starts
    Timeouts,   \* the values of timeout_seconds in the arguments
    Absent,     \* timeout_seconds is not given
    Cap,        \* max_output_bytes
    ReadSize,   \* sizeof(buf)
    MaxBytes    \* bound: bytes printed; the pipe holds as many

ASSUME CommandConstants ==
    /\ Shell \notin Kids /\ Stranger \notin Kids \cup {Shell}
    /\ Cap \in Nat \ {0} /\ ReadSize \in Nat \ {0} /\ MaxBytes \in Nat
    /\ Timeouts \ {Absent} \subseteq Int

VARIABLES
    given,      \* timeout_seconds as the model gave it
    watched,    \* the tool was made with a cancel flag (WorkspaceContext)
    flag,       \* the cancel flag of the session
    at,         \* where run_shell_posix is
    halt,       \* Stop: "none", "cancelled" or "timed_out"
    ended,      \* eof
    killed,     \* sigkilled
    reaped,     \* the shell has been waited for
    output,     \* [kept, marks, got]: bytes of it, "[output truncated]"s, bytes read
    outcome,    \* of the call: "none", "refused", "failed" or "ran"
    passed,     \* which of "timeout", "grace" and "patience" are over
    shell,      \* "forked", "leads" (setsid) or "sh" (exec)
    proc,       \* process -> [live, group, holds, deaf]
    bytes,      \* in the pipe
    printed     \* bytes printed so far

call == <<given, watched>>
loop == <<at, halt, ended, killed, reaped, output, outcome>>
tree == <<shell, proc, bytes, printed>>
commandVars == <<given, watched, flag, at, halt, ended, killed, reaped, output, outcome, passed,
                 shell, proc, bytes, printed>>

Processes == Kids \cup {Shell, Stranger}
Process == [live : BOOLEAN, group : BOOLEAN, holds : BOOLEAN, deaf : BOOLEAN]
Table == [Processes -> Process]
NoProcess == [live |-> FALSE, group |-> FALSE, holds |-> FALSE, deaf |-> FALSE]
Output == [kept : 0 .. Cap, marks : Nat, got : 0 .. MaxBytes]

CommandTypeOK ==
    /\ given \in Timeouts /\ watched \in BOOLEAN /\ flag \in BOOLEAN
    /\ at \in {"idle", "opened", "forked", "check", "kill", "poll", "give", "reap", "done"}
    /\ halt \in {"none", "cancelled", "timed_out"}
    /\ ended \in BOOLEAN /\ killed \in BOOLEAN /\ reaped \in BOOLEAN
    /\ output \in Output
    /\ outcome \in {"none", "refused", "failed", "ran"}
    /\ passed \subseteq {"timeout", "grace", "patience"}
    /\ shell \in {"forked", "leads", "sh"}
    /\ proc \in Table
    /\ bytes \in 0 .. MaxBytes /\ printed \in 0 .. MaxBytes

CommandInit ==
    /\ given \in Timeouts /\ watched \in BOOLEAN /\ flag = FALSE
    /\ at = "idle" /\ halt = "none" /\ ended = FALSE /\ killed = FALSE /\ reaped = FALSE
    /\ output = [kept |-> 0, marks |-> 0, got |-> 0] /\ outcome = "none" /\ passed = {}
    /\ shell = "forked" /\ proc = [p \in Processes |-> NoProcess]
    /\ bytes = 0 /\ printed = 0

-----------------------------------------------------------------------------
(* run_command and run_shell_command *)

\* 30 s unless given, at most a day; 0 is no timeout.
TimeoutSeconds(v) == IF v = Absent \/ v < 0 THEN 30 ELSE Min({v, 86400})

cancel_requested == watched /\ flag

\* The arguments are no object with a command, or the turn is cancelled already;
\* the sandbox cannot be prepared, or there is no pipe.
Refuse ==
    /\ at = "idle"
    /\ outcome' \in {"refused", "failed"}
    /\ at' = "done"
    /\ UNCHANGED <<call, flag, halt, ended, killed, reaped, output, passed, tree>>

run_shell_command ==
    /\ at = "idle" /\ ~cancel_requested
    /\ at' = "opened"
    /\ UNCHANGED <<call, flag, halt, ended, killed, reaped, output, outcome, passed, tree>>

-----------------------------------------------------------------------------
(* run_shell_posix: the two sides of the fork *)

Fork ==
    /\ at = "opened"
    /\ at' = "forked"
    /\ proc' = [proc EXCEPT ![Shell] = [NoProcess EXCEPT !.live = TRUE, !.holds = TRUE]]
    /\ UNCHANGED <<call, flag, halt, ended, killed, reaped, output, outcome, passed, shell, bytes,
                   printed>>

ForkFails ==
    /\ at = "opened"
    /\ at' = "done" /\ outcome' = "failed"
    /\ UNCHANGED <<call, flag, halt, ended, killed, reaped, output, passed, tree>>

\* The parent's write end is closed.
CloseWriteEnd ==
    /\ at = "forked"
    /\ at' = "check"
    /\ UNCHANGED <<call, flag, halt, ended, killed, reaped, output, outcome, passed, tree>>

Setsid ==
    /\ shell = "forked" /\ proc[Shell].live
    /\ shell' = "leads"
    /\ proc' = [proc EXCEPT ![Shell].group = TRUE]
    /\ UNCHANGED <<call, flag, loop, passed, bytes, printed>>

\* exec; or chdir, the sandbox or exec fails, and the child says so and exits
\* (Prints, Exits).
Exec ==
    /\ shell = "leads" /\ proc[Shell].live
    /\ shell' = "sh"
    /\ UNCHANGED <<call, flag, loop, passed, proc, bytes, printed>>

-----------------------------------------------------------------------------
(* run_shell_posix: the loop of the parent *)

\* The members of the group, whose leader is not reaped; the child alone while
\* there is no group.
Reached == IF shell = "forked" THEN {Shell} ELSE {p \in Processes : proc[p].group}

\* A process that ends closes its descriptors and leaves nothing to signal.
Ended(p) == [NoProcess EXCEPT !.group = (p = Shell /\ proc[p].group)]

signal_tree(hit) ==
    proc' = [p \in Processes |-> IF p \in Reached /\ proc[p].live /\ hit[p] THEN Ended(p) ELSE proc[p]]
Sigterm == signal_tree([p \in Processes |-> ~proc[p].deaf])
Sigkill == signal_tree([p \in Processes |-> TRUE])

\* The flag and the deadline.
Check ==
    /\ at = "check"
    /\ halt' = IF halt # "none" THEN halt
               ELSE IF cancel_requested THEN "cancelled"
               ELSE IF TimeoutSeconds(given) > 0 /\ "timeout" \in passed THEN "timed_out" ELSE "none"
    /\ IF halt' # halt THEN Sigterm ELSE UNCHANGED proc
    /\ at' = "kill"
    /\ UNCHANGED <<call, flag, ended, killed, reaped, output, outcome, passed, shell, bytes, printed>>

\* Mutant: only the end of the grace period.
AfterGrace == "grace" \in passed

\* The grace period is over; or the output has ended, which leaves only what has
\* closed it.
Overdue == ended \/ "grace" \in passed

Escalate ==
    /\ at = "kill"
    /\ IF halt # "none" /\ ~killed /\ Overdue THEN killed' = TRUE /\ Sigkill
       ELSE UNCHANGED <<killed, proc>>
    /\ at' = "poll"
    /\ UNCHANGED <<call, flag, halt, ended, reaped, output, outcome, passed, shell, bytes, printed>>

\* What n bytes add to the output.
Collected(n) ==
    LET size == output.kept + output.marks
        take == Min({n, Cap - output.kept}) IN
    IF size < Cap
    THEN [kept |-> output.kept + take, got |-> output.got + n,
          marks |-> IF take < n THEN output.marks + 1 ELSE output.marks]
    ELSE [output EXCEPT !.got = @ + n]

Read ==
    /\ at = "poll" /\ ~ended /\ bytes > 0
    /\ LET n == Min({bytes, ReadSize}) IN bytes' = bytes - n /\ output' = Collected(n)
    /\ at' = "give"
    /\ UNCHANGED <<call, flag, halt, ended, killed, reaped, outcome, passed, shell, proc, printed>>

\* poll finds nothing, or that the last writer is gone.
ReadNothing ==
    /\ at = "poll" /\ ~ended /\ bytes = 0
    /\ ended' = (\A p \in Processes : ~proc[p].holds)
    /\ at' = "give"
    /\ UNCHANGED <<call, flag, halt, killed, reaped, output, outcome, passed, tree>>

\* The shell is waited for once the output has ended: waitpid with WNOHANG.
TryReap ==
    /\ at = "poll" /\ ended
    /\ IF proc[Shell].live THEN at' = "give" /\ UNCHANGED <<reaped, outcome>>
       ELSE at' = "done" /\ reaped' = TRUE /\ outcome' = "ran"
    /\ UNCHANGED <<call, flag, halt, ended, killed, output, passed, tree>>

\* Mutant: the loop ends with the output only.
StaysPatient == FALSE

\* SIGKILL was a second ago: something that has left the session has the pipe.
Impatient == killed /\ "patience" \in passed

GiveUp ==
    /\ at = "give"
    /\ at' = IF Impatient THEN "reap" ELSE "check"
    /\ UNCHANGED <<call, flag, halt, ended, killed, reaped, output, outcome, passed, tree>>

\* waitpid.
Reap ==
    /\ at = "reap" /\ ~proc[Shell].live
    /\ at' = "done" /\ reaped' = TRUE /\ outcome' = "ran"
    /\ UNCHANGED <<call, flag, halt, ended, killed, output, passed, tree>>

Parent ==
    \/ Refuse \/ run_shell_command \/ Fork \/ ForkFails \/ CloseWriteEnd
    \/ Check \/ Escalate \/ Read \/ ReadNothing \/ TryReap \/ GiveUp \/ Reap

-----------------------------------------------------------------------------
(* The command, the other threads and the clock *)

Alive(p) == p # Stranger /\ proc[p].live /\ shell = "sh"
Becomes(p, record) ==
    /\ proc' = [proc EXCEPT ![p] = record]
    /\ UNCHANGED <<call, flag, loop, passed, shell, bytes, printed>>

\* A process forks another one, which takes after it.
Forks(p, k) == Alive(p) /\ proc[k] = NoProcess /\ Becomes(k, proc[p])
LeavesSession(k) == Alive(k) /\ proc[k].group /\ Becomes(k, [proc[k] EXCEPT !.group = FALSE])
ClosesOutput(p) == Alive(p) /\ proc[p].holds /\ Becomes(p, [proc[p] EXCEPT !.holds = FALSE])
IgnoresSigterm(p) == Alive(p) /\ ~proc[p].deaf /\ Becomes(p, [proc[p] EXCEPT !.deaf = TRUE])
Exits(p) == (Alive(p) \/ (shell = "leads" /\ proc[p].live)) /\ Becomes(p, Ended(p))

Prints(p) ==
    /\ shell # "forked" /\ proc[p].live /\ proc[p].holds /\ printed < MaxBytes
    /\ \E n \in 1 .. MaxBytes - printed : bytes' = bytes + n /\ printed' = printed + n
    /\ UNCHANGED <<call, flag, loop, passed, shell, proc>>

Command ==
    /\ at # "done"
    /\ \/ Setsid \/ Exec
       \/ \E p \in Kids \cup {Shell} : ClosesOutput(p) \/ IgnoresSigterm(p) \/ Exits(p) \/ Prints(p)
       \/ \E p \in Kids \cup {Shell}, k \in Kids : Forks(p, k)
       \/ \E k \in Kids : LeavesSession(k)

\* Another thread forks between pipe() and the close of the write end.
StrangerStarts ==
    /\ at \in {"opened", "forked"} /\ proc[Stranger] = NoProcess
    /\ Becomes(Stranger, [NoProcess EXCEPT !.live = TRUE, !.holds = TRUE])
StrangerEnds == at # "done" /\ proc[Stranger].live /\ Becomes(Stranger, NoProcess)

RequestCancel ==
    /\ at # "done" /\ ~flag
    /\ flag' = TRUE
    /\ UNCHANGED <<call, loop, passed, tree>>

\* A deadline passes, counted from the start, the SIGTERM or the SIGKILL.
Tick ==
    /\ at \in {"check", "kill", "poll", "give"}
    /\ \E d \in {"timeout", "grace", "patience"} \ passed :
        /\ d = "grace" => halt # "none"
        /\ d = "patience" => killed
        /\ passed' = passed \cup {d}
    /\ UNCHANGED <<call, flag, loop, tree>>

Returned == at = "done" /\ UNCHANGED commandVars

CommandNext ==
    Parent \/ Command \/ StrangerStarts \/ StrangerEnds \/ RequestCancel \/ Tick \/ Returned

\* The thread runs and time passes; the command does what it likes.
CommandSpec ==
    /\ CommandInit /\ [][CommandNext]_commandVars
    /\ WF_commandVars(Parent) /\ WF_commandVars(Tick)

-----------------------------------------------------------------------------
(* Properties *)

\* "a timeout or a cancel stops the whole process tree, grandchildren included"
\* (process.hpp): nothing of the group is alive when a stopped command returns.
TreeIsStopped ==
    at = "done" /\ halt # "none" => \A p \in Processes : proc[p].group => ~proc[p].live

\* The output is what the command printed, up to the cap, with at most one mark
\* and that only when something was cut; all of it, unless the command was stopped.
OutputExact ==
    outcome = "ran" =>
        /\ output.kept = Min({output.got, Cap})
        /\ output.marks \in {0, 1} /\ (output.marks = 1 => output.got > Cap)
        /\ halt = "none" => output.got = printed

\* What run_command returns is true of the processes it started.
CommandsExact == CommandTypeOK /\ TreeIsStopped /\ OutputExact

\* Every call returns, unless its caller asked for no timeout and does not cancel
\* it; whatever the processes do that have the pipe.
CommandsEnd == (given # 0 \/ (watched /\ flag)) ~> at = "done"

\* A call returns when the processes of its command are gone.  It does not hold,
\* see README.md.
EndsWithItsCommand ==
    (at = "check" /\ \A p \in Kids \cup {Shell} : ~proc[p].live) ~> at = "done"
=============================================================================
