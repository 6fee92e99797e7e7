---------------------------- MODULE MCToolCalls ----------------------------
(***************************************************************************)
(* The two ways in which a tool call leaves the process, side by side: the *)
(* tools of an MCP server (McpClient) and run_command (ShellCommand).  A   *)
(* behaviour is about one of them and the other does not move.             *)
(***************************************************************************)
EXTENDS McpClient, ShellCommand

VARIABLE kind   \* "mcp" or "command"

toolVars == <<kind, vars, commandVars>>

\* timeout_seconds: below zero, no timeout, and not given.
MCTimeouts == {-1, 0, Absent}

\* The call without a cancel flag is the one with the timeout below zero.  What
\* does not move starts in one way only; for run_command that is a call that
\* need not return.
MCInit ==
    /\ kind \in {"mcp", "command"} /\ Init /\ CommandInit
    /\ IF kind = "mcp" THEN given = 0 /\ ~watched ELSE watched = (given # -1)

McpMoves(A) == kind = "mcp" /\ A /\ UNCHANGED <<kind, commandVars>>
CommandMoves(A) == kind = "command" /\ A /\ UNCHANGED <<kind, vars>>

MCNext == McpMoves(Next) \/ CommandMoves(CommandNext)

\* The fairness of McpClient!FairSpec and of ShellCommand!CommandSpec: of two
\* steps in one condition only one can ever be enabled.
MCSpec ==
    /\ MCInit /\ [][MCNext]_toolVars
    /\ WF_toolVars(McpMoves(MainStep) \/ CommandMoves(Parent))
    /\ \A t \in Callers : WF_toolVars(McpMoves(CallStep(t)))
    /\ WF_toolVars(McpMoves(DeadlinePasses) \/ CommandMoves(Tick))
    /\ WF_toolVars(McpMoves(drain_stderr))

\* A tool call that leaves the process comes back: whatever an MCP server does
\* (call_tool, connect_mcp_server), and whatever the processes of a command do
\* (run_shell_posix).
ToolCallsReturn == CallsReturn /\ CommandsEnd
=============================================================================
