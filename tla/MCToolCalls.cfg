CONSTANTS
    Callers = {t1, t2}
    Main = Main
    None = None
    Capacity = 1
    Backlog = 1
    MaxId = 4
    MaxPages = 2
    Cursors = {k1}
    Chatter = {"ping", "invalid"}
    Racing = FALSE
    Kids = {p1}
    Shell = Shell
    Stranger = Stranger
    Timeouts <- MCTimeouts
    Absent = Absent
    Cap = 1
    ReadSize = 2
    MaxBytes = 2
SPECIFICATION MCSpec
INVARIANTS
    RepliesAreOwn
    Lifetimes
    CommandsExact
PROPERTIES
    ConnectionExact
    ToolCallsReturn
