CONSTANTS
    Callers = {t1, t2}
    Main = Main
    None = None
    Capacity = 1
    Backlog = 1
    MaxId = 4
    MaxPages = 2
    Cursors = {k1}
    Chatter = {}
    Racing = TRUE
SPECIFICATION Spec
INVARIANTS
    CallsHaveServer
