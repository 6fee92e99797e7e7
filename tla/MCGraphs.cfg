CONSTANTS
    Size = 4
    Times = 2
    MaxSteps = 24
    s1 = s1
    s2 = s2
    f1 = f1
    Servers = {s1, s2}
    Functions = {f1}
    Documents <- MCDocuments
    Wants <- MCWants
    Layers = {"load", "values", "chat"}
    t1 = t1
    t2 = t2
    Threads = {t1, t2}
    TempKeys = {"temp:human_input"}
    ScopedKeys = {"user:u", "user:v"}
    KeyOrder <- MCKeyOrder
    Values = {1}
    MaxFaults = 1
    None = None
    Models = {"m1", "m2"}
    Default = "m1"
    Texts <- MCTexts
    MaxChats = 2
    MaxTurns = 2
SYMMETRY ThreadSymmetry
SPECIFICATION MCSpec
INVARIANTS
    LoadsAsWritten
    FailedLoadLeavesNothing
    ValuesKept
    WorkflowsExact
    ChatsExact
CHECK_DEADLOCK FALSE
