CONSTANTS
    a = a
    f = f
    z = z
    p = p
    q = q
    r = r
    b1 = b1
    b2 = b2
    End = End
    None = None
    Nodes = {a, f, z, p, q, r}
    Entry = a
    Fan = f
    AgentNodes = {a, p, r}
    Branches = {b1, b2}
    Edges <- FixedEdges
    Chain <- FixedChain
    Limit = 2
    MaxRouter = 1
    MaxStart = 2
    Modes = {"Sync", "Async", "Exit"}
    Scenarios = {{"crash"}, {"put", "crash"}, {"fail", "put", "crash"}, {"router", "crash", "noanswer"}}
    Layers = {"run", "turn"}
    AutoLength = 3
    AutoKeep = 2
    MaxRounds = 1
    Scenes <- AllScenes
SPECIFICATION MCSpec
INVARIANTS
    CheckpointsExact
    CompletedNotRepeated
    ConversationValid
    SentIsWellFormed
    NestingIsTransparent
