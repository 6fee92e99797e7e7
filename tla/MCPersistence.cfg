CONSTANTS
    MaxEvents = 7
    Capacity = 2
    Happens = {"put", "crash"}
    MaxStep = 1
    MaxPuts = 2
    MaxBatches = 2
    MaxWrites = 3
    Backends = {"store", "sqlite", "memory"}
    c1 = c1
    c2 = c2
    k1 = k1
    k2 = k2
    Clients = {c1, c2}
    Keys = {k1, k2}
    Values = {1, 2}
    Missing = Missing
    MaxCached = 1
    Threshold = 2
    Scenes <- MCScenes
    Docs = {1, 2}
    Stores = {"memory", "sqlite"}
    Dims = {1, 2}
    MaxCalls = 4
    MaxFaults = 2
    ChunkSize = 2
    Overlap = 1
    MaxText = 6
    Layers = {"events", "checkpointer", "store", "index", "chunks"}
    Racing = FALSE
SPECIFICATION LayersSpec
INVARIANTS
    RecordsHold
    StoresCoherent
PROPERTY
    KvSpec
