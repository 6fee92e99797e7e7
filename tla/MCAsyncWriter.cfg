CONSTANTS
    Runs = {r1, r2}
    Capacity = 2
    MaxWrites = 2
    Refusable <- AllWrites
SPECIFICATION FairSpec
INVARIANTS
    NoLostWakeup
    NothingIsForgotten
PROPERTIES
    QueueSpec
    CallsReturn
