SPECIFICATION Spec
CONSTANTS
    Writers = {"users", "orders"}
    PartitionOf <- MCPartitionOf
    DocKeys <- MCDocKeys
    OldOps <- MCOldOps
    Locked = FALSE
    ChunkSize = 1
    BatchSize = 2
    Reported = {"users"}
    Transactions = FALSE
    MaxOps = 3
    MaxFaults = 1
INVARIANTS
    NoHole
    DocumentOrder
PROPERTIES
    CatchesUp
CHECK_DEADLOCK FALSE
