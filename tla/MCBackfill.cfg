SPECIFICATION Spec
CONSTANTS
    Writers = {"wal", "backfill"}
    PartitionOf <- MCPartitionOf
    Locked = TRUE
    ChunkSize = 1
    Keys = {1, 2}
    Txs <- MCTxs
    PageSizes = {2}
    BackfillBatchSize = 2
    MaxIndexKeys = 1
    MaxTx = 2
    MaxFaults = 1
INVARIANTS
    SnapshotComplete
    IndexExact
PROPERTIES
    GrowsAtEnd
    SnapshotFinishes
CHECK_DEADLOCK FALSE
