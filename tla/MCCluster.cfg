SPECIFICATION MCSpec
CONSTANTS
    Nodes = {"n1", "n2"}
    None = "none"
    Parts = {1}
    MaxSeq = 2
    MaxCrashes = 1
    MaxLate = 1
    MaxRevs = 3
    Publishers = {"n1", "n2"}
    MaxChange = 2
    MaxBatch = 2
    MaxLost = 2
INVARIANTS
    EpochsFence
    NothingSkippedInCluster
    AppendTellsTruth
PROPERTIES
    LeaderEpochsGrow
    AdoptedInFocus
    ConfirmedInFocus
CHECK_DEADLOCK FALSE
