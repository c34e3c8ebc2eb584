SPECIFICATION Spec
CONSTANTS
    c1 = c1
    c2 = c2
    i1 = i1
    i2 = i2
    k1 = k1
    k2 = k2
    p1 = p1
    NoConn = NoConn
    IdOf <- TwoIds
    PartOf <- MCPartOf
    Boot <- BootOne
    Conn = {c1, c2}
    ConsumerID = {i1, i2}
    Key = {k1}
    Partition = {p1}
    MaxRetries = 2
    DLQEnabled = TRUE
    Part = p1
    Batchers = {c1}
    Streams = {}
    Flaky = {}
    FlushFlaky = {c1}
    DLQFlaky = TRUE
    Poison = {1}
    Late = {c2}
    Quits = {}
    Leavers = {i2}
    MaxSeq = 3
    BatchLimit = 2
    PoisonStreakLimit = 2
    MaxCrashes = 1
INVARIANTS
    FlushedBeforePersisted
PROPERTIES
    HealthyGetNoDuplicates
CHECK_DEADLOCK FALSE
