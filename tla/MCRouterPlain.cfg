SPECIFICATION Spec
CONSTANTS
    c1 = c1
    c2 = c2
    i1 = i1
    i2 = i2
    k1 = k1
    k2 = k2
    p1 = p1
    NoConn = NoConn
    IdOf <- TwoIds
    PartOf <- MCPartOf
    Boot <- BootOne
    Conn = {c1}
    ConsumerID = {i1}
    Key = {k1, k2}
    Partition = {p1}
    MaxRetries = 2
    DLQEnabled = TRUE
    Part = p1
    Batchers = {}
    Streams = {}
    Flaky = {c1}
    FlushFlaky = {}
    DLQFlaky = FALSE
    Poison = {}
    Late = {}
    Quits = {}
    Leavers = {}
    MaxSeq = 3
    BatchLimit = 2
    PoisonStreakLimit = 2
    MaxCrashes = 0
INVARIANTS
    NothingSkipped
PROPERTIES
    DispatchSavesAreSafe
    ImplementsOrderedDelivery
SYMMETRY KeySymmetry
CHECK_DEADLOCK FALSE
