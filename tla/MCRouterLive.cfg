SPECIFICATION FairSpec
CONSTANTS
    c1 = c1
    c2 = c2
    i1 = i1
    i2 = i2
    k1 = k1
    k2 = k2
    p1 = p1
    NoConn = NoConn
    IdOf <- TwoIds
    PartOf <- MCPartOf
    Boot <- BootOne
    Conn = {c1}
    ConsumerID = {i1}
    Key = {k1, k2}
    Partition = {p1}
    MaxRetries = 3
    DLQEnabled = FALSE
    Part = p1
    Batchers = {}
    Streams = {}
    Flaky = {}
    FlushFlaky = {}
    DLQFlaky = FALSE
    Poison = {}
    Late = {}
    Quits = {c1}
    Leavers = {}
    MaxSeq = 2
    BatchLimit = 2
    PoisonStreakLimit = 2
    MaxCrashes = 0
PROPERTIES
    EventuallySettled
CHECK_DEADLOCK FALSE
