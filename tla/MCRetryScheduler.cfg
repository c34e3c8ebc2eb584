SPECIFICATION MCFairSpec
CONSTANTS
    c1 = c1
    i1 = i1
    k1 = k1
    k2 = k2
    k3 = k3
    p1 = p1
    p2 = p2
    NoConn = NoConn
    Conn = {c1}
    ConsumerID = {i1}
    IdOf <- MCIdOf
    Key = {k1, k2, k3}
    Partition = {p1, p2}
    PartOf <- MCPartOf
    MaxRetries = 2
    DLQEnabled = TRUE
    MaxSeq = 2
    MaxAdds = 3
INVARIANTS FloorIsLowestHead
PROPERTIES LeavesOnlySettled EveryGroupDrains
CHECK_DEADLOCK FALSE
