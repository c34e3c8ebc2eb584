SPECIFICATION MCSpec
CONSTANTS
    x1 = x1
    x2 = x2
    Txn = {x1, x2}
    RowsOf <- MCRowsOf
    Streamed = {x1}
    Aborts = {x1}
    Mixed = FALSE
    Unit = 3
    Gap = 2
    MsgLen = 1
    Threshold = 2
    Fragile = FALSE
    MaxFaults = 2
    MaxLosses = 1
    i1 = i1
    i2 = i2
    p1 = p1
    ConsumerID = {i1, i2}
    Partition = {p1}
    Deletable = {i2}
    MaxSaves = 4
    MaxStops = 1
INVARIANTS NoLoss
PROPERTIES ImplementsChangeLog ImplementsRegister EventuallyLogged
CHECK_DEADLOCK FALSE
