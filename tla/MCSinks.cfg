SPECIFICATION MCSpec
CONSTANTS
    k1 = k1
    k2 = k2
    t1 = t1
    t2 = t2
    u1 = u1
    u2 = u2
    None = None
    Empty = Empty
    Kinds = {"webhook", "vector", "sqs", "kafka", "nats", "rabbitmq", "pubsub"}
    N = 3
    Key = {k1, k2}
    Texts = {t1, t2}
    Target = {u1, u2}
    Poison = {2}
    Window = 3
    ChunkMax = 2
    PoisonStreakLimit = 2
    HasDLQ = TRUE
    MaxFaults = 2
INVARIANTS
    NothingLost
    VectorConverges
PROPERTIES
    SerialSinksKeepKeyOrder
    EveryEventPasses
CHECK_DEADLOCK FALSE
