SPECIFICATION MCSpec
CONSTANTS
    ka = ka
    kb = kb
    s1 = s1
    s2 = s2
    p1 = p1
    p2 = p2
    ApiKey = {ka, kb}
    Acl <- MCAcl
    Session = {"one", "two"}
    SessionKey <- MCSessionKey
    SubId = {s1, s2}
    MatchConfigs <- MCMatchConfigs
    Partition = {p1, p2}
    Log <- MCLog
    Event <- MCEvent
    RingSize = 2
    MaxSubscriptions = 1
    DrainMax = 1
    IndexEvent <- MCEvent
    IndexAcl <- MCAcl
    RecentIndexSize = 2
    MaxPuts = 5
    AuditKeep = 2
    AuditMaxLines = 1
    MaxRecords = 5
    MaxGroups = 5
    StreamLog <- MCStreamLog
    StreamFilter <- MCStreamFilter
    ColFilterSets <- MCColFilterSets
    ChanSize = 1
    BufSize = 3
    MaxRereads = 1
    Caller = {"m", "n"}
    Slot = {1, 2, 3}
    CallerOf <- MCCallerOf
    EnrichConcurrency = 1
    CircuitThreshold = 2
INVARIANTS
    RingAccounts
    NudgeIsOnItsWay
    SubscriptionHygiene
    ToolsAnswerRight
    RulesAgree
    StreamRight
    EnrichmentSafe
PROPERTIES
    AuditLosesOnlyOldest
    StreamsDeliver
    CircuitRecovers
CHECK_DEADLOCK FALSE
