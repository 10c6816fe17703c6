SPECIFICATION Spec
CONSTANTS
    Services = {"breaker"}
    c1 = c1
    c2 = c2
    c3 = c3
    r1 = r1
    r2 = r2
    u1 = u1
    u2 = u2
    u3 = u3
    t1 = t1
    t2 = t2
    g1 = g1
    all = all
    s1 = s1
    s2 = s2
    Caller <- MCCaller
    Threshold = 2
    OpenTime = 2
    MaxCount = 5
    Never = Never
    Request <- MCRequest
    MaxHops = 2
    Limit = 2
    MaxFails = 4
    Client <- MCClient
    Providers = 2
    Budget = 0
    MaxCalls = 3
    MaxSpent = 1
    Asker <- MCAsker
    Utterance <- MCUtterance
    NoText = NoText
    Similarity <- MCSimilarity
    SimThreshold = 2
    CacheTTL = 1
    Visitor <- MCVisitor
    Tenant <- MCTenant
    Region <- MCRegion
    Global = all
    Stream <- MCStream
    Address <- MCAddress
    Configs <- MCConfigs
    MaxGranted = 3
    User <- MCUser
    CallId <- MCCallId
    DailyBudget = 1
    MonthlyBudget = 2
    UserLimit = 1
    Costs = {0, 1}
    MaxMonth = 3
    Socket <- MCSocket
    DrainTime = 2
    Instance <- MCInstance
    Text <- MCText
    None = None
    LockTTL = 2
    SessionTTL = 3
    Attempts = 3
    MaxDelay = 2
    Record <- MCRecord
    Malformed <- MCMalformed
    Twin <- MCTwin
    MinSpeech = 1
    MaxSilence = 2
    MaxAge = 3
    MaxChunks = 4
    Unset = Unset
    Wire <- MCWire
    Speaker <- MCSpeaker
    Durations = {2}
    MaxMedia = 2
    NoWire = NoWire
    SimCall <- MCSimCall
    Segments = 2
    TriggerEvery = 1
    DedupWindow = 2
    Ready = Ready
    Feeder <- MCClient
    Sizes = {1, 2}
    MinAudio = 2
    MaxAudio = 6
INVARIANT OneTrial
CHECK_DEADLOCK FALSE
