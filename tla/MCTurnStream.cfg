CONSTANTS
    Tasks = {t1, t2, t3}
    MaxConcurrency = 2
    Subscribers = {s1}
    Registrars = {h1, h2}
    Ids = {k1}
    NoId = NoId
    MaxCalls = 2
    MaxTurnRetries = 1
    MaxRetries = 2
    MaxJudgeCalls = 1
    CacheCapacity = 1
    SessionTurns = 3
SPECIFICATION AllSpec
INVARIANTS
    StreamWellFormed
CHECK_DEADLOCK FALSE
