CONSTANTS
    NRefs = 2
    MaxAttempts = 2
    MaxArchives = 1
    MaxBadRefs = 1
    MaxStops = 1
    Callers = {c1, c2}
    MaxEntries = 4
    MaxTokens = 3
    HeadKeep = 1
    TailKeep = 1
    MaxDeaths = 1
    Requests = {q1, q2}
    AnyPath = AnyPath
    MaxRecords = 2
    MaxCommands = 2
    MaxWriteErrors = 1
    MaxTurns = 2
    MaxSessions = 2
    MaxQuestions = 2
    McpCalls = {k1, k2}
    MaxReconnects = 2
    MaxBreaks = 2
    MaxPrompts = 3
    Invocations = {p1, p2}
    NLegacy = 2
    Loaders = {l1, l2}
    MaxPromptLines = 3
    MaxRequests = 2
SPECIFICATION HostSpec
INVARIANTS
    HostTypeOK
    
    
PROPERTIES
    
    HostProgress
CHECK_DEADLOCK FALSE
