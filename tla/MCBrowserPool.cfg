CONSTANTS
    Requests = {q1, q2, q3, q4}
    NoContext = NoContext
    MaxConcurrency = 2
    MaxCrashes = 1
    Fetches = {f1, f2}
    Burst = 1
    TokenCost = 3
    Refill = 2
    RequestMs = 2
    WaitMs = 1
    PauseMs = 1
    StopMs = 1
    Permits = 1
    Processes = {p1, p2}
    PointIds = {i1, i2}
    IndexLimit = 1
    MaxUpserts = 2
    MaxFaults = 1
    MaxMessages = 3
    ShellCalls = {1, 2}
    PatchCalls = {1, 2}
    MaxFileFaults = 1
SPECIFICATION ServerSpec
INVARIANTS
    ServerOK
    ContextsBounded
    
    StepSound
    
PROPERTIES
    ServedInOrder
    ImplementsPermitPool
    
CHECK_DEADLOCK FALSE
