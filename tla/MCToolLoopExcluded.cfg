CONSTANTS
    MaxSteps = 3
    Parallelism = 2
    RecoveryRetries = 1
    Batches <- MCBatches
    a1 = a1
    a2 = a2
    t1 = t1
    t2 = t2
    t3 = t3
    Agents = {a1, a2}
    Readers = {r1}
    Writers = {w1}
    MaxDispatches = 3
    DeepestLimit = 2
    Tools = {t1, t2, t3}
    Levels = {1, 2}
    Siblings <- MCSiblings
    RunShell = t1
    TopK = 1
    Policies = {p1, p2, p3}
    InScope = {p1, p2}
    Checks = {c1}
    MaxRegistered = 3
    Calls = {n1}
    Turns <- MCTurns
SPECIFICATION LoopSpec
INVARIANTS
    ExcludedNotOffered
CHECK_DEADLOCK FALSE
