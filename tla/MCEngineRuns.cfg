CONSTANTS
    Sessions = {s1, s2}
    Runs = {r1, r2, r3}
    Spare = {r3}
    Skills = {k1}
    NoRun = NoRun
    MaxGen = 2
    MaxTurn = 3
    always = always
    asked = asked
    known = known
    hosted = hosted
    retired = retired
    SkillNames <- MCNames
    Registered <- MCRegistered
    Deprecated <- MCDeprecated
    Mode <- MCMode
    Tokens <- MCTokens
    Inputs <- MCInputs
    TtlTurns = 2
    MaxSlots = 2
    TopK = 1
    T0Limit = 4
    T1Limit = 2
    LastTurn = 3
    LoadsAtOnce = 1
SPECIFICATION MCSpec
INVARIANTS
    RunsOK
    SkillsSound
    AtMostOneLiveRun
    LiveRunIsReachable
    OneAttendedExecution
    DoneImpliesReplyStored
    DisposeCancelsRuns
PROPERTIES
    SupersededByLiveRun
    BegunRunEnds
CHECK_DEADLOCK FALSE
