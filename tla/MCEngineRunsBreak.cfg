CONSTANTS
    Sessions = {s1}
    Runs = {r1, r2}
    Spare = {}
    Skills = {}
    NoRun = NoRun
    MaxGen = 2
    MaxTurn = 2
    always = always
    asked = asked
    known = known
    hosted = hosted
    retired = retired
    SkillNames <- MCNames
    Registered <- MCRegistered
    Deprecated <- MCDeprecated
    Mode <- MCMode
    Tokens <- MCTokens
    Inputs <- MCInputs
    TtlTurns = 2
    MaxSlots = 2
    TopK = 1
    T0Limit = 4
    T1Limit = 2
    LastTurn = 3
    LoadsAtOnce = 1
SPECIFICATION MCSpec
INVARIANTS
    OneExecutionPerSession
CHECK_DEADLOCK FALSE
