CONSTANTS
    Subscribers = {}
    Registrars = {h1, h2}
    Ids = {k1}
    NoId = NoId
SPECIFICATION HookSpec
INVARIANT
    BlockRefusesTurn
CHECK_DEADLOCK FALSE
