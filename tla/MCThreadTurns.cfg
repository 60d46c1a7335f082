SPECIFICATION Spec
CONSTANTS
    Msgs = {m1, m2, m3}
    Requests = {}
    Questions = {}
    NoMsg = NoMsg
    MaxOut = 1
    MaxNotices = 1
    QueueCap = 2
    QueueMod = 4
    MaxPending = 1
    LongLines = FALSE
    MaxSpawns = 2
    MaxStops = 0
    MaxKills = 1
    MaxReloads = 0
INVARIANTS TurnInv StatusOwned
PROPERTIES TurnsAreOneQueue
SYMMETRY Symmetry
CHECK_DEADLOCK FALSE
