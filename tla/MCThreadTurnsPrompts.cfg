SPECIFICATION Spec
CONSTANTS
    Msgs = {m1, m2}
    Requests = {c1}
    Questions = {}
    NoMsg = NoMsg
    MaxOut = 1
    MaxNotices = 1
    QueueCap = 1
    QueueMod = 3
    MaxPending = 1
    LongLines = TRUE
    MaxSpawns = 2
    MaxStops = 1
    MaxKills = 0
    MaxReloads = 1
INVARIANTS NoOrphanRequest
SYMMETRY Symmetry
CHECK_DEADLOCK FALSE
