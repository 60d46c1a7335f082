SPECIFICATION Spec
CONSTANTS
    Msgs = {m1}
    Requests = {}
    Questions = {}
    NoMsg = NoMsg
    MaxOut = 1
    MaxNotices = 1
    QueueCap = 1
    QueueMod = 3
    MaxPending = 1
    LongLines = FALSE
    MaxSpawns = 1
    MaxStops = 0
    MaxKills = 1
    MaxReloads = 0
INVARIANTS RunningHasOwner
CHECK_DEADLOCK FALSE
