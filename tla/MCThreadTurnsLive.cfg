SPECIFICATION FairSpec
CONSTANTS
    Msgs = {m1, m2}
    Requests = {c1, q1}
    Questions = {q1}
    NoMsg = NoMsg
    MaxOut = 2
    MaxNotices = 0
    QueueCap = 2
    QueueMod = 4
    MaxPending = 2
    LongLines = FALSE
    MaxSpawns = 1
    MaxStops = 1
    MaxKills = 0
    MaxReloads = 0
PROPERTIES HandlerReleased
CHECK_DEADLOCK FALSE
