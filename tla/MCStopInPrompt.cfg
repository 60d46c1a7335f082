SPECIFICATION FairSpec
CONSTANTS
    Msgs = {m1}
    Requests = {c1}
    Questions = {}
    NoMsg = NoMsg
    MaxOut = 2
    MaxNotices = 0
    QueueCap = 2
    QueueMod = 4
    MaxPending = 1
    LongLines = TRUE
    MaxSpawns = 1
    MaxStops = 1
    MaxKills = 0
    MaxReloads = 0
PROPERTIES StopReachesClaude
CHECK_DEADLOCK FALSE
