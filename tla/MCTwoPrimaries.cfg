SPECIFICATION FairSpec
CONSTANTS
    Msgs = {m1, m2}
    Requests = {}
    Questions = {}
    NoMsg = NoMsg
    MaxOut = 2
    MaxNotices = 1
    QueueCap = 2
    QueueMod = 4
    MaxPending = 1
    LongLines = TRUE
    MaxSpawns = 1
    MaxStops = 0
    MaxKills = 0
    MaxReloads = 0
PROPERTIES ActiveInjectHasNoSender
CHECK_DEADLOCK FALSE
