SPECIFICATION ServicesSpec
CONSTANTS
    Threads = {t1, t2}
    Tasks = {k1, k2, k3}
    Arcs = {a1, a2, a3}
    NoArc = NoArc
    SessionThreads = {th1, th2, th3}
    Callers = {c1, c2}
    NoCaller = NoCaller
    MaxSessions = 2
    MaxSpawns = 3
    MaxCalls = 4
    Updaters = {u1, u2}
    Versions = {1, 2, 3}
    Broken = {3}
    MaxMarkers = 2
    MaxFaults = 2
    None = None
    Corrupt = Corrupt
    Unowned = Unowned
    MaxBranches = 2
    MaxPosts = 2
    TaskIds = {x, y}
    MaxTurns = 2
    Tools = {"Bash", "Edit"}
    Symbols = {"rm_rf", "curl", "blank", "bar", "and", "semi", "dq", "sq", "esc", "nest", "paren", "colon_star"}
    MaxCommand = 4
INVARIANTS
    IInv ServicesTypeOK
    NeverOverLimit NoStrayProcess PresenceCounts
    LockIsOneUpdate  TasksKeepSessions RulesCoverRequest BranchRowsOwned
PROPERTIES
    MutexSpec EveryWaiterServed DeadSessionsLeave  BranchEnds
CHECK_DEADLOCK FALSE
