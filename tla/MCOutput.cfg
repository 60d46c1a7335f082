SPECIFICATION MCSpec
CONSTANTS
    Turns = {t1, t2}
    Background = bg
    Commands = {k1}
    MaxTodos = 1
    MaxMishaps = 1
    MaxLen = 20
    LineKinds <- SplitKinds
    MaxLines = 4
    MaxOdd = 2
    MaxBlocks = 2
    U64Max = 7
    LineForms = {"words", "fence", "tick", "row", "escaped", "rule", "details_open",
                 "summary", "details_close", "details_whole", "marker", "open_marker"}
    MaxTextLines = 4
    RowThreads = {th1}
    RowMessages = {m1, m2}
    RowCommands = {c1, c2}
    Directories = {d1, d2}
    MaxCrashes = 1
    Members = {u1, u2}
    Names = {n1, n2}
    Fetchers = {f1, f2}
    MaxChanges = 2
    Percents = {4, 91}
    MaxReports = 2
    MaxClock = 2
    MaxCount = 2
    MaxShards = 3
    MaxReleases = 3
    MaxRestarts = 1
    Handlers = {h1, h2, h3}
    MaxOffers = 2
    FileNames = {"a b", "a_b", "..", "z"}
    MaxFile = 2
    MaxTotal = 4
SYMMETRY TurnSymmetry
INVARIANTS
    ShownTypeOK LinesAreUnderstood TextIsKept
    NewTurnsSpeak TodosHaveOwners KicksAreSpentOnce RowsAgree NamesAreKnown
    NoticesAreCurrent MessagesAreComplete
PROPERTIES ClearedTurnsAreSilent
CHECK_DEADLOCK FALSE
