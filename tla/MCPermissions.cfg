SPECIFICATION PermissionsSpec
CONSTANTS
    k1 = k1
    k2 = k2
    k3 = k3
    b1 = b1
    b2 = b2
    Bots = {b1, b2}
    Calls = {k1, k2, k3}
    BotOf <- MCBotOf
    Want <- MCWant
    Rules = {"one", "two", "x"}
    Foreign = {"x"}
    Inodes = {1, 2, 3, 4, 5, 6}
    NoInode = NoInode
    MaxTries = 2
    MaxEdits = 1
    MaxMishaps = 1
    r1 = r1
    r2 = r2
    Requests = {r1, r2}
    Tools = {"Bash", "Edit"}
    Clickers = {c1, c2}
    Nobody = Nobody
    ChannelCap = 1
    MaxClicks = 2
    MaxBreaks = 1
INVARIANTS
    PermissionsTypeOK EditsTheCurrentFile
    LabelsAgree AllowedByUser WaitHasDecider DecidedPromptsClose
PROPERTIES
    EditorRefinesFile EveryCallReturns EveryToolDecided
CHECK_DEADLOCK FALSE
