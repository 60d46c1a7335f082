SPECIFICATION UpdateSpec
CONSTANTS
    Updaters = {u1}
    Versions = {1, 2}
    Broken = {}
    MaxMarkers = 1
    MaxFaults = 0
    None = None
    Corrupt = Corrupt
INVARIANTS RollsBackFailedBoots
CHECK_DEADLOCK FALSE
