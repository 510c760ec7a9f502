SPECIFICATION CommandSpec
CONSTANTS
    None = None
    s1 = s1
    s2 = s2
    c1 = c1
    c2 = c2
    c3 = c3
    c4 = c4
    l1 = l1
    Savers = {s1, s2, c1, c2, c3, c4}
    Loaders = {c1, c2, c3, c4, l1}
    MaxSaves = 4
    Settings <- AllSettings
    Commands <- TheCommands
    Turns <- CommandSettings
INVARIANTS
    AckedSnapshotSurvives
    LoadIsFresh
    LoadedWasSaved
    SucceededIsStored
PROPERTIES
    OnlyRefusalsLoseChanges
CHECK_DEADLOCK FALSE
