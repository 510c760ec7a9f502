SPECIFICATION FairCallSpec
CONSTANTS
    None = None
    StateIds = {1, 2, 3, 4, 9}
    ProvIds = {11, 12, 13, 14, 19}
    Workers = {1, 2}
    Boots = {1, 2}
    Attrs = {"model"}
    Environments <- NoEnvOnly
    Requests <- Nothing
    Candidates <- Nothing
    Claims <- Nothing
    Threads = {}
    Generations = {}
    MovingDims = {}
    MaxEpoch = 1
    Graphs <- Nothing
    Snapshots <- Nothing
    Files <- AllFiles
    Formers <- AnyFormer
    MaxRecords = 3
    MaxVec = 2
    MaxString = 2
    Payloads <- Nothing
INVARIANTS
    MalformedReferencesRejected
CHECK_DEADLOCK FALSE
