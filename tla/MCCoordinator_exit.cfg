SPECIFICATION FairCoordSpec
CONSTANTS
    None = None
    StateIds = {1, 2}
    ProvIds = {1, 2}
    Workers = {1, 2}
    Boots = {1, 2}
    Attrs = {}
    Environments <- NoEnvOnly
    Requests <- NoRequests
    Candidates <- ProofRecords
    Claims <- ProofClaims
    Threads = {"a1", "ctl"}
    Generations = {1, 2}
    MovingDims = {}
    MaxEpoch = 2
    Scenarios <- Closing
    MaxRejected = 1
PROPERTIES
    ShutdownEndsTheProcess
CHECK_DEADLOCK FALSE
