SPECIFICATION CoordSpec
CONSTANTS
    None = None
    StateIds = {1, 2}
    ProvIds = {1, 2}
    Workers = {1, 2}
    Boots = {1, 2}
    Attrs = {}
    Environments <- NoEnvOnly
    Requests <- NoRequests
    Candidates <- ProofRecords
    Claims <- LateClaims
    Threads = {"a1", "ctl"}
    Generations = {1, 2}
    MovingDims = {}
    MaxEpoch = 10
    Scenarios <- Late
    MaxRejected = 1
PROPERTIES
    CurrentWorkerIsNotRefused
CHECK_DEADLOCK FALSE
