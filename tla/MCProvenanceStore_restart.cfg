SPECIFICATION Spec
CONSTANTS
    None = None
    StateIds = {1, 2}
    ProvIds = {1, 2}
    Workers = {1}
    Boots = {1, 2}
    Attrs = {"model"}
    Environments <- NoEnvOnly
    Requests <- NoRequests
    Candidates <- RaceCandidates
    Claims <- BootClaims
    Threads = {t1}
    Generations = {}
    MovingDims = {}
    MaxEpoch = 2
PROPERTY FencedOutStaysOut
