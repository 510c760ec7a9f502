SPECIFICATION Spec
CONSTANTS
    None = None
    StateIds = {1, 2}
    ProvIds = {1, 2}
    Workers = {1}
    Boots = {1, 2}
    Attrs = {"model"}
    Environments <- NoEnvOnly
    Requests <- NoRequests
    Candidates <- RaceCandidates
    Claims <- RaceClaims
    Threads = {t1}
    Generations = {0, 2}
    MovingDims = {"AttemptId", "AttemptGeneration", "DependencyGeneration"}
    MaxEpoch = 2
INVARIANTS
    TypeOK
    RolledEpochNeverAdmitted
    SteadyCallIsFenced
