SPECIFICATION FairCoordSpec
CONSTANTS
    None = None
    StateIds = {1, 2}
    ProvIds = {1, 2}
    Workers = {1, 2}
    Boots = {1, 2}
    Attrs = {}
    Environments <- NoEnvOnly
    Requests <- NoRequests
    Candidates <- ProofRecords
    Claims <- ProofClaims
    Threads = {"a1", "a2", "ctl"}
    Generations = {1, 2}
    MovingDims = {"StateGeneration", "ProvenanceGeneration", "AttemptId", "AttemptGeneration"}
    MaxEpoch = 2
    Scenarios <- ProofScenarios
    MaxRejected = 1
INVARIANTS
    AckedWorkIsStored
    AccountingIsExact
    AnswersAreTrue
PROPERTIES
    CurrentWorkerIsNotRefused
    OldBootIsFenced
    RequestsAreAnswered
CHECK_DEADLOCK FALSE
