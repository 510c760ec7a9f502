SPECIFICATION Spec
CONSTANTS
    None = None
    StateIds = {1, 2, 3, 4}
    ProvIds = {1, 2, 3, 4}
    Workers = {1}
    Boots = {1}
    Attrs = {"model", "attempt"}
    Environments <- AllEnvs
    Requests <- AllRequests
    Candidates <- Lineages
    Claims <- NoClaims
    Threads = {}
    Generations = {}
    MovingDims = {}
    MaxEpoch = 1
INVARIANTS
    Lineage
    DerivedStructuresAgree
    ValidityIndexAgrees
    CausalChainUnbroken
    UnsoundLineageIsNamed
PROPERTIES
    VerdictsOnlyWorsen
    ImplementsLedger
