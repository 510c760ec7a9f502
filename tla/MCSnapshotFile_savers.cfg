SPECIFICATION Spec
CONSTANTS
    None = None
    Savers = {s1, s2}
    Loaders = {}
    MaxSaves = 2
    Settings <- TwoSavers
INVARIANTS
    AtomicDurableReplacement
CHECK_DEADLOCK FALSE
