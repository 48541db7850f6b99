SPECIFICATION FairSpec
CONSTANTS
    Procs = {p1, p2}
    None = None
    MaxNames = 4
    MaxStops = 2
INVARIANTS
    CacheOpensWithConfigured
    ServesRestored
PROPERTIES
    RootNeverReplaced
    ActivationEnds
    SeedGetsShown
