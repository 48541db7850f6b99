SPECIFICATION FairSpec
CONSTANTS
    IPs = {m, c1}
    Targets = {app}
    Serials = {s1, s2, s3, s4}
    Founder = m
    Issued = {}
    Enrolled = {}
    MaxBody = 20
    None = None
    MaxCrashes = 1
    MaxLosses = 1
    MaxAdmin = 1
    MaxRevocations = 1
    MaxRefreshes = 0
    MaxPromotions = 0
    PingBound = 4
INVARIANTS
    CacheCoversSynced
    RegisteredIsAuthorised
PROPERTIES
    RevocationReachesFollowers
