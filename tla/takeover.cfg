SPECIFICATION FairSpec
CONSTANTS
    IPs = {m, c1, c2}
    Targets = {app}
    Serials = {s1, s2}
    Founder = m
    Issued = {}
    Enrolled = {c1, c2}
    MaxBody = 20
    None = None
    MaxCrashes = 1
    MaxLosses = 0
    MaxAdmin = 0
    MaxRevocations = 1
    MaxRefreshes = 1
    MaxPromotions = 1
    PingBound = 4
INVARIANTS
    PromotionKeepsSynced
PROPERTIES
    FilesMoveForward
    FollowersConverge
