SPECIFICATION Spec
CONSTANTS
    IPs = {}
    Targets = {t1, t2}
    Serials = {s1, s2, s3}
    Procs = {p1, p2}
    Files = {f1}
    sanitizeName <- SharedFile
    Loopback = {}
    ConfigClients = {}
    Commands = {"revoke", "reissue", "issue"}
    None = None
    MaxCommands = 3
    MaxFaults = 1
    MaxResets = 0
    MaxTick = 1
    ClockSteps = TRUE
SYMMETRY Symmetry
INVARIANTS
    CacheCoversAcked
    CRLCoversAcked
    OnDiskNotSuperseded
    SubjectKeepsActiveCert
    OnDiskPairMatches
    NoDeadlock
PROPERTIES
    CRLMovesForward
