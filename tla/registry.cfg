SPECIFICATION Spec
CONSTANTS
    IPs = {ip1}
    Targets = {localhost}
    Serials = {s1, s2}
    Procs = {p1, p2}
    Files = {f1}
    sanitizeName <- SharedFile
    Loopback = {localhost}
    ConfigClients = {ip1}
    Commands = {"register", "enroll", "sign_csr", "sync_cache", "sync_crl", "block", "unblock", "deregister", "revoke", "master"}
    None = None
    MaxCommands = 3
    MaxFaults = 1
    MaxResets = 1
    MaxTick = 1
    ClockSteps = FALSE
SYMMETRY Symmetry
INVARIANTS
    DeliveredIsPublished
    SettledIsPublished
PROPERTIES
    Publishes
    CRLMovesForward
