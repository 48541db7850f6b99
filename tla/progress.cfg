SPECIFICATION FairSpec
CONSTANTS
    IPs = {ip1}
    Targets = {t1}
    Serials = {s1}
    Procs = {p1, p2}
    Files = {f1}
    sanitizeName <- SharedFile
    Loopback = {}
    ConfigClients = {ip1}
    Commands = {"revoke", "reissue", "block"}
    None = None
    MaxCommands = 3
    MaxFaults = 1
    MaxResets = 0
    MaxTick = 1
    ClockSteps = FALSE
PROPERTIES
    EveryProcessEnds
    RevocationIsPublished
CHECK_DEADLOCK FALSE
