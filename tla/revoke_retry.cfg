SPECIFICATION RetrySpec
CONSTANTS
    IPs = {}
    Targets = {}
    Serials = {s1}
    Procs = {p1, p2}
    Files = {f1}
    sanitizeName <- SharedFile
    Loopback = {}
    ConfigClients = {}
    Commands = {"revoke"}
    None = None
    MaxCommands = 3
    MaxFaults = 1
    MaxResets = 0
    MaxTick = 1
    ClockSteps = FALSE
PROPERTIES
    RevocationReachesCRL
