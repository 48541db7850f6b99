SPECIFICATION Spec
CONSTANTS
    IPs = {ip1}
    Targets = {}
    Serials = {s1}
    Procs = {p1, p2}
    Files = {f1}
    sanitizeName <- SharedFile
    Loopback = {}
    ConfigClients = {}
    Commands = {"register", "block"}
    None = None
    MaxCommands = 2
    MaxFaults = 0
    MaxResets = 0
    MaxTick = 1
    ClockSteps = FALSE
INVARIANTS
    BlockedStayOut
