\* Starting, running and shutting down; admission, live applies and Shutdown.
SPECIFICATION ServeSpec
CONSTANTS
    s1 = s1
    s2 = s2
    c1 = c1
    c2 = c2
    c3 = c3
    lan = lan
    Sessions = {s1, s2}
    Clients = {c1, c2}
    QueueSize = 1
    Conns = {c1, c2, c3}
    IPs = {lan}
    NoIP = NoIP
    None = None
    IpOf <- Addresses
    Admissions <- TwoLimits
    Declared = {0, 1}
INVARIANTS ReadyMeansAccepting ExitLeavesNothing GateExact
PROPERTIES WipeComesLast SignalEnds ShutdownDrains
CHECK_DEADLOCK FALSE
