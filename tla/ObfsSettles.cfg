SPECIFICATION Spec
CONSTANTS
    Procs = {p1, p2, p3, p4, p5}
    NoProc = NoProc
    Hosts = {a, b}
    NoHost = NoHost
    Ports = {1}
    MaxPort = 2
    MaxStarts = 3
    MaxEnds = 2
    MaxCrashes = 1
INVARIANTS TypeOK RightProxy OneProxy WaitsForNone ProxyOrNews
PROPERTIES WaitEnds ProxySettles
CHECK_DEADLOCK FALSE
