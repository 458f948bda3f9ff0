SPECIFICATION Spec
CONSTANTS
    Procs = {p1, p2, p3, p4}
    NoProc = NoProc
    Hosts = {a, b}
    NoHost = NoHost
    Ports = {1}
    MaxPort = 2
    MaxStarts = 2
    MaxEnds = 2
    MaxCrashes = 1
INVARIANT ProxyIsKept
CHECK_DEADLOCK FALSE
