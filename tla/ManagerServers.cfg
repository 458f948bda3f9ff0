SPECIFICATION Spec
CONSTANTS
    Hosts = {h1, h2}
    NoHost = NoHost
    Faults = {}
    LogLines = {}
    MaxFetches = 1
    MaxPolls = 1
    MaxShots = 1
    MaxCommands = 2
    MaxCrashes = 1
INVARIANTS
    RightServer
VIEW ServersView
SYMMETRY Symmetry
CHECK_DEADLOCK FALSE
