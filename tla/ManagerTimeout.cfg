SPECIFICATION Spec
CONSTANTS
    Hosts = {h1}
    NoHost = NoHost
    Faults = {}
    LogLines = {}
    MaxFetches = 1
    MaxPolls = 1
    MaxShots = 1
    MaxCommands = 3
    MaxCrashes = 0
PROPERTIES
    TimeoutMeansNotConnected
CHECK_DEADLOCK FALSE
