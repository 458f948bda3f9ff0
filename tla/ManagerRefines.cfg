SPECIFICATION FairSpec
CONSTANTS
    Hosts = {h1}
    NoHost = NoHost
    Faults = {"obfs", "config"}
    LogLines = {"TunErr"}
    MaxFetches = 1
    MaxPolls = 1
    MaxShots = 1
    MaxCommands = 1
    MaxCrashes = 0
PROPERTIES
    ImplementsInterface
    Watchdog
CHECK_DEADLOCK FALSE
