SPECIFICATION Spec
CONSTANTS
    Hosts = {h1}
    NoHost = NoHost
    Faults = {"ipv6", "config", "tmpfile", "obfs"}
    LogLines = {"InitCompleted"}
    MaxFetches = 1
    MaxPolls = 1
    MaxShots = 1
    MaxCommands = 2
    MaxCrashes = 0
INVARIANTS
    TypeOK
    Supervised
    QuietUntilStart
PROPERTIES
    AnswersCommands
VIEW SafetyView
CHECK_DEADLOCK FALSE
