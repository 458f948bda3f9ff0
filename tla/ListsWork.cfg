SPECIFICATION FairSpec
CONSTANTS
    Accounts = {u1, u2}
    MaxLogins = 2
    MaxFaults = 2
INVARIANTS
    TypeOK
    ServersAreAskedOnce
    ListsAreAsked
PROPERTIES
    AccountKeepsItsServers
    ListsArrive
    RequestsEnd
CHECK_DEADLOCK FALSE
