SPECIFICATION Spec
CONSTANTS
    Accounts = {u1, u2}
    MaxLogins = 1
    MaxFaults = 0
CHECK_DEADLOCK FALSE
INVARIANT ConnectsWithServers
