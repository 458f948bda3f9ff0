SPECIFICATION FairSpec
CONSTANTS
    PINGWORKERS_NUM = 2
    Sizes = {0, 2, 3}
    MaxLoads = 3
INVARIANTS
    TypeOK
    AtWork
    NoServerIsLost
PROPERTIES
    QueueIsWorkedOff
CHECK_DEADLOCK FALSE
