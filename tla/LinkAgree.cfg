SPECIFICATION FairSpec
CONSTANTS
    MaxRequests = 4
    MaxUnread = 2
    MaxDeaths = 2
INVARIANTS
    TypeOK
    ShownIsTold
PROPERTIES
    ShowsTheTruth
    CredentialsFirst
CHECK_DEADLOCK FALSE
