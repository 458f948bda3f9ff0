SPECIFICATION Spec
CONSTANTS
    Servers <- MCServers
    Encryptions <- MCEncryptions
    Supports <- MCSupports
    NodeLists <- MCNodeLists
    HubLists <- MCHubLists
    NoServer = NoServer
    AutoConnect = TRUE
INVARIANTS TypeOK MenuIsTrue ChoiceIsKept CardShowsChoice
PROPERTIES JumpMoves
VIEW ChoiceView
