SPECIFICATION Spec
CONSTANTS
    VpnStates = {"Disconnected", "Connected"}
    Pieces = 2
    MaxCommands = 2
    MaxNotes = 2
    MaxBreaks = 1
INVARIANTS TypeOK AllReadIsCarried OnlyCutNotesAreLost ShownUnlessCut
PROPERTIES CommandsInOrder CommandsArrive
CHECK_DEADLOCK FALSE
