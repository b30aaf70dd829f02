SPECIFICATION FairSpec
CONSTANTS
    Item = {"u1", "u2"}
    MaxMessages = 4
CHECK_DEADLOCK FALSE
INVARIANTS
    TypeOK
    RegisteredAreAlive
    ShowsLatest
PROPERTIES
    DispatchEnds
