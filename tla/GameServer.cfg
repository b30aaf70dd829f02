SPECIFICATION FairSpec
CONSTANTS
    Client = {c1, c2}
    Own = c1
    MaxStops = 2
INVARIANTS
    TypeOK
    BroadcastHasServer
    OwnIsGreeted
PROPERTIES
    LoopEnds
CHECK_DEADLOCK FALSE
