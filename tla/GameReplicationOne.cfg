SPECIFICATION FairSpec
CONSTANTS
    c1 = c1
    c2 = c2
    NoClient = NoClient
    Client <- OnePlayer
    NItems = 3
    Owner <- TwoUnitsAndObstacle
    FrameUnits = 2
    MaxTicks = 1
    MaxFrames = 2
    Backlog = 2
INVARIANTS
    TypeOK
    CleanTouchMovesTouched
    OneUnitHighlighted
PROPERTIES
    Converges
