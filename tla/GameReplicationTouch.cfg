SPECIFICATION Spec
CONSTANTS
    c1 = c1
    c2 = c2
    NoClient = NoClient
    Client <- OnePlayer
    NItems = 3
    Owner <- TwoUnitsAndObstacle
    FrameUnits = 2
    MaxTicks = 1
    MaxFrames = 1
    Backlog = 2
INVARIANT TouchMovesTouched
