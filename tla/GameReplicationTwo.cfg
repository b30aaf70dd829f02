SPECIFICATION Spec
CONSTANTS
    c1 = c1
    c2 = c2
    NoClient = NoClient
    Client <- TwoPlayers
    NItems = 2
    Owner <- UnitEach
    FrameUnits = 1
    MaxTicks = 1
    MaxFrames = 1
    Backlog = 2
INVARIANT OnlyOwnUnitsMove
PROPERTIES
    NeverBackwards
    ClientsFollow
SYMMETRY Symmetric
