SPECIFICATION Spec
CONSTANTS
    Columns <- MCColumns
    Radius = 2
    Grain = 2
    Low = 2
    High = 238
    Goal = 236
    MaxSpeed = 55
    Accelerations <- MCAccelerations
    Brake = 10
    Second = 20
    Frames <- MCFrames
INVARIANTS
    TypeOK
PROPERTIES
    CoastersDoNotSink
    OnlyPushedUnitsBreak
