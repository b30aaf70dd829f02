SPECIFICATION Spec
CONSTANTS
    MaxConnects = 1
    MaxSends = 1
    MaxStops = 1
INVARIANT ConnectedMeansListening
CHECK_DEADLOCK FALSE
