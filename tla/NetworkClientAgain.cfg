SPECIFICATION Spec
CONSTANTS
    MaxConnects = 2
    MaxSends = 2
    MaxStops = 1
INVARIANT QueuedIsWritten
CHECK_DEADLOCK FALSE
