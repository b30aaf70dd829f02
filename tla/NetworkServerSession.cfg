SPECIFICATION FairSpec
CONSTANTS
    m1 = m1
    m2 = m2
    Damaged = Damaged
    Message <- MCMessage
    MaxDeliveries = 3
    Window = 3
INVARIANTS
    TypeOK
    OneWriteInFlight
    BufferIsFront
    QueuedIsWritten
    NothingSkipped
PROPERTIES
    StreamSafety
    EventuallyReceived
CHECK_DEADLOCK FALSE
