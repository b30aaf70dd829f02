SPECIFICATION FairSpec
CONSTANTS
    MaxConnects = 3
    MaxSends = 4
    MaxStops = 2
INVARIANTS
    TypeOK
    WritesAreSafe
    FirstConnectionWrites
PROPERTIES
    AddressNeverLost
    LossFreesThread
CHECK_DEADLOCK FALSE
