SPECIFICATION FairSpec
CONSTANTS
    s1 = s1
    s2 = s2
    h1 = h1
    Sheep <- MCSheep
    Hunter <- MCHunter
    Place <- MCPlace
    Goal <- MCGoal
    Close <- MCClose
    Spawn <- MCSpawn
    Limit = 2
    MaxStarts = 2
INVARIANTS
    TypeOK
    GoalMeansArrived
    LivingAreUntouched
    ReportIsFinal
PROPERTIES
    StartedFinishes
    EarlyEndOnlyAcrossStart
CHECK_DEADLOCK FALSE
