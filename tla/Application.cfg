SPECIFICATION FairSpec
CONSTANTS
    left = left
    right = right
    floor = floor
    foot = foot
    noise = noise
    Point <- MCPoint
    Scene <- MCScene
    Garbage <- noise
INVARIANTS
    TypeOK
    FramesHaveHomography
PROPERTIES
    WizardEnds
    StillFloorUntouched
CHECK_DEADLOCK FALSE
