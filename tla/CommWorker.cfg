SPECIFICATION CommSpec
CONSTANTS
    MaxClicks = 4
    MaxConns = 3
INVARIANTS
    FramesOfOneConnection
    UiAgrees
PROPERTIES
    UserDecides
    LossIsRetried
CHECK_DEADLOCK FALSE
