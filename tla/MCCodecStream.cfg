CONSTANTS
    w1 = w1
    Writers = {w1}
    Stalls = {0, 2}
    RTimeout = 1
    WTimeout = 1
    BlockLen = 2
    InBytes = 2
    Sends = 1
    Window = 1
SPECIFICATION FairSpec
INVARIANTS
    BrokenForCause
    WireWhole
CHECK_DEADLOCK FALSE
PROPERTIES
    StallEnds
    CloseEnds
