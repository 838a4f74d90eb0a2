CONSTANTS
    w1 = w1
    Writers = {w1}
    Stalls = {0, 2}
    RTimeout = 1
    WTimeout = 1
    BlockLen = 2
    InBytes = 0
    Sends = 1
    Window = 1
SPECIFICATION DirectSpec
PROPERTY CloseConnReturns
CHECK_DEADLOCK FALSE
