SPECIFICATION Spec
CONSTANTS
    Kinds = {"tcp"}
    Closers = {c1, c2}
    Handlers = {}
    c1 = c1
    c2 = c2
CHECK_DEADLOCK FALSE
SYMMETRY Interchangeable
INVARIANT EveryCloseWaits
