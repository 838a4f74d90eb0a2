SPECIFICATION FairSpec
CONSTANTS
    Kinds = {"tcp", "udp", "ws"}
    Closers = {c1, c2, c3}
    Handlers = {h1, h2}
    c1 = c1
    c2 = c2
    c3 = c3
    h1 = h1
    h2 = h2
CHECK_DEADLOCK FALSE
INVARIANTS
    TypeOK
    ListenerNotLeaked
    FirstCloseWaits
PROPERTY
    CloseTerminates
