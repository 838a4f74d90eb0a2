SPECIFICATION FairSpec
CONSTANTS
    Writers = {w1, w2}
    Calls <- Mixed
    Kinds = {"tcp", "tls", "udp", "ws"}
    MaxPacketLen = 2
    Limit = 3
    Configured = {long}
    PerCall = {short}
    w1 = w1
    w2 = w2
    long = long
    short = short
CHECK_DEADLOCK FALSE
INVARIANTS
    FragmentsContiguous
    MessagesWhole
    CountsHonest
    TimeoutContained
PROPERTY
    CallsReturn
