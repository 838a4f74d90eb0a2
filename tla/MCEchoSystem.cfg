CONSTANTS
    c1 = c1
    c2 = c2
    c3 = c3
    c4 = c4
    a = a
    b = b
    p1 = p1
    p2 = p2
    Conns = {c1, c2, c3, c4}
    Clients = {a, b}
    ClientOf <- MCClientOf
    Ports = {p1, p2}
    Routes <- MCRoutes
    HeaderLen = 2
    MaxEchoStringLen = 1
    LenLimit = 4
    EchoStrings = {1, 2}
    MaxRequests <- MCMaxRequests
    SessionNumber = 1
SPECIFICATION FairSpec
INVARIANTS
    EchoFaithful
    SessionLimit
PROPERTIES
    DroppedEnds
    EndsForgotten
CHECK_DEADLOCK FALSE
