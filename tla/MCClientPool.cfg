SPECIFICATION FairSpec
CONSTANTS
    Number = 2
    MaxAttempts = 2
    Slots = {s1, s2, s3}
    Loops = {l1, l2}
    Runners = {r1}
    s1 = s1
    s2 = s2
    s3 = s3
    l1 = l1
    l2 = l2
    r1 = r1
CHECK_DEADLOCK FALSE
INVARIANTS
    SingleFlight
    PoolBounded
    NoLeakedSession
    IdlePoolIsFull
PROPERTY
    CloseEndsLoop
