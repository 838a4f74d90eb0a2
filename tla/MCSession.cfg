SPECIFICATION FairSpec
CONSTANTS
    Closers = {c1}
    CronTasks = {t1}
    MsgTasks = {m1}
    Writers = {}
    RawWriters = {}
    Resetters = {r1}
    TaskPool = TRUE
    MaxGen = 1
INVARIANTS
    NoStaleWork
    CallbacksKeepFields
    NoLeakedTimer
    ReconnectNotLost
PROPERTIES
    ResetCompletes
    ClosedReleases
