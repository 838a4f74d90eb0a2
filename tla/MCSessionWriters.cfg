SPECIFICATION Spec
CONSTANTS
    Closers = {}
    CronTasks = {}
    MsgTasks = {m1}
    Writers = {w1}
    RawWriters = {b1}
    Resetters = {r1, r2}
    TaskPool = FALSE
    MaxGen = 2
SYMMETRY Interchangeable
INVARIANTS
    SuccessMeansFinished
PROPERTIES
    ClearsOnlyWhenQuiet
