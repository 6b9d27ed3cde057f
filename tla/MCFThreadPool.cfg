CONSTANTS
    Workers = {w1, w2}
    Callers = {c1, c2}
    MaxTasks = 3
    None = None
SPECIFICATION Spec
CHECK_DEADLOCK FALSE
INVARIANTS
    TypeOK
    LeftAtMostSeen
    TasksConserved
    NoLostNotification
PROPERTIES
    TasksRun
    ShutdownCompletes
