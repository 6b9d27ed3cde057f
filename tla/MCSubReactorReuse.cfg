CONSTANTS
    alice = alice
    bob = bob
    worker = worker
    None = None
    Conn = {alice, bob}
    FD = {0}
    MAX_FD = 1
    N = 2
    Timeout = 0
    Worker = {worker}
    MaxTasks = 1
    PoolModes = {TRUE, FALSE}
    Endings = {"fin"}
SPECIFICATION Spec
INVARIANTS
    FdHasOneHolder
    TimersMatchConnections
PROPERTIES
    AcceptedIsTaken
    IdleIsReaped
