CONSTANTS
    alice = alice
    bob = bob
    worker = worker
    None = None
    Conn = {alice, bob}
    FD = {0, 1, 2}
    MAX_FD = 2
    N = 1
    Timeout = 1
    Worker = {worker}
    MaxTasks = 1
    PoolModes = {FALSE}
    Endings = {"rst"}
SPECIFICATION Spec
SYMMETRY Clients
INVARIANTS
    TypeOK
    FdHasOneHolder
    TimersMatchConnections
    CountIsExact
    NoLostWakeup
    EventsAreCurrent
    ClosingStaysSilent
    UnsentIsListening
