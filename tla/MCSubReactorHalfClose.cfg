CONSTANTS
    alice = alice
    bob = bob
    worker = worker
    None = None
    Conn = {alice, bob}
    FD = {0}
    MAX_FD = 1
    N = 1
    Timeout = 1
    Worker = {worker}
    MaxTasks = 1
    PoolModes = {FALSE}
    Endings = {"fin", "rst"}
SPECIFICATION Spec
INVARIANTS
    UnsentIsListening
