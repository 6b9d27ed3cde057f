CONSTANTS
    None = None
    Thread = {t1, t2}
    Connection = {c1, c2, c3}
    Name = {ann}
    Password = {p1}
    MayFail = TRUE
SPECIFICATION Spec
INVARIANTS
    TypeOK
    ConnectionsConserved
    NoIdleConnection
    NoCircularWait
PROPERTIES
    RequestsComplete
