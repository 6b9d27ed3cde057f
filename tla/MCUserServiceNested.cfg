CONSTANTS
    None = None
    Thread = {t1, t2}
    Connection = {c1, c2}
    Name = {ann}
    Password = {p1}
    MayFail = TRUE
SPECIFICATION Spec
INVARIANTS
    NoCircularWait
