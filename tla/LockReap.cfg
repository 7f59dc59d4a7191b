CONSTANTS
    t1 = t1
    t2 = t2
    t3 = t3
    a = a
    b = b
    Txns = {t1, t2, t3}
    Keys = {a, b}
    Requests <- Mixed
    MaxGuards = 2
    Savepoints = {}
    None = None
SPECIFICATION Spec
INVARIANT WriteExclusive
CHECK_DEADLOCK FALSE
