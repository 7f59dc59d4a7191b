CONSTANTS
    t1 = t1
    t2 = t2
    t3 = t3
    a = a
    b = b
    Txns = {t1, t2, t3}
    Keys = {a, b}
    Requests <- Mixed
    MaxGuards = 2
    Savepoints = {t1}
    None = None
SPECIFICATION FairSpec
INVARIANTS TypeOK GuardsBacked ExclusiveUnlessRaced NoPhantomDeadlock NothingLeaks
PROPERTY DeadlockBroken
CHECK_DEADLOCK FALSE
