SPECIFICATION Spec
CONSTANTS
    t1 = t1
    t2 = t2
    t3 = t3
    k1 = k1
    k2 = k2
    None = None
    Txns <- ThreeTxns
    Keys <- TwoKeys
    Workloads <- PruneWorkloads
    PruneInterval = 2
INVARIANT
    NoLostUpdate
CHECK_DEADLOCK FALSE
