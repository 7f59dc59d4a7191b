SPECIFICATION Spec
CONSTANTS
    t1 = t1
    t2 = t2
    t3 = t3
    k1 = k1
    k2 = k2
    None = None
    Txns <- TwoTxns
    Keys <- OneKey
    Workloads <- AutocommitWorkloads
    PruneInterval = 100
PROPERTY
    SnapshotStable
CHECK_DEADLOCK FALSE
