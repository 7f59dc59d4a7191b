SPECIFICATION Spec
CONSTANTS
    t1 = t1
    t2 = t2
    t3 = t3
    k1 = k1
    k2 = k2
    None = None
    Txns <- TwoTxns
    Keys <- OneKey
    Workloads <- DeleteWorkloads
    PruneInterval = 100
INVARIANT
    FirstCommitterWins
CHECK_DEADLOCK FALSE
