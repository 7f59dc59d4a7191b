SPECIFICATION Spec
CONSTANTS
    t1 = t1
    t2 = t2
    t3 = t3
    k1 = k1
    k2 = k2
    None = None
    Txns <- ThreeTxns
    Keys <- TwoKeys
    Workloads <- SafeWorkloads
    PruneInterval = 2
INVARIANTS
    TypeOK
    FirstCommitterWins
    LoserLeavesNoTrace
PROPERTIES
    SnapshotStable
    BarrierLifts
CHECK_DEADLOCK FALSE
