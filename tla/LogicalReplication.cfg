SPECIFICATION Spec
CONSTANTS
    w1 = w1
    w2 = w2
    None = None
    Writers <- TwoWriters
    MaxLsn = 2
    MaxBatch = 1
    MaxApart = 1
    MaxSessions = 2
    MaxCheckpoints = 0
    ChannelCap = 1
    MaxDrops = 2
INVARIANTS
    TypeOK
    CopyIsPrefixUnlessRaced
    CaughtUpIsComplete
PROPERTIES
    Converges
CHECK_DEADLOCK FALSE
