SPECIFICATION Spec
CONSTANTS
    w1 = w1
    w2 = w2
    None = None
    Writers <- OneWriter
    MaxLsn = 2
    MaxBatch = 1
    MaxApart = 1
    MaxSessions = 1
    MaxCheckpoints = 0
    ChannelCap = 2
    MaxDrops = 0
INVARIANT CopyIsPrefix
CHECK_DEADLOCK FALSE
