SPECIFICATION WalSpec
CONSTANTS
    w1 = w1
    w2 = w2
    None = None
    Writers <- TwoWriters
    MaxLsn = 4
    MaxBatch = 1
    MaxApart = 2
    MaxSessions = 2
    MaxCheckpoints = 0
INVARIANT BornAboveCheckpoint
CHECK_DEADLOCK FALSE
