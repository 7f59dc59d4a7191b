SPECIFICATION WalSpec
CONSTANTS
    w1 = w1
    w2 = w2
    None = None
    Writers <- TwoWriters
    MaxLsn = 3
    MaxBatch = 2
    MaxApart = 1
    MaxSessions = 2
    MaxCheckpoints = 2
INVARIANTS
    WalTypeOK
    PublishedInOrder
    PrunedIsCheckpointed
PROPERTIES
    PublicationDrains
CHECK_DEADLOCK FALSE
