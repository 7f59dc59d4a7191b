\* Retention 2 and 4 writes let a follower sleep through the pruning of its
\* own generation's failure.
SPECIFICATION Spec
CONSTANTS
    p1 = p1
    p2 = p2
    p3 = p3
    Committers <- MCCommitters
    ErrorRetentionGens = 2
    MaxWrites = 4
INVARIANTS
    TypeOK
    AckedDurable
    SingleFlush
    LeaderOwnsCohort
PROPERTY
    EveryCommitReturns
CHECK_DEADLOCK FALSE
