SPECIFICATION Spec
CONSTANTS
    Rows <- OneRow
    Writers = {w1, w2}
    Lookups = {l1}
    Scanners = {s1}
    MaxClock = 4
    MaxBumps = 1
SYMMETRY WriterSymmetry
INVARIANT FreshLookupsSeeCommits
