SPECIFICATION Spec
CONSTANTS
    NumRows = 2
    Loaded = {1}
    Holders <- OneHolder
    Writers <- OneWriter
    Branches <- OneBranch
    MaxPerCycle = 1
    MaxClock = 3
    MaxFaults = 1
INVARIANT WatermarkBehindClock
