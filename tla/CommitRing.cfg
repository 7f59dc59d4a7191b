SPECIFICATION Spec
CONSTANTS
    c1 = c1
    c2 = c2
    r1 = r1
    None = None
    Committers <- MCCommitters
    Readers <- MCReaders
    RingSize = 2
    MaxTs = 3
INVARIANTS
    TypeOK
    OwnSlot
    WatermarkSound
    NothingLingers
PROPERTIES
    ImplementsBarrier
    BarrierEnds
    AnnouncementEnds
CHECK_DEADLOCK FALSE
