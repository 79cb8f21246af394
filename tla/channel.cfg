SPECIFICATION Spec
CONSTANTS
    Requests = {r1, r2, r3, r4, r5}
    MaxDownloads = 2
    ChannelTTL = 4
    RenewTTL = 3
    CounterFloor = 3
    PendingTTL = 2
    DestructionDelay = 1
SYMMETRY RequestSymmetry
INVARIANTS
    TypeOK
    LimitHolds
    EverySlotRecorded
    FullIsClosed
PROPERTIES
    TwoRequestsDestroy
    GoneStaysGone
    ExpiredIsGone
