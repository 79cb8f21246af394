SPECIFICATION Spec
CONSTANTS
    Requests = {r1, r2}
    MaxDownloads = 1
    ChannelTTL = 3
    RenewTTL = 2
    CounterFloor = 2
    PendingTTL = 1
    DestructionDelay = 1
SYMMETRY RequestSymmetry
PROPERTIES
    UncancelledMarkDestroys
