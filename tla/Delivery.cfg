CONSTANTS
    Message <- SmallTraffic
    Priority <- SmallPriority
    BufferSize = 3
    MaxLosses = 3
SPECIFICATION FairSpec
INVARIANTS TypeOK
PROPERTIES BufferDrains KeepsContract
CHECK_DEADLOCK FALSE
