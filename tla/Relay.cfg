CONSTANTS
    Key <- RoomKeys
    DeviceKey = {"device.cam.temp"}
    Tier = {"top", "low"}
    Top = "top"
    Declared <- RoomTiers
    ChunkSize = 1
    MaxChanges = 2
    MaxRestarts = 1
    MaxThrottles = 1
    None = None
SPECIFICATION FairSpec
INVARIANTS TypeOK MirrorTruthful
PROPERTIES NeverBack ChangesArrive
CHECK_DEADLOCK FALSE
