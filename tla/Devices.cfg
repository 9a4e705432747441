CONSTANTS
    Request = {r1, r2}
    MaxInstances = 2
    MaxPresses = 2
    MaxDrops = 1
    None = None
SPECIFICATION FairSpec
INVARIANTS TypeOK StrandedOnlyUnderMark PausedStaysDown NoOrphanConnection CardTruthful
PROPERTY PauseEnds
CHECK_DEADLOCK FALSE
