CONSTANTS
    Task = {t1, t2}
    Macro <- SceneMacros
    NoMacro = NoMacro
    NoGroup = NoGroup
    Steps <- SceneSteps
    StopOnError = {"scene", "shared"}
    Group <- SceneGroup
    Overlap <- SceneOverlap
    Cooldown = {}
    MaxDepth = 3
    MaxPolls = 2
    Projects = {}
    PromptCancel = TRUE
SPECIFICATION FairSpec
INVARIANTS TypeOK SkipExclusive CancelStopsChain OutcomeTruthful NoLostWakeup
PROPERTY CancelEnds
CHECK_DEADLOCK FALSE
