CONSTANTS
    Trigger = {"auto", "after", "log", "boot"}
    Fire = {f1, f2}
    Macro = {"off"}
    NoFire = NoFire
    NoTrigger = NoTrigger
    Target <- RoomTarget
    Overlap <- RoomOverlap
    Startup = {"boot"}
    Debounced = {"auto"}
    Delayed = {"auto"}
    Cooldown = {"log"}
    MaxAllow = 1
    MaxPolls = 2
    Projects = {{"auto", "after"}, {"log", "boot"}}
    PromptCancel = TRUE
SPECIFICATION Spec
PROPERTIES SkipLeavesRun
