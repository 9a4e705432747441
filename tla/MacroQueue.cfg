CONSTANTS
    Task = {t1, t2, t3}
    Macro <- LampMacros
    NoMacro = NoMacro
    NoGroup = NoGroup
    Steps <- LampSteps
    StopOnError = {}
    Group <- LampGroup
    Overlap <- LampOverlap
    Cooldown = {"show"}
    MaxDepth = 1
    MaxPolls = 2
    Projects <- LampProjects
    PromptCancel = TRUE
SYMMETRY Sym
SPECIFICATION Spec
INVARIANTS QueueExclusive GroupPreempts
CHECK_DEADLOCK FALSE
