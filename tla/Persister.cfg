CONSTANTS
    Var = {"mode", "source"}
    Value = {"off", None}
    None = None
    Default <- RoomDefault
    Projects <- RoomProjects
    Outcomes = {TRUE, FALSE}
    Readings = {"read", "failed", "corrupt"}
    Absent = Absent
    NoFile = NoFile
SPECIFICATION Spec
INVARIANTS TypeOK CrashLosesNothing
