CONSTANTS
    Var = {"mode", "source"}
    Value = {"off", "on"}
    None = None
    Default <- RoomDefault
    Projects <- RoomProjects
    Outcomes = {TRUE}
    Readings = {"read"}
    Absent = Absent
    NoFile = NoFile
SPECIFICATION Spec
PROPERTY RestoreTakesEffect
