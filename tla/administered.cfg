SPECIFICATION ServiceSpec
CONSTANTS
    Employee = {e1, e2}
    ExternalId = {g1}
    Direction = {"in", "out"}
    HandStatus = {"leave"}
    Policies <- SwitchedMode
    DayLen = 1
    NumDays = 2
    MaxPk = 3
    MaxAdmin = 1
SYMMETRY KeysAndStaff
INVARIANTS
    TypeOK
    MirrorIsLatest
    CorrectionLineage
    IntactSessionsSurvive
CHECK_DEADLOCK FALSE
