SPECIFICATION ChronologicalSpec
CONSTANTS
    Employee = {e1}
    ExternalId = {g1}
    Direction = {"in", "out"}
    HandStatus = {}
    Policies <- UnboundedOvernight
    DayLen = 3
    NumDays = 2
    MaxPk = 3
    MaxAdmin = 0
INVARIANT
    RepairSettles
CHECK_DEADLOCK FALSE
