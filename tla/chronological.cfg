SPECIFICATION ChronologicalSpec
CONSTANTS
    Employee = {e1}
    ExternalId = {g1}
    Direction = {"in", "out", "break_in"}
    HandStatus = {}
    Policies <- EitherBoundary
    DayLen = 2
    NumDays = 3
    MaxPk = 5
    MaxAdmin = 0
INVARIANTS
    LiveIsReplay
CHECK_DEADLOCK FALSE
