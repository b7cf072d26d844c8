SPECIFICATION Spec
CONSTANTS
    w1 = w1
    w2 = w2
    j1 = j1
    e1 = e1
    None = None
    Emp = {e1}
    MaxPunch = 3
    Worker = {w1, w2}
    Job = {j1}
    LastDay = 1
    Clock = 4
    First = 1
    Times = {5, 6, 7}
    Directions = {"in", "out"}
    Opening = 2
    MaxTries = 2
INVARIANTS
    TypeOK
    WorkedDayIsPresent
    RowTimesAreSessions
    MirrorHeals
SYMMETRY
    Symmetry
CHECK_DEADLOCK FALSE
