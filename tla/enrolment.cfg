SPECIFICATION FairSpec
CONSTANTS
    Employee = {e1, e2}
    Code = {c1}
    Device = {d1}
    Request = {r1, r2}
    NoEmployee = NoEmployee
    NoCode = NoCode
    MaxRetries = 1
    MaxChanges = 2
    MaxDeaths = 1
INVARIANTS
    TypeOK
    LastWord
    LeaversAreRemoved
PROPERTIES
    EveryTaskEnds
CHECK_DEADLOCK FALSE
