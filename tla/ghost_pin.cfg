SPECIFICATION OrderlySpec
CONSTANTS
    Employee = {e1}
    Code = {c1, c2}
    Device = {d1}
    Request = {r1}
    NoEmployee = NoEmployee
    NoCode = NoCode
    MaxRetries = 1
    MaxChanges = 3
    MaxDeaths = 1
INVARIANT
    DeletedIsUnenrolled
CHECK_DEADLOCK FALSE
