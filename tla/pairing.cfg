SPECIFICATION Spec
CONSTANTS
    Employee = {e1}
    ExternalId = {g1}
    Direction = {"in", "out"}
    HandStatus = {}
    Policies <- EitherBoundary
    DayLen = 2
    NumDays = 2
    MaxPk = 4
    MaxAdmin = 0
SYMMETRY Keys
INVARIANTS
    PairingIsOneToOne
    SessionsMatchTheLog
    SupersededOwnNothing
    DayRowShowsItsSessions
    RebuildIsPure
    IntactSessionsSurvive
PROPERTIES
    NoLostCheckIn
    BiometricIsPermanent
CHECK_DEADLOCK FALSE
