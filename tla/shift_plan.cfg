SPECIFICATION Spec
CONSTANTS
    Emp = {e1}
    e1 = e1
    e2 = e2
    None = None
    NoValue = None
    Absent = Absent
    Gone = Gone
    DepartmentOf <- OneEach
    Id = {1, 2}
    BreakId = {1, 2}
    Editor = {a1}
    LastDay = 1
    Clock = 6
    EarlyMargin = 1
    LateMargin = 2
    MorningBoundary = 2
    PeriodLength <- Week
    Shapes <- Typed
    Pauses <- Rests
    Patterns <- Rules
    Spans <- Ranges
    Demo <- DemoPlan
    MaxWrites = 3
INVARIANTS
    TypeOK
    PunchFindsOneShift
    ResolversAgree
    NothingDangles
    BreaksInsideWork
PROPERTIES
    HistoryFrozen
CHECK_DEADLOCK FALSE
