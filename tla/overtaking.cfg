SPECIFICATION Spec
CONSTANTS
    LogId = {1, 2}
    Code = {c1}
    Puller = {p1, p2}
    Pusher = {}
    NoEntry = NoEntry
SYMMETRY Symmetric
INVARIANTS
    CursorCovers
CHECK_DEADLOCK FALSE
