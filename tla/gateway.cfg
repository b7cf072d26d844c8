SPECIFICATION FairSpec
CONSTANTS
    LogId = {1, 2}
    Code = {c1}
    Puller = {p1}
    Pusher = {h1}
    NoEntry = NoEntry
INVARIANTS
    TypeOK
    StoredOnce
    AckedIsStored
PROPERTIES
    InboxSpec
    PullEnds
    EverySettles
CHECK_DEADLOCK FALSE
