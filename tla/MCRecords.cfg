SPECIFICATION RecordsFairSpec
CONSTANTS
    Routes = {r1, r2}
    HistoryLimit = 1
    MaxCrashes = 1
    Requests = {q1, q2}
    Aliases = {a1, a2}
    NoModel = NoModel
    MaxTotals = 1
    Events = {e1, e2, e3}
    MaxOutboxRows = 2
    BatchSize = 2
    MaxExits = 1
INVARIANTS
    NothingStranded
    OpenRowOwned
    CreditedToServer
    UsageKept
    CountedOnce
PROPERTIES
    ResourcesReturned
    EventuallyDelivered
CHECK_DEADLOCK FALSE
