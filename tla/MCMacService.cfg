SPECIFICATION ServiceSpec
CONSTANTS
    MaxVersion = 2
    JournalLimit = 2
    MaxMishaps = 1
    Pids = {1, 2}
    Aliases = {"a"}
    MaxStarts = 3
    MaxBlinks = 2
    OmlxModels = {"a", "b"}
    Pinned = {"b"}
    LibAliases = {alias1, alias2}
    LibFiles = {"f", "g"}
    LocalFiles = {}
    MaxInstalls = 2
    MaxRestarts = 1
    MaxMoves = 2
    Reqs = {request1, request2}
    OutboxRows = 1
    BatchRows = 1
    MaxTroubles = 1
    MaxRuns = 2
    MaxDrifts = 1
SYMMETRY ServiceSymmetry
INVARIANTS
    ServingIsActive
    JournalCurrent
    StrangersUntouched
    EngineTracked
    OmlxOutcomeTrue
    RowOwned
    StopKeepsUsage
    EventAccounted
    RejectedStaysOut
PROPERTIES
    UpdateKeepsRuntime
    ProfilesKept
CHECK_DEADLOCK FALSE
