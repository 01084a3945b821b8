SPECIFICATION FairSpec
CONSTANTS
    Clients = {c1, c2}
    Deployments = {d1, d2}
    None = None
    MaxDerived = 2
    Ceilings = {0, 1}
    QueueDepths = {2}
    Operations = {"unload", "evict", "shutdown"}
    LoadsMayFail = FALSE
    StopMayFail = TRUE
    MaxEpoch = 2
INVARIANTS LeaseOnLiveEngine ActiveCountsLeases
PROPERTIES ImplementsService WaitersProgress MaintenanceEnds
