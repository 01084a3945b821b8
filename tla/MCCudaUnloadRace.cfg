SPECIFICATION Spec
CONSTANTS
    Clients = {c1, c2}
    Deployments = {d1, d2}
    None = None
    MaxDerived = 2
    Ceilings = {0, 1}
    QueueDepths = {2}
    Operations = {"unload"}
    LoadsMayFail = TRUE
    StopMayFail = TRUE
    MaxEpoch = 2
INVARIANT DrainedBeforeStop
