CONSTANTS
    c1 = c1
    c2 = c2
    d1 = d1
    d2 = d2
    Clients = {c1, c2}
    Deployments = {d1, d2}
    None = None
    Slots = {"o1", "o2"}
    Kinds = {"unload", "empty"}
    Limit = 1
    Depth = 2
    MaxEpoch = 2
    MaxUpsets = 1
SPECIFICATION Spec
INVARIANTS MaintenanceAlone
SYMMETRY Symmetry
