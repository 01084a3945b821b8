SPECIFICATION Spec
CONSTANTS
    n1 = n1
    n2 = n2
    m1 = m1
    m2 = m2
    Nodes = {n1}
    Models = {m1, m2}
    Requests = {r1, r2, r3}
    None = None
    Serves <- MCServes
    Slots <- MCSlots
    QueueLimit <- MCQueueLimit
    Weight <- MCWeight
    QueueDepth <- MCQueueDepth
    FirstOrder <- MCFirstOrder
    OpenChoices = {TRUE}
    MaxLocal = 0
    MaxInstance = 2
SYMMETRY Symmetry
INVARIANTS NoOvercommit NoLostWakeup
PROPERTY NoOvertaking
