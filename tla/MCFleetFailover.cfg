SPECIFICATION FairSpec
CONSTANTS
    n1 = n1
    n2 = n2
    m1 = m1
    m2 = m2
    Nodes = {n1, n2}
    Models = {m1}
    Requests = {r1}
    None = None
    Serves <- MCServes
    Slots <- MCSlots
    QueueLimit <- MCQueueLimit
    Weight <- MCWeight
    QueueDepth <- MCQueueDepth
    FirstOrder <- MCFirstOrder
    OpenChoices = {TRUE, FALSE}
    MaxLocal = 1
    MaxInstance = 1
INVARIANT AtMostOneExecution
PROPERTY RequestsEnd
