-------------------------- MODULE MCFleetDispatch --------------------------
\* Small instances of FleetDispatch for TLC.
EXTENDS FleetDispatch, TLC

CONSTANTS n1, n2, m1, m2

Symmetry == Permutations(Requests) \cup Permutations(Models)

\* One node with one permit and one queue place; another that is weighted down.
MCSlots == [n \in Nodes |-> 1]
MCQueueLimit == [n \in Nodes |-> 1]
MCWeight == [n \in Nodes |-> 1]
MCServes == [n \in Nodes |-> Models]
MCQueueDepth == [m \in Models |-> 2]
MCFirstOrder == IF n2 \in Nodes THEN <<n1, n2>> ELSE <<n1>>
=============================================================================
