-------------------------- MODULE MCMacResidency --------------------------
\* Small instances of MacResidency for TLC.
EXTENDS MacResidency, TLC

Symmetry == Permutations(Clients) \cup Permutations(Deployments)
=============================================================================
