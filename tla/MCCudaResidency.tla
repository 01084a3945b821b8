-------------------------- MODULE MCCudaResidency --------------------------
\* Small instances of CudaResidency for TLC.
EXTENDS CudaResidency, TLC

Symmetry == Permutations(Clients) \cup Permutations(Deployments)
=============================================================================
