--------------------------- MODULE MCCudaSnapshot --------------------------
\* Small instances of CudaSnapshot for TLC.
EXTENDS CudaSnapshot, TLC

Symmetry == Permutations(Clients) \cup Permutations(Deployments)
=============================================================================
