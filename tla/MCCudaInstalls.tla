--------------------------- MODULE MCCudaInstalls ---------------------------
EXTENDS CudaInstalls
CONSTANTS a, c, r, q
\* One id in two storage locations, q in the one that is not the default
MCHome == [x \in {r, q} |-> r]
MCCacheOf == [x \in {r, q} |-> IF x = r THEN c ELSE NoAlias]
\* config.yaml without profiles; with alias a; and without q's storage location
MCConfigs ==
    {[models |-> [x \in {a, c} |-> NoRepo], declared |-> {r, q}],
     [models |-> [x \in {a, c} |-> IF x = a THEN q ELSE NoRepo], declared |-> {r, q}],
     [models |-> [x \in {a, c} |-> NoRepo], declared |-> {r}]}
=============================================================================
