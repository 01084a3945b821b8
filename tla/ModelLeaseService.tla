------------------------- MODULE ModelLeaseService -------------------------
(***************************************************************************)
(* What a residency coordinator promises its callers, without queues,      *)
(* drivers, locks or deadlines: at most one model is being served, any     *)
(* number of callers hold leases on it, and the served model changes only  *)
(* while nobody holds a lease.  CudaResidency is shown to implement this   *)
(* specification.                                                          *)
(***************************************************************************)
CONSTANTS Clients,      \* callers that may hold a lease
          Deployments,  \* models that can be served
          Nothing       \* no model is being served

VARIABLES served,   \* the model the engine serves, or Nothing
          leased    \* [Clients -> Deployments \cup {Nothing}]: each caller's lease

vars == <<served, leased>>

Holders == {c \in Clients : leased[c] # Nothing}

Init == /\ served = Nothing
        /\ leased = [c \in Clients |-> Nothing]

\* Another model (or none) is served; impossible beneath a lease.
Switch == /\ Holders = {}
          /\ served' \in Deployments \cup {Nothing}
          /\ UNCHANGED leased

\* Callers obtain leases on the model that is being served.
Grant == \E S \in SUBSET (Clients \ Holders) :
           /\ S # {}
           /\ served # Nothing
           /\ leased' = [c \in Clients |-> IF c \in S THEN served ELSE leased[c]]
           /\ UNCHANGED served

\* One caller gives its lease back.
Return == \E c \in Holders :
            /\ leased' = [leased EXCEPT ![c] = Nothing]
            /\ UNCHANGED served

Next == Switch \/ Grant \/ Return

Spec == Init /\ [][Next]_vars
=============================================================================
