----------------------------- MODULE MCRecords -----------------------------
(***************************************************************************)
(* Model checking of the three state machines that keep account of         *)
(* requests: the gateway's route rows, the manager's ownership of          *)
(* responses and its usage ledger.  They share no variable, so every       *)
(* behaviour follows one of them, `part`, and leaves the others in their   *)
(* initial states, where none of their fair actions is enabled.            *)
(***************************************************************************)
EXTENDS FleetRoutes, CudaResponses, CudaUsage

VARIABLE part

recordVars == <<routesVars, responsesVars, usageVars, part>>

RecordsInit ==
    /\ RoutesInit /\ ResponsesInit /\ UsageInit
    /\ part \in {"routes", "responses", "usage"}

RecordsNext ==
    \/ /\ part = "routes" /\ RoutesNext
       /\ UNCHANGED <<responsesVars, usageVars, part>>
    \/ /\ part = "responses" /\ ResponsesNext
       /\ UNCHANGED <<routesVars, usageVars, part>>
    \/ /\ part = "usage" /\ UsageNext
       /\ UNCHANGED <<routesVars, responsesVars, part>>

RecordsFairSpec ==
    /\ RecordsInit /\ [][RecordsNext]_recordVars
    /\ ResponsesFairness /\ UsageFairness
=============================================================================
