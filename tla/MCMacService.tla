---------------------------- MODULE MCMacService ----------------------------
(***************************************************************************)
(* Model checking of the parts of the macOS service that keep state of     *)
(* their own beside the residency coordinator.  They share no variable, so *)
(* every behaviour follows one of them, `part`, from its initial states.   *)
(***************************************************************************)
EXTENDS MacUpdates, MacProcess, MacOmlx, MacLibrary, MacRequests, MacBenchmarks, TLC

VARIABLE part

serviceVars == <<updVars, procVars, omlxVars, libVars, reqVars, benchVars, part>>

\* Aliases are interchangeable, and so are requests
ServiceSymmetry == Permutations(LibAliases) \union Permutations(Reqs)

ServiceInit ==
    /\ UpdInit /\ ProcInit /\ OmlxInit /\ LibInit /\ ReqInit /\ BenchInit
    /\ part \in {"updates", "process", "omlx", "library", "requests", "benchmarks"}

ServiceNext ==
    \/ /\ part = "updates" /\ UpdNext
       /\ UNCHANGED <<procVars, omlxVars, libVars, reqVars, benchVars, part>>
    \/ /\ part = "process" /\ ProcNext
       /\ UNCHANGED <<updVars, omlxVars, libVars, reqVars, benchVars, part>>
    \/ /\ part = "omlx" /\ OmlxNext
       /\ UNCHANGED <<updVars, procVars, libVars, reqVars, benchVars, part>>
    \/ /\ part = "library" /\ LibNext
       /\ UNCHANGED <<updVars, procVars, omlxVars, reqVars, benchVars, part>>
    \/ /\ part = "requests" /\ ReqNext
       /\ UNCHANGED <<updVars, procVars, omlxVars, libVars, benchVars, part>>
    \/ /\ part = "benchmarks" /\ BenchNext
       /\ UNCHANGED <<updVars, procVars, omlxVars, libVars, reqVars, part>>

ServiceSpec == ServiceInit /\ [][ServiceNext]_serviceVars
=============================================================================
