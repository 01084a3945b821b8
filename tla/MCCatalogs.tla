---------------------------- MODULE MCCatalogs ----------------------------
(***************************************************************************)
(* Model checking of the manager's catalog of installs and the gateway's   *)
(* registry of nodes.  They share no variable, so every behaviour follows  *)
(* one of them, `part`, from its initial states.                           *)
(***************************************************************************)
EXTENDS MCCudaInstalls, FleetRegistry

VARIABLE part

catalogVars == <<installsVars, registryVars, part>>

CatalogsInit == InstallsInit /\ RegistryInit /\ part \in {"installs", "registry"}

CatalogsNext ==
    \/ part = "installs" /\ InstallsNext /\ UNCHANGED <<registryVars, part>>
    \/ part = "registry" /\ RegistryNext /\ UNCHANGED <<installsVars, part>>

CatalogsSpec == CatalogsInit /\ [][CatalogsNext]_catalogVars
===========================================================================
