--------------------------- MODULE CudaSnapshot ----------------------------
(***************************************************************************)
(* The document a CUDA node publishes at GET /fleet/v1/snapshot            *)
(* (fleet_snapshot in vllm_manager.py, from CudaResidencyCoordinator's     *)
(* status), and the relations the Fleet gateway's validator demands of it  *)
(* (mnemosyne_fleet/protocol.py).  A document the validator rejects is     *)
(* dropped, so the node silently leaves the fleet when its last accepted   *)
(* one expires: every state the coordinator can be in must be publishable. *)
(*                                                                         *)
(* Whether the engine process answers poll() is an input (alive): it may   *)
(* have died on its own.  Deployments are the configured profiles, which   *)
(* do not change here: after a reload that rewrites the resident's or a    *)
(* waiter's profile the document names a deployment it does not advertise, *)
(* and is rejected.  Aliases, digests, counts that are copied from one     *)
(* field to another and saturation are left out.                           *)
(***************************************************************************)
EXTENDS CudaResidency

\* Plausible bug: an engine that died under a resident is not noticed.
BugDeathUnnoticed(alive) == state = "idle" /\ resident = None /\ alive

\* The coordinator's view and the engine process disagree.
ProcessMismatch(alive) ==
    \/ state = "ready" /\ resident # None /\ ~alive
    \/ state = "idle" /\ resident = None /\ alive

PublishedAuthoritative(alive) == authoritative /\ ~ProcessMismatch(alive)

PublishedAccepting(alive) ==
    accepting /\ ~stopping /\ PublishedAuthoritative(alive)

\* Plausible bug: availability is published during a transition too.
BugRootOpen(alive) == PublishedAccepting(alive)

RootAdmissionOpen(alive) ==
    PublishedAccepting(alive) /\ state \in {"idle", "ready"}

\* effective_capacity: free permits while admission is open, otherwise none.
Arithmetic == IF EffectiveLimit(derived) > active
                THEN EffectiveLimit(derived) - active ELSE 0

\* The waiters for d, by their places in the queue.
Waiters(d) == {i \in 1..Len(queue) : wants[queue[i]] = d}

\* The resident is advertised with the root capacity; a cold deployment shows its
\* static capacity as long as the node accepts, so that a switch can be chosen.
Advertised(d, alive) ==
    [warm    |-> d = resident,
     waiting |-> Waiters(d),
     open    |-> IF d = resident THEN RootAdmissionOpen(alive)
                                 ELSE PublishedAccepting(alive)]

Snapshot(alive) ==
    [health      |-> IF ProcessMismatch(alive) THEN "degraded" ELSE state,
     accepts     |-> PublishedAccepting(alive),
     sure        |-> PublishedAuthoritative(alive),
     resident    |-> resident,
     target      |-> target,
     queueDepth  |-> Len(queue),
     queueLimit  |-> depth,
     limit       |-> EffectiveLimit(derived),
     active      |-> active,
     available   |-> IF RootAdmissionOpen(alive) THEN Arithmetic ELSE 0,
     deployments |-> [d \in Deployments |-> Advertised(d, alive)]]

-----------------------------------------------------------------------------
(* The gateway's validators                                                 *)

Free(s) == IF s.limit > s.active THEN s.limit - s.active ELSE 0

\* Admission and the queue checks of Snapshot: the waiters of the advertised
\* deployments are the whole queue.
QueueAdvertised(s) ==
    UNION {s.deployments[d].waiting : d \in Deployments} = 1..s.queueDepth

\* The resident is the one warm deployment.
ResidentIsWarm(s) ==
    {d \in Deployments : s.deployments[d].warm} =
        (IF s.resident = None THEN {} ELSE {s.resident})

\* Snapshot.validate_admission_capacity and Capacity.capacity_is_consistent:
\* health, residency, transition and capacity agree.
Coherent(s) ==
    /\ QueueAdvertised(s)
    /\ ResidentIsWarm(s)
    /\ s.available \in {0, Free(s)}
    /\ s.target # None => /\ s.target \in Deployments
                          /\ s.health \in {"draining", "unloading", "loading", "verifying"}
                          /\ s.available = 0
    /\ s.health = "idle" => s.resident = None
    /\ s.health = "ready" => s.resident # None
    /\ s.accepts => s.sure /\ s.health \notin {"degraded", "stopping"}
    /\ ~s.accepts => s.available = 0
    /\ (s.accepts /\ s.sure /\ s.health = "ready" /\ s.target = None
          /\ \A d \in Deployments : s.deployments[d].waiting # {} => d = s.resident)
         => s.available = Free(s)

\* Admission.admission_is_consistent.  It holds while the configured depth stays
\* as it was: a reload that lowers max_queue_depth keeps the longer queue.
QueueWithinLimit(s) == QueueDepths = {s.queueLimit} => s.queueDepth <= s.queueLimit

\* Free permits are advertised for a resident only while its engine lives, and
\* for an empty node only while no engine runs.
AdvertisesTheLiving(s, alive) ==
    /\ s.available > 0 => (alive <=> s.resident # None)
    /\ \A d \in Deployments : s.deployments[d].warm /\ s.deployments[d].open => alive

-----------------------------------------------------------------------------
\* Whatever the coordinator, its driver and a maintenance operation are in the
\* middle of, and whether or not the engine process is alive, the published
\* queue, health, residency, transition target and capacity satisfy the gateway's
\* semantic validation (the queue limit as long as no reload changes it), and no
\* capacity is advertised for an engine that is gone.
SnapshotCoherent ==
    \A alive \in BOOLEAN : LET s == Snapshot(alive) IN
        Coherent(s) /\ QueueWithinLimit(s) /\ AdvertisesTheLiving(s, alive)
=============================================================================
