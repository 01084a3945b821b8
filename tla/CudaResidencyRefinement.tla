---------------------- MODULE CudaResidencyRefinement ----------------------
(***************************************************************************)
(* CudaResidency implements ModelLeaseService, for every number of callers *)
(* and deployments, wherever a failing load cannot meet an unload or an    *)
(* eviction (Sound, CudaResidencySafety); and no step beneath a            *)
(* maintenance operation grants a lease.                                   *)
(***************************************************************************)
EXTENDS CudaResidencySafety

\* The abstract lease of every caller.
Lease == [c \in Clients |-> IF Leased(c) THEN wants[c] ELSE None]

\* A step beneath which every lease stays, on the same engine.
Keeps == /\ LeaseHolders \subseteq LeaseHolders'
         /\ \A c \in LeaseHolders : wants'[c] = wants[c]
         /\ engine' = engine

\* A step that returns the lease of c.
Returns(c) == /\ LeaseHolders' = LeaseHolders \ {c}
              /\ \A b \in Clients \ {c} : wants'[b] = wants[b]
              /\ engine' = engine

\* The abstract holders are the callers whose lease is counted.
LEMMA HoldersMap ==
  ASSUME SafeInv
  PROVE  /\ Service!Holders = LeaseHolders
         /\ \A c \in LeaseHolders : Lease[c] = engine /\ engine # None
<1>1. LeaseHolders # {} => active > 0
  BY HoldersFinite DEF SafeInv, LeasesOK
<1>2. \A c \in LeaseHolders : Lease[c] = engine /\ engine # None
  BY <1>1 DEF SafeInv, LeasesOK, Lease, LeaseHolders
<1>3. \A c \in Clients : c \in LeaseHolders <=> Lease[c] # None
  BY <1>2 DEF Lease, LeaseHolders
<1> QED
  BY <1>2, <1>3 DEF Service!Holders, Lease, LeaseHolders

\* A step that keeps every lease grants some or maps to a stutter.
LEMMA KeepsMaps ==
  ASSUME SafeInv, SafeInv', Keeps
  PROVE  [Service!Next]_(Service!vars)
<1> DEFINE S == LeaseHolders' \ LeaseHolders
<1>1. S \subseteq Clients \ LeaseHolders
  BY DEF LeaseHolders
<1>2. \A c \in LeaseHolders : Lease[c] = engine /\ engine # None
  BY HoldersMap
<1>3. \A c \in LeaseHolders' : Lease'[c] = engine' /\ engine' # None
  <2>1. LeaseHolders' # {} => active' > 0
    <3>1. active' = Cardinality(LeaseHolders') /\ active' \in Nat
      BY DEF SafeInv, LeasesOK, TypeOK
    <3>2. LeaseHolders' \subseteq Clients
      BY DEF LeaseHolders
    <3>3. IsFiniteSet(LeaseHolders')
      BY <3>2, FS_Subset, ConstantsAssumption
    <3>4. Cardinality(LeaseHolders') = 0 => LeaseHolders' = {}
      BY <3>3, FS_EmptySet
    <3> QED
      BY <3>1, <3>4
  <2> QED
    BY <2>1 DEF SafeInv, LeasesOK, Lease, LeaseHolders
<1>4. Lease' = [c \in Clients |-> IF c \in S THEN engine ELSE Lease[c]]
  <2>1. \A c \in Clients : Lease'[c] = IF c \in S THEN engine ELSE Lease[c]
    BY <1>2, <1>3 DEF Keeps, Lease, LeaseHolders
  <2> QED
    BY <2>1 DEF Lease
<1>5. CASE S = {}
  <2>1. Lease' = Lease
    BY <1>4, <1>5 DEF Lease
  <2> QED
    BY <2>1 DEF Service!vars, Lease, Keeps
<1>6. CASE S # {}
  <2>1. engine # None
    BY <1>3, <1>6 DEF Keeps
  <2>2. S \in SUBSET (Clients \ Service!Holders)
    BY <1>1, HoldersMap
  <2>3. Service!Grant
    BY <1>4, <1>6, <2>1, <2>2 DEF Service!Grant, Keeps, Lease
  <2> QED
    BY <2>3 DEF Service!Next
<1> QED
  BY <1>5, <1>6

\* With no lease before or after it a step may serve another deployment.
LEMMA SwitchMaps ==
  ASSUME SafeInv, SafeInv', LeaseHolders = {}, LeaseHolders' = {}
  PROVE  [Service!Next]_(Service!vars)
<1>1. Service!Holders = {}
  BY HoldersMap
<1>2. Lease' = Lease
  BY DEF Lease, LeaseHolders
<1>3. engine' \in Deployments \cup {None}
  BY DEF SafeInv, TypeOK
<1>4. Service!Switch
  BY <1>1, <1>2, <1>3 DEF Service!Switch, Lease
<1> QED
  BY <1>4 DEF Service!Next

\* The end of one lease is the abstract return.
LEMMA ReturnMaps ==
  ASSUME SafeInv, NEW c \in LeaseHolders, Returns(c)
  PROVE  [Service!Next]_(Service!vars)
<1>1. c \in Service!Holders
  BY HoldersMap
<1>2. Lease' = [Lease EXCEPT ![c] = None]
  <2>1. \A b \in Clients : Lease'[b] = IF b = c THEN None ELSE Lease[b]
    BY DEF Returns, Lease, LeaseHolders
  <2> QED
    BY <2>1 DEF Lease
<1>3. Service!Return
  BY <1>1, <1>2 DEF Service!Return, Returns, Lease
<1> QED
  BY <1>3 DEF Service!Next

\* One step of a caller keeps every lease or returns the caller's own.
LEMMA ClientKeeps ==
  ASSUME SafeInv, NEW c \in Clients, ClientStep(c)
  PROVE  Keeps \/ (c \in LeaseHolders /\ Returns(c))
<1> USE DEF SafeInv, TypeOK, LeaseHolders, Leased
<1>1. ASSUME NEW d, client[c] = "idle", GrantNow(c, d) PROVE Keeps
  BY <1>1 DEF GrantNow, Keeps
<1>2. CASE \E d \in Deployments : AcquireWarm(c, d)
  BY <1>1, <1>2 DEF AcquireWarm
<1>3. CASE AcquireCurrent(c)
  BY <1>1, <1>3 DEF AcquireCurrent
<1>4. CASE \E d \in Deployments : AcquireQueued(c, d)
  BY <1>4 DEF AcquireQueued, Keeps
<1>5. CASE TakeLease(c)
  BY <1>5 DEF TakeLease, Keeps
<1>6. CASE TakeFailure(c)
  BY <1>6 DEF TakeFailure, Keeps
<1>7. CASE CallRelease(c)
  BY <1>7 DEF CallRelease, Keeps
<1>8. CASE Release(c)
  BY <1>8 DEF Release, Returns
<1>9. CASE AbandonWait(c)
  <2>1. /\ client[c] \in {"queued", "granted", "failed"}
        /\ client' = [client EXCEPT ![c] = "idle"]
        /\ wants' = [wants EXCEPT ![c] = None]
        /\ engine' = engine
    BY <1>9 DEF AbandonWait
  <2>2. CASE client[c] = "granted"
    BY <2>1, <2>2 DEF Returns
  <2>3. CASE client[c] # "granted"
    BY <2>1, <2>3 DEF Keeps
  <2> QED
    BY <2>2, <2>3
<1> QED
  BY <1>2, <1>3, <1>4, <1>5, <1>6, <1>7, <1>8, <1>9 DEF ClientStep

\* Every step of the coordinator is a step of the service, or invisible to it.
LEMMA StepMaps ==
  ASSUME Sound, SafeInv, [Next]_vars
  PROVE  [Service!Next]_(Service!vars)
<1>1. SafeInv'
  BY SafeNext
<1>2. ASSUME active = 0 PROVE LeaseHolders = {}
  BY <1>2, HoldersFinite DEF SafeInv, LeasesOK
<1>3. ASSUME UNCHANGED <<client, wants>> PROVE LeaseHolders' = LeaseHolders
  BY <1>3 DEF LeaseHolders, Leased
<1>4. ASSUME UNCHANGED <<admission, engine>> PROVE Keeps
  BY <1>3, <1>4 DEF admission, Keeps
<1>5. ASSUME active = 0, UNCHANGED admission PROVE LeaseHolders = {} /\ LeaseHolders' = {}
  BY <1>2, <1>3, <1>5 DEF admission
<1>6. CASE UNCHANGED vars
  BY <1>1, <1>4, <1>6, KeepsMaps DEF vars, admission
<1>7. CASE \E c \in Clients : ClientStep(c)
  BY <1>1, <1>7, ClientKeeps, KeepsMaps, ReturnMaps
<1>8. CASE Reconfigure
  BY <1>1, <1>4, <1>8, KeepsMaps DEF Reconfigure
<1>9. CASE DriverTurn
  <2> DEFINE s == [q |-> queue, cl |-> client, r |-> resident, ep |-> epoch,
                   lim |-> EffectiveLimit(derived), open |-> Admits, lk |-> opLock,
                   st |-> state, tg |-> target, woke |-> FALSE]
  <2>1. Turn(s) /\ wants' = wants /\ engine' = engine
    BY <1>9 DEF DriverTurn
  <2>2. CASE Admits
    <3>1. PICK k \in 0..Len(queue) : GrantAndSettle(s, k)
      BY <2>1, <2>2 DEF Turn
    <3>2. client' = [c \in Clients |-> IF c \in {queue[i] : i \in 1..k} THEN "granted"
                                       ELSE client[c]]
      BY <3>1 DEF GrantAndSettle
    <3>3. LeaseHolders \subseteq LeaseHolders'
      BY <3>2 DEF LeaseHolders, Leased
    <3> QED
      BY <1>1, <2>1, <3>3, KeepsMaps DEF Keeps
  <2>3. CASE ~Admits
    <3>1. RefuseAll(s)
      BY <2>1, <2>3 DEF Turn
    <3>2. client' = [c \in Clients |-> IF c \in Members(queue) THEN "failed" ELSE client[c]]
      BY <3>1 DEF RefuseAll
    <3>3. LeaseHolders \subseteq LeaseHolders'
      BY <3>2 DEF LeaseHolders, Leased, Members, SafeInv, QueueOK, Waiting
    <3> QED
      BY <1>1, <2>1, <3>3, KeepsMaps DEF Keeps
  <2> QED
    BY <2>2, <2>3
<1>10. CASE DriverLocked
  BY <1>1, <1>4, <1>10, KeepsMaps DEF DriverLocked
<1>11. CASE DriverPublish
  <2>1. active = 0 /\ engine' = engine
    BY <1>11 DEF DriverPublish, SafeInv, SwitchOK, Switching
  <2>2. Keeps
    BY <1>2, <2>1 DEF Keeps
  <2> QED
    BY <1>1, <2>2, KeepsMaps
<1>12. CASE DriverStopped \/ DriverStarted \/ DriverRaises
  <2>1. active = 0 /\ UNCHANGED admission
    BY <1>12 DEF DriverStopped, DriverStarted, DriverRaises, SafeInv, SwitchOK, Switching
  <2> QED
    BY <1>1, <1>5, <2>1, SwitchMaps
<1>13. CASE DriverCleaned
  <2>1. active = 0 /\ resident' = None
    BY <1>13 DEF DriverCleaned, AfterFailedTransition, SafeInv, SwitchOK, Switching
  <2>2. LeaseHolders = {}
    BY <1>2, <2>1
  <2>3. LeaseHolders' = {}
    <3>1. active' \in Nat /\ ~(active' > 0) /\ active' = Cardinality(LeaseHolders')
      BY <1>1, <2>1 DEF SafeInv, LeasesOK, TypeOK
    <3>2. IsFiniteSet(LeaseHolders')
      <4>1. LeaseHolders' \subseteq Clients
        BY DEF LeaseHolders
      <4> QED
        BY <4>1, FS_Subset, ConstantsAssumption
    <3>3. Cardinality(LeaseHolders') = 0
      BY <3>1
    <3> QED
      BY <3>2, <3>3, FS_EmptySet
  <2> QED
    BY <1>1, <2>2, <2>3, SwitchMaps
<1>14. CASE \E o \in Operations : BeginMaintenance(o)
  <2>1. /\ client' = [c \in Clients |-> IF c \in Members(queue) THEN "failed" ELSE client[c]]
        /\ wants' = wants /\ engine' = engine
    BY <1>14 DEF BeginMaintenance
  <2>2. LeaseHolders \subseteq LeaseHolders'
    BY <2>1 DEF LeaseHolders, Leased, Members, SafeInv, QueueOK, Waiting
  <2> QED
    BY <1>1, <2>1, <2>2, KeepsMaps DEF Keeps
<1>15. CASE DrainResumes \/ DrainTimesOut \/ DriverAwaited \/ MaintLocked
  <2>1. UNCHANGED <<admission, engine>>
    BY <1>15 DEF DrainResumes, DrainTimesOut, DriverAwaited, MaintLocked
  <2> QED
    BY <1>1, <1>4, <2>1, KeepsMaps
<1>16. CASE MaintStopped \/ MaintFails
  <2>1. active = 0 /\ UNCHANGED admission
    BY <1>16 DEF MaintStopped, MaintFails, SafeInv, BarrierOK, LockOK
  <2> QED
    BY <1>1, <1>5, <2>1, SwitchMaps
<1> QED
  BY <1>6, <1>7, <1>8, <1>9, <1>10, <1>11, <1>12, <1>13, <1>14, <1>15, <1>16
     DEF Next, DriverStep, MaintStep

\* The initial states map to initial states of the service.
LEMMA InitMaps == Init => Service!Init
  BY DEF Init, Service!Init, Leased

\* For any number of callers and deployments, under the proviso of
\* CudaResidencySafety, the coordinator of cuda_residency.py implements
\* ModelLeaseService: whatever queues, deadlines, cancellations and locks do, the
\* engine changes only while nobody holds a lease, and a lease is granted only on
\* what the engine serves.
THEOREM Implements == Sound => (Spec => ImplementsService)
<1> SUFFICES ASSUME Sound PROVE Spec => ImplementsService
  OBVIOUS
<1>1. SafeInv /\ [Next]_vars => SafeInv'
  BY SafeNext
<1>2. SafeInv /\ [Next]_vars => [Service!Next]_(Service!vars)
  BY StepMaps
<1> QED
  BY <1>1, <1>2, SafeInit, InitMaps, PTL DEF Spec, ImplementsService, Service!Spec

-----------------------------------------------------------------------------
(* The maintenance barrier                                                  *)

\* A closed pass of the driver grants nothing.
LEMMA ClosedPass ==
  ASSUME NEW s, Turn(s), s.open = FALSE,
         \A c \in Clients : s.cl[c] \in {"granted", "holding", "releasing"} => Leased(c)
  PROVE  LeaseHolders' \subseteq LeaseHolders
<1>1. RefuseAll(s)
  BY DEF Turn
<1>2. client' = [c \in Clients |-> IF c \in Members(s.q) THEN "failed" ELSE s.cl[c]]
  BY <1>1 DEF RefuseAll
<1> QED
  BY <1>2 DEF LeaseHolders, Leased

\* While a maintenance operation goes on no step grants a lease.
LEMMA BarrierStep ==
  ASSUME Sound, SafeInv, [Next]_vars, op # "none"
  PROVE  LeaseHolders' \subseteq LeaseHolders
<1>1. ~accepting /\ ~Admits
  BY DEF SafeInv, BarrierOK, Admits
<1>2. ASSUME UNCHANGED client PROVE LeaseHolders' \subseteq LeaseHolders
  BY <1>2 DEF LeaseHolders, Leased
<1>3. CASE UNCHANGED vars
  BY <1>2, <1>3 DEF vars
<1>4. CASE \E c \in Clients : ClientStep(c)
  <2>1. PICK c \in Clients : ClientStep(c)
    BY <1>4
  <2> USE DEF SafeInv, TypeOK, LeaseHolders, Leased
  <2>2. CASE \E d \in Deployments : AcquireWarm(c, d) \/ AcquireQueued(c, d)
    BY <1>1, <2>2 DEF AcquireWarm, AcquireQueued
  <2>3. CASE AcquireCurrent(c)
    BY <1>1, <2>3 DEF AcquireCurrent
  <2>4. CASE TakeLease(c)
    BY <2>4 DEF TakeLease
  <2>5. CASE TakeFailure(c)
    BY <2>5 DEF TakeFailure
  <2>6. CASE AbandonWait(c)
    BY <2>6 DEF AbandonWait
  <2>7. CASE CallRelease(c)
    BY <2>7 DEF CallRelease
  <2>8. CASE Release(c)
    BY <2>8 DEF Release
  <2> QED
    BY <2>1, <2>2, <2>3, <2>4, <2>5, <2>6, <2>7, <2>8 DEF ClientStep
<1>5. CASE Reconfigure
  BY <1>2, <1>5 DEF Reconfigure, admission
<1>6. CASE DriverTurn
  BY <1>1, <1>6, ClosedPass DEF DriverTurn, Leased, Admits
<1>7. CASE DriverPublish
  BY <1>1, <1>7, ClosedPass DEF DriverPublish, Leased, Admits
<1>8. CASE DriverCleaned
  <2>1. stopping = TRUE
    BY <1>8 DEF DriverCleaned, Sound, SafeInv, SwitchOK, BarrierOK, TypeOK
  <2>2. PICK clean \in BOOLEAN : AfterFailedTransition(clean)
    BY <1>8 DEF DriverCleaned
  <2> DEFINE s(k) == [q |-> SubSeq(queue, k + 1, Len(queue)),
                      cl |-> [c \in Clients |->
                                IF \E i \in 1..k : queue[i] = c THEN "failed" ELSE client[c]],
                      r |-> None, ep |-> epoch, lim |-> EffectiveLimit(Conservative),
                      open |-> clean /\ ~stopping,
                      lk |-> AfterDriverRelease,
                      st |-> IF clean THEN "idle" ELSE "degraded",
                      tg |-> None, woke |-> TRUE]
  <2>3. PICK k \in 0..Len(queue) : Turn(s(k))
    BY <2>2 DEF AfterFailedTransition
  <2>4. s(k).open = FALSE
    BY <2>1
  <2>5. \A c \in Clients : s(k).cl[c] \in {"granted", "holding", "releasing"} => Leased(c)
    BY DEF Leased
  <2> QED
    BY <2>3, <2>4, <2>5, ClosedPass
<1>9. CASE DriverLocked \/ DriverStopped \/ DriverStarted \/ DriverRaises
  BY <1>2, <1>9 DEF DriverLocked, DriverStopped, DriverStarted, DriverRaises, admission
<1>10. CASE \E o \in Operations : BeginMaintenance(o)
  BY <1>10 DEF BeginMaintenance
<1>11. CASE DrainResumes \/ DrainTimesOut \/ DriverAwaited \/ MaintLocked
  BY <1>2, <1>11 DEF DrainResumes, DrainTimesOut, DriverAwaited, MaintLocked, admission
<1>12. CASE MaintStopped \/ MaintFails
  BY <1>2, <1>12 DEF MaintStopped, MaintFails, admission
<1> QED
  BY <1>3, <1>4, <1>5, <1>6, <1>7, <1>8, <1>9, <1>10, <1>11, <1>12
     DEF Next, DriverStep, MaintStep

\* Under the same proviso the barrier of unload, evict_if_idle and shutdown is not
\* reopened from inside: from closing admission to the end of the operation no
\* caller obtains a lease.
THEOREM BarrierSafe == Sound => (Spec => BarrierAdmitsNobody)
<1> SUFFICES ASSUME Sound PROVE Spec => BarrierAdmitsNobody
  OBVIOUS
<1> DEFINE Step == (op # "none" /\ op' # "none") => LeaseHolders' \subseteq LeaseHolders
<1>1. SafeInv /\ [Next]_vars => SafeInv'
  BY SafeNext
<1>2. SafeInv /\ [Next]_vars => [Step]_vars
  BY BarrierStep
<1> QED
  BY <1>1, <1>2, SafeInit, PTL DEF Spec, BarrierAdmitsNobody
=============================================================================
