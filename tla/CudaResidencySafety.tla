------------------------ MODULE CudaResidencySafety ------------------------
(***************************************************************************)
(* The safety of the leases CudaResidency hands out, for every number of   *)
(* callers and deployments, wherever a failing load cannot meet an unload  *)
(* or an eviction (MCCudaUnloadRace shows why that proviso is needed).     *)
(***************************************************************************)
EXTENDS CudaResidencyProofs, FunctionTheorems

\* Where the maintenance barrier cannot be reopened from inside: no load fails, or
\* the only maintenance is the shutdown, whose flag a failed load respects.
Sound == ~LoadsMayFail \/ Operations \subseteq {"shutdown"}

\* The driver is between taking and giving back the operation lock.
Switching == {"stop", "start", "derive", "clean"}

\* Leases are counted, of this epoch, on the resident, and the engine runs it.
LeasesOK == /\ active = Cardinality(LeaseHolders)
            /\ \A c \in LeaseHolders : leaseEpoch[c] = epoch /\ wants[c] = resident
            /\ active > 0 => resident # None /\ engine = resident

\* A maintenance operation keeps admission closed, and past its drain no lease
\* is out.
BarrierOK == /\ op = "none" <=> maint = "none"
             /\ op # "none" => ~accepting
             /\ op \in Operations \cup {"none"}
             /\ op = "shutdown" => stopping
             /\ maint \in {"driver", "driverdone", "stop"} => active = 0

\* The operation lock is owned by whoever is past it, and nobody waits for it.
LockOK == /\ opLock = "maint" <=> maint = "stop"
          /\ opLock = "driver" <=> driver \in Switching
          /\ maint # "lock" /\ driver \notin {"lock", "cleanlock"}
          /\ maint \in {"drain", "drainrun", "driverdone", "stop"} => driver \in {"none", "run"}

\* A switch happens beneath no lease and is invisible to admission; outside one
\* an authoritative coordinator knows what its engine serves.
SwitchOK == /\ driver \in Switching => active = 0 /\ state # "ready" /\ loading # None
            /\ driver = "clean" => LoadsMayFail
            /\ driver = "derive" => engine = loading
            /\ (authoritative /\ driver \notin Switching) => engine = resident

SafeInv == TypeOK /\ QueueOK /\ LeasesOK /\ BarrierOK /\ LockOK /\ SwitchOK

-----------------------------------------------------------------------------
(* Counting                                                                 *)

\* The first k of distinct waiters are k callers.
LEMMA PrefixCount ==
  ASSUME NEW q \in Seq(Clients), NEW k \in 0..Len(q),
         \A i, j \in 1..Len(q) : q[i] = q[j] => i = j
  PROVE  /\ IsFiniteSet({q[i] : i \in 1..k})
         /\ Cardinality({q[i] : i \in 1..k}) = k
<1> DEFINE G == {q[i] : i \in 1..k}
           f == [i \in 1..k |-> q[i]]
<1>1. f \in Bijection(1..k, G)
  <2>1. f \in [1..k -> G]
    OBVIOUS
  <2>2. \A i, j \in 1..k : f[i] = f[j] => i = j
    OBVIOUS
  <2>3. \A g \in G : \E i \in 1..k : f[i] = g
    OBVIOUS
  <2> QED
    BY <2>1, <2>2, <2>3 DEF Bijection, Injection, Surjection, IsInjective
<1>2. ExistsBijection(1..k, G)
  BY <1>1 DEF ExistsBijection
<1> QED
  BY <1>2, FS_NatBijection, FS_CountingElements

\* The holders are finitely many, and none exactly when they count zero.
LEMMA HoldersFinite ==
  /\ IsFiniteSet(LeaseHolders)
  /\ Cardinality(LeaseHolders) \in Nat
  /\ Cardinality(LeaseHolders) = 0 <=> LeaseHolders = {}
<1>1. IsFiniteSet(LeaseHolders)
  BY FS_Subset, ConstantsAssumption DEF LeaseHolders
<1> QED
  BY <1>1, FS_CardinalityType, FS_EmptySet

-----------------------------------------------------------------------------
(* The driver's pass                                                        *)

\* What a pass starts from, beyond its types: the waiters, the very holders of
\* the state before it, and, where a lease is out, its resident and epoch.
PassInput(s) ==
    /\ TurnInput(s)
    /\ Waiting(s.q, s.cl)
    /\ \A c \in Clients : s.cl[c] \in {"granted", "holding", "releasing"} <=> Leased(c)
    /\ s.lk \in {"free", "maint"}
    /\ s.lk = "maint" <=> maint = "stop"
    /\ s.open => maint = "none"
    /\ active > 0 => s.ep = epoch /\ s.r = resident

\* What it leaves behind.
PassOutput(s) ==
    /\ Waiting(queue', client')
    /\ LeaseHolders \subseteq LeaseHolders'
    /\ active' = Cardinality(LeaseHolders')
    /\ \A c \in LeaseHolders : leaseEpoch'[c] = leaseEpoch[c]
    /\ \A c \in LeaseHolders' \ LeaseHolders : leaseEpoch'[c] = s.ep /\ wants[c] = s.r
    /\ active' # active => s.r \in Deployments /\ s.open
    /\ driver' \in {"none", "wait", "stop"}
    /\ driver' # "none" => s.open
    /\ driver' = "stop" <=> opLock' = "driver"
    /\ opLock' = "maint" <=> s.lk = "maint"
    /\ driver' = "stop" => active' = 0 /\ state' # "ready" /\ loading' # None
    /\ s.open => maint' = "none"
    /\ ~s.open => \/ maint = "driver" /\ maint' = "driverdone"
                  \/ maint # "driver" /\ maint' \in {maint, DrainNotified(maint)}

\* What one pass through the top of _drive's loop leaves: leases and limits.
LEMMA PassSafe ==
  ASSUME SafeInv, NEW s, PassInput(s), Turn(s)
  PROVE  PassOutput(s)
<1> USE DEF PassInput
<1>1. CASE ~s.open
  <2>1. RefuseAll(s)
    BY <1>1 DEF Turn, TurnInput
  <2>2. LeaseHolders' = LeaseHolders
    BY <2>1 DEF RefuseAll, LeaseHolders, Leased, Waiting, Members, TurnInput
  <2>3. Waiting(queue', client')
    BY <2>1 DEF RefuseAll, Waiting
  <2>4. active' = Cardinality(LeaseHolders')
    BY <2>1, <2>2 DEF RefuseAll, SafeInv, LeasesOK
  <2>5. active' = active /\ leaseEpoch' = leaseEpoch
    BY <2>1 DEF RefuseAll
  <2>6. driver' = "none" /\ opLock' = s.lk
    BY <2>1 DEF RefuseAll
  <2>7. IF maint = "driver" THEN maint' = "driverdone"
                            ELSE maint' \in {maint, DrainNotified(maint)}
    BY <2>1 DEF RefuseAll
  <2> QED
    BY <1>1, <2>2, <2>3, <2>4, <2>5, <2>6, <2>7 DEF PassOutput
<1>2. CASE s.open
  <2>1. PICK k \in 0..Len(s.q) : IsGrantCount(k, s) /\ GrantAndSettle(s, k)
    BY <1>2 DEF Turn
  <2> DEFINE G == {s.q[i] : i \in 1..k}
             rest == SubSeq(s.q, k + 1, Len(s.q))
  <2>2. s.q \in Seq(Clients) /\ G \subseteq Clients
    BY DEF TurnInput
  <2>3. G \cap LeaseHolders = {}
    BY <2>2 DEF Waiting, LeaseHolders
  <2>4. client' = [c \in Clients |-> IF c \in G THEN "granted" ELSE s.cl[c]]
    BY <2>1 DEF GrantAndSettle
  <2>5. LeaseHolders' = LeaseHolders \cup G
    BY <2>2, <2>4 DEF LeaseHolders, Leased
  <2>6. active' = active + k /\ queue' = rest
    BY <2>1 DEF GrantAndSettle
  <2>7. active' = Cardinality(LeaseHolders')
    <3>1. IsFiniteSet(G) /\ Cardinality(G) = k
      BY <2>2, PrefixCount DEF Waiting
    <3>2. Cardinality(LeaseHolders \cup G) = Cardinality(LeaseHolders) + Cardinality(G)
                                               - Cardinality(LeaseHolders \cap G)
      BY <3>1, HoldersFinite, FS_Union
    <3>3. Cardinality(LeaseHolders \cap G) = 0
      BY <2>3, FS_EmptySet
    <3> QED
      BY <2>5, <2>6, <3>1, <3>2, <3>3, HoldersFinite DEF SafeInv, LeasesOK
  <2>8. Waiting(queue', client')
    BY <2>1, <2>2, GrantLeaves
  <2>9. leaseEpoch' = [c \in Clients |-> IF c \in G THEN s.ep ELSE leaseEpoch[c]]
    BY <2>1 DEF GrantAndSettle
  <2>10. /\ \A c \in LeaseHolders : leaseEpoch'[c] = leaseEpoch[c]
         /\ \A c \in LeaseHolders' \ LeaseHolders : leaseEpoch'[c] = s.ep
    BY <2>3, <2>5, <2>9 DEF LeaseHolders
  <2>11. \A c \in LeaseHolders' \ LeaseHolders : wants[c] = s.r
    BY <2>1, <2>5 DEF IsGrantCount
  <2>12. active' # active => s.r \in Deployments
    <3> SUFFICES ASSUME active' # active PROVE s.r \in Deployments
      OBVIOUS
    <3>1. k > 0
      BY <2>6 DEF SafeInv, TypeOK
    <3>2. wants[s.q[1]] = s.r
      BY <2>1, <3>1 DEF IsGrantCount
    <3> QED
      BY <2>1, <3>1, <3>2, <2>2 DEF Waiting
  <2>13. maint = "none" /\ s.lk = "free"
    BY <1>2
  <2>14. /\ driver' \in {"none", "wait", "stop"}
         /\ driver' = "stop" <=> opLock' = "driver"
         /\ opLock' # "maint"
         /\ maint' = "none"
    BY <2>1, <2>13 DEF GrantAndSettle, DrainNotified
  <2>15. driver' = "stop" => active' = 0 /\ state' # "ready" /\ loading' # None
    <3> SUFFICES ASSUME driver' = "stop"
                 PROVE  active' = 0 /\ state' # "ready" /\ loading' # None
      OBVIOUS
    <3>1. /\ rest # <<>> /\ active + k = 0 /\ state' = "unloading"
          /\ loading' = wants[Head(rest)]
      BY <2>1 DEF GrantAndSettle
    <3>2. k < Len(s.q) /\ Head(rest) = s.q[k + 1]
      BY <2>2, <3>1, HeadOfRest
    <3>3. wants[Head(rest)] \in Deployments
      BY <3>2, <2>2 DEF Waiting
    <3> QED
      BY <2>6, <3>1, <3>3, ConstantsAssumption
  <2> QED
    BY <1>2, <2>5, <2>7, <2>8, <2>10, <2>11, <2>12, <2>13, <2>14, <2>15 DEF PassOutput
<1> QED
  BY <1>1, <1>2 DEF TurnInput

-----------------------------------------------------------------------------
(* The callers                                                              *)

\* A step that changes nothing but callers that hold no lease, and possibly wakes
\* tasks, keeps the barrier, the lock and the switch.
Woken == /\ driver' \in {driver, Notified(driver), Ensured(driver)}
         /\ maint' \in {maint, DrainNotified(maint)}

\* A step that only wakes tasks keeps the invariant, if the leases are kept.
LEMMA WokenSafe ==
  ASSUME SafeInv, Woken, active' \in Nat,
         active > 0 \/ active' = active \/ (op = "none" /\ driver \notin Switching),
         op # "none" => active' <= active,
         driver \in Switching => active' = active,
         UNCHANGED <<residency, gates, shown, loading, op, opLock, engine>>
  PROVE  BarrierOK' /\ LockOK' /\ SwitchOK'
<1> USE DEF SafeInv, TypeOK, BarrierOK, LockOK, SwitchOK, Switching, Woken, Notified, Ensured,
            DrainNotified, DriverState, MaintState, residency, gates, shown
<1>1. driver' \in Switching <=> driver \in Switching
  OBVIOUS
<1>2. BarrierOK'
  OBVIOUS
<1>3. LockOK'
  BY <1>1
<1>4. SwitchOK'
  BY <1>1
<1> QED
  BY <1>2, <1>3, <1>4

\* The immediate grant keeps the invariant.
LEMMA GrantNowSafe ==
  ASSUME SafeInv, NEW c \in Clients, client[c] = "idle", Admits,
         NEW d \in Deployments, GrantNow(c, d)
  PROVE  SafeInv'
<1>1. TypeOK'
  BY DEF GrantNow, SafeInv, TypeOK, ClientState, residency, limits, gates, shown
<1>2. op = "none" /\ driver \notin Switching /\ authoritative
  BY DEF SafeInv, BarrierOK, SwitchOK, Admits, GrantNow, FreePermit
<1>3. BarrierOK' /\ LockOK' /\ SwitchOK'
  <2>1. active' \in Nat
    BY <1>1 DEF TypeOK
  <2>2. Woken /\ UNCHANGED <<residency, gates, shown, loading, op, opLock, engine>>
    BY DEF GrantNow, Woken, residency, gates, shown
  <2> QED
    BY <1>2, <2>1, <2>2, WokenSafe
<1>4. LeaseHolders' = LeaseHolders \cup {c} /\ c \notin LeaseHolders
  BY DEF GrantNow, LeaseHolders, Leased, SafeInv, TypeOK
<1>5. active' = Cardinality(LeaseHolders')
  BY <1>4, HoldersFinite, FS_AddElement DEF GrantNow, SafeInv, LeasesOK
<1>6. \A b \in LeaseHolders' : leaseEpoch'[b] = epoch' /\ wants'[b] = resident'
  BY <1>4 DEF GrantNow, FreePermit, SafeInv, LeasesOK, TypeOK, LeaseHolders, residency
<1>7. engine' = resident' /\ resident' # None
  BY <1>2, ConstantsAssumption DEF GrantNow, FreePermit, SafeInv, SwitchOK, residency
<1>8. QueueOK'
  BY DEF GrantNow, FreePermit, QueueOK, Waiting
<1> QED
  BY <1>1, <1>3, <1>5, <1>6, <1>7, <1>8 DEF SafeInv, LeasesOK

\* A permit comes back: the count follows the holders.
LEMMA ReturnSafe ==
  ASSUME SafeInv, NEW c \in LeaseHolders,
         active' = Released(leaseEpoch[c]),
         client' = [client EXCEPT ![c] = "idle"],
         wants' = [wants EXCEPT ![c] = None],
         UNCHANGED <<leaseEpoch, queue, residency, engine>>
  PROVE  /\ LeasesOK' /\ QueueOK'
         /\ active > 0 /\ active' = active - 1
<1>1. c \in Clients
  BY DEF LeaseHolders
<1>2. Cardinality(LeaseHolders) # 0
  BY HoldersFinite
<1>3. active > 0 /\ active \in Nat /\ leaseEpoch[c] = epoch
  BY <1>2, HoldersFinite DEF SafeInv, LeasesOK
<1>4. active' = active - 1
  BY <1>3 DEF Released
<1>5. LeaseHolders' = LeaseHolders \ {c}
  BY <1>1 DEF LeaseHolders, Leased, SafeInv, TypeOK
<1>6. active' = Cardinality(LeaseHolders')
  BY <1>4, <1>5, HoldersFinite, FS_RemoveElement DEF SafeInv, LeasesOK
<1>7. LeasesOK'
  <2>1. \A b \in LeaseHolders' : leaseEpoch'[b] = epoch' /\ wants'[b] = resident'
    BY <1>1, <1>5 DEF SafeInv, LeasesOK, LeaseHolders, TypeOK, residency
  <2>2. resident' # None /\ engine' = resident'
    BY <1>3 DEF SafeInv, LeasesOK, residency
  <2> QED
    BY <1>6, <2>1, <2>2 DEF LeasesOK
<1>8. QueueOK'
  <2>1. \A i \in 1..Len(queue) : queue[i] # c
    BY DEF SafeInv, QueueOK, Waiting, LeaseHolders, Leased
  <2>2. \A i \in 1..Len(queue) : client'[queue[i]] = client[queue[i]] /\ wants'[queue[i]] = wants[queue[i]]
    BY <2>1 DEF SafeInv, TypeOK
  <2> QED
    BY <2>2 DEF SafeInv, QueueOK, Waiting
<1> QED
  BY <1>3, <1>4, <1>7, <1>8

\* A caller without a lease changes to another such state: the leases stay.
LEMMA NoLeaseSafe ==
  ASSUME SafeInv, NEW c \in Clients, ~Leased(c), ~Leased(c)',
         \A b \in Clients \ {c} : client'[b] = client[b] /\ wants'[b] = wants[b],
         UNCHANGED <<leaseEpoch, active, residency, engine>>
  PROVE  LeasesOK' /\ LeaseHolders' = LeaseHolders
<1>1. LeaseHolders' = LeaseHolders /\ c \notin LeaseHolders
  BY DEF LeaseHolders, Leased
<1>2. \A b \in LeaseHolders : wants'[b] = wants[b]
  BY <1>1 DEF LeaseHolders
<1> QED
  BY <1>1, <1>2 DEF SafeInv, LeasesOK, residency

\* Every step of a caller keeps the invariant.
LEMMA ClientSafe ==
  ASSUME SafeInv, NEW c \in Clients, ClientStep(c)
  PROVE  SafeInv'
<1>1. TypeOK'
  BY ClientType DEF SafeInv
<1>2. active' \in Nat
  BY <1>1 DEF TypeOK
<1>3. TypeOK
  BY DEF SafeInv
<1>4. CASE \E d \in Deployments : AcquireWarm(c, d)
  BY <1>4, GrantNowSafe DEF AcquireWarm
<1>5. CASE AcquireCurrent(c)
  <2>1. resident \in Deployments
    BY <1>3, <1>5 DEF TypeOK, AcquireCurrent
  <2> QED
    BY <1>5, <2>1, GrantNowSafe DEF AcquireCurrent
<1>6. CASE \E d \in Deployments : AcquireQueued(c, d)
  <2>1. PICK d \in Deployments : AcquireQueued(c, d)
    BY <1>6
  <2>2. /\ client[c] = "idle"
        /\ client' = [client EXCEPT ![c] = "queued"]
        /\ wants' = [wants EXCEPT ![c] = d]
        /\ queue' = Append(queue, c)
        /\ UNCHANGED <<leaseEpoch, active, residency, gates, shown, loading, op, opLock, engine>>
        /\ driver' = Ensured(driver) /\ maint' = DrainNotified(maint)
    BY <2>1 DEF AcquireQueued, EnsureDriverAndNotify
  <2>3. BarrierOK' /\ LockOK' /\ SwitchOK'
    BY <1>2, <2>2, WokenSafe DEF Woken
  <2>4. LeasesOK'
    BY <1>3, <2>2, NoLeaseSafe DEF TypeOK, Leased
  <2>5. QueueOK'
    BY <1>3, <2>2, Joined DEF SafeInv
  <2> QED
    BY <1>1, <2>3, <2>4, <2>5 DEF SafeInv
<1>7. CASE TakeLease(c) \/ CallRelease(c)
  <2>1. /\ client[c] \in {"granted", "holding"}
        /\ client' = [client EXCEPT ![c] = IF TakeLease(c) THEN "holding" ELSE "releasing"]
        /\ UNCHANGED <<wants, leaseEpoch, queue, active, residency, gates, shown, driver,
                       loading, maint, op, opLock, engine>>
    BY <1>7 DEF TakeLease, CallRelease
  <2>2. BarrierOK' /\ LockOK' /\ SwitchOK'
    BY <1>2, <2>1, WokenSafe DEF Woken
  <2>3. LeaseHolders' = LeaseHolders
    BY <1>3, <2>1 DEF LeaseHolders, Leased, TypeOK
  <2>4. LeasesOK'
    BY <2>1, <2>3 DEF SafeInv, LeasesOK, residency
  <2>5. QueueOK'
    <3>1. \A i \in 1..Len(queue) : queue[i] # c
      BY <2>1 DEF SafeInv, QueueOK, Waiting
    <3>2. \A i \in 1..Len(queue) : client'[queue[i]] = client[queue[i]]
      BY <1>3, <2>1, <3>1 DEF TypeOK
    <3> QED
      BY <2>1, <3>2 DEF SafeInv, QueueOK, Waiting
  <2> QED
    BY <1>1, <2>2, <2>4, <2>5 DEF SafeInv
<1>8. CASE TakeFailure(c) \/ (AbandonWait(c) /\ client[c] = "failed")
  <2>1. /\ client[c] = "failed"
        /\ client' = [client EXCEPT ![c] = "idle"]
        /\ wants' = [wants EXCEPT ![c] = None]
        /\ UNCHANGED <<leaseEpoch, queue, active, residency, gates, shown,
                       loading, op, opLock, engine>>
        /\ Woken
    BY <1>8 DEF TakeFailure, AbandonWait, NotifyAll, Woken
  <2>2. BarrierOK' /\ LockOK' /\ SwitchOK'
    BY <1>2, <2>1, WokenSafe
  <2>3. LeasesOK'
    BY <1>3, <2>1, NoLeaseSafe DEF TypeOK, Leased
  <2>4. QueueOK'
    <3>1. \A i \in 1..Len(queue) : queue[i] # c
      BY <2>1 DEF SafeInv, QueueOK, Waiting
    <3>2. \A i \in 1..Len(queue) : /\ client'[queue[i]] = client[queue[i]]
                                   /\ wants'[queue[i]] = wants[queue[i]]
      BY <1>3, <2>1, <3>1 DEF TypeOK
    <3> QED
      BY <2>1, <3>2 DEF SafeInv, QueueOK, Waiting
  <2> QED
    BY <1>1, <2>2, <2>3, <2>4 DEF SafeInv
<1>9. CASE AbandonWait(c) /\ client[c] = "queued"
  <2>1. PICK i \in 1..Len(queue) : queue[i] = c /\ queue' = Without(queue, i)
    BY <1>9 DEF AbandonWait
  <2>2. /\ client' = [client EXCEPT ![c] = "idle"]
        /\ wants' = [wants EXCEPT ![c] = None]
        /\ UNCHANGED <<leaseEpoch, active, residency, gates, shown, loading, op, opLock, engine>>
        /\ Woken
    BY <1>9 DEF AbandonWait, NotifyAll, Woken
  <2>3. BarrierOK' /\ LockOK' /\ SwitchOK'
    BY <1>2, <2>2, WokenSafe
  <2>4. \A b \in Clients \ {c} : client'[b] = client[b] /\ wants'[b] = wants[b]
    BY <1>3, <2>2 DEF TypeOK
  <2>5. LeasesOK'
    BY <1>3, <1>9, <2>2, <2>4, NoLeaseSafe DEF TypeOK, Leased
  <2>6. QueueOK'
    BY <1>3, <2>1, <2>4, Withdrawn DEF SafeInv
  <2> QED
    BY <1>1, <2>3, <2>5, <2>6 DEF SafeInv
<1>10. CASE Release(c) \/ (AbandonWait(c) /\ client[c] = "granted")
  <2>1. /\ c \in LeaseHolders
        /\ active' = Released(leaseEpoch[c])
        /\ client' = [client EXCEPT ![c] = "idle"]
        /\ wants' = [wants EXCEPT ![c] = None]
        /\ UNCHANGED <<leaseEpoch, queue, residency, gates, shown, loading, op, opLock, engine>>
        /\ Woken
    BY <1>10 DEF Release, AbandonWait, NotifyAll, EnsureDriverAndNotify, Woken, LeaseHolders,
                 Leased
  <2>2. LeasesOK' /\ QueueOK' /\ active > 0 /\ active' = active - 1
    BY <2>1, ReturnSafe
  <2>3. driver \notin Switching
    BY <2>2 DEF SafeInv, SwitchOK
  <2>4. BarrierOK' /\ LockOK' /\ SwitchOK'
    BY <1>2, <1>3, <2>1, <2>2, <2>3, WokenSafe DEF TypeOK
  <2> QED
    BY <1>1, <2>2, <2>4 DEF SafeInv
<1>11. AbandonWait(c) => client[c] \in {"queued", "granted", "failed"}
  BY DEF AbandonWait
<1> QED
  BY <1>4, <1>5, <1>6, <1>7, <1>8, <1>9, <1>10, <1>11 DEF ClientStep

-----------------------------------------------------------------------------
(* The driver                                                               *)

\* The pass itself keeps the invariant, given what its caller assigned besides.
LEMMA AfterPass ==
  ASSUME SafeInv, TypeOK', NEW s, PassInput(s), Turn(s),
         wants' = wants, op' = op, stopping' = stopping,
         s.ep = epoch', s.r = resident',
         op # "none" => ~accepting',
         authoritative' => engine' = resident',
         s.open /\ s.r \in Deployments => engine' = resident',
         active > 0 => engine' = engine
  PROVE  SafeInv'
<1>1. PassOutput(s)
  BY PassSafe
<1>2. s.open \in BOOLEAN /\ s.lk \in {"free", "maint"}
  BY DEF PassInput, TurnInput
<1>3. QueueOK'
  BY <1>1 DEF PassOutput, QueueOK, Waiting
<1>4. LeasesOK'
  <2>1. \A c \in LeaseHolders : leaseEpoch'[c] = epoch' /\ wants'[c] = resident'
    <3> TAKE c \in LeaseHolders
    <3>1. active > 0
      BY HoldersFinite DEF SafeInv, LeasesOK
    <3> QED
      BY <1>1, <3>1 DEF PassOutput, PassInput, SafeInv, LeasesOK
  <2>2. \A c \in LeaseHolders' \ LeaseHolders : leaseEpoch'[c] = epoch' /\ wants'[c] = resident'
    BY <1>1 DEF PassOutput
  <2>3. active' > 0 => resident' # None /\ engine' = resident'
    <3>1. CASE active' = active
      BY <3>1 DEF PassInput, SafeInv, LeasesOK
    <3>2. CASE active' # active
      BY <1>1, <3>2, ConstantsAssumption DEF PassOutput
    <3> QED
      BY <3>1, <3>2
  <2> QED
    BY <1>1, <2>1, <2>2, <2>3 DEF LeasesOK, PassOutput
<1>5. /\ s.open => op = "none" /\ maint = "none" /\ maint' = "none"
      /\ ~s.open => /\ active' = active /\ driver' = "none"
                    /\ \/ maint = "driver" /\ maint' = "driverdone"
                       \/ maint # "driver" /\ maint' \in {maint, DrainNotified(maint)}
  BY <1>1 DEF PassInput, PassOutput, SafeInv, BarrierOK
<1>6. BarrierOK'
  <2>1. op \in Operations \cup {"none"} /\ (op = "shutdown" => stopping)
    BY DEF SafeInv, BarrierOK
  <2>2. op = "none" <=> maint' = "none"
    BY <1>2, <1>5 DEF SafeInv, BarrierOK, DrainNotified
  <2>3. maint' \in {"driver", "driverdone", "stop"} => active' = 0
    BY <1>2, <1>5 DEF SafeInv, BarrierOK, DrainNotified
  <2> QED
    BY <2>1, <2>2, <2>3 DEF BarrierOK
<1>7. LockOK'
  <2>1. opLock' = "maint" <=> maint' = "stop"
    BY <1>1, <1>2, <1>5 DEF PassInput, PassOutput, DrainNotified
  <2>2. opLock' = "driver" <=> driver' \in Switching
    BY <1>1 DEF PassOutput, Switching
  <2>3. maint' # "lock" /\ driver' \notin {"lock", "cleanlock"}
    BY <1>1, <1>2, <1>5 DEF PassOutput, SafeInv, LockOK, DrainNotified
  <2>4. maint' \in {"drain", "drainrun", "driverdone", "stop"} => driver' \in {"none", "run"}
    BY <1>2, <1>5
  <2> QED
    BY <2>1, <2>2, <2>3, <2>4 DEF LockOK
<1>8. SwitchOK'
  BY <1>1 DEF PassOutput, SwitchOK, Switching
<1> QED
  BY <1>3, <1>4, <1>6, <1>7, <1>8 DEF SafeInv

\* A failed load fails the waiters at the head that wanted it; the others stay.
LEMMA FailHeadSafe ==
  ASSUME SafeInv, NEW k \in 0..Len(queue),
         NEW q, q = SubSeq(queue, k + 1, Len(queue)),
         NEW cl, cl = [c \in Clients |->
                         IF \E i \in 1..k : queue[i] = c THEN "failed" ELSE client[c]]
  PROVE  /\ Waiting(q, cl)
         /\ \A c \in Clients : cl[c] \in {"granted", "holding", "releasing"} <=> Leased(c)
<1>1. queue \in Seq(Clients) /\ Waiting(queue, client)
  BY DEF SafeInv, TypeOK, QueueOK
<1>2. \A c \in Clients : (\A i \in 1..k : queue[i] # c) => cl[c] = client[c]
  OBVIOUS
<1>3. Waiting(q, cl)
  BY <1>1, <1>2, RestWaits
<1>4. \A c \in Clients : cl[c] \in {"granted", "holding", "releasing"} <=> Leased(c)
  <2> TAKE c \in Clients
  <2>1. CASE \E i \in 1..k : queue[i] = c
    BY <1>1, <2>1 DEF Waiting, Leased
  <2>2. CASE ~\E i \in 1..k : queue[i] = c
    BY <2>2 DEF Leased
  <2> QED
    BY <2>1, <2>2
<1> QED
  BY <1>3, <1>4

\* Every step of the driver keeps the invariant.
LEMMA DriverSafe ==
  ASSUME Sound, SafeInv, DriverStep
  PROVE  SafeInv'
<1>1. TypeOK' /\ TypeOK
  BY DriverType DEF SafeInv
<1>2. CASE DriverTurn
  <2> DEFINE s == [q |-> queue, cl |-> client, r |-> resident, ep |-> epoch,
                   lim |-> EffectiveLimit(derived), open |-> Admits, lk |-> opLock,
                   st |-> state, tg |-> target, woke |-> FALSE]
  <2>1. TurnInput(s)
    BY <1>1, LimitPositive, ConstantsAssumption DEF TurnInput, Admits, TypeOK
  <2>2. driver \notin Switching /\ opLock # "driver"
    BY <1>2 DEF DriverTurn, SafeInv, LockOK, Switching
  <2>3. Admits => maint = "none"
    BY DEF Admits, SafeInv, BarrierOK
  <2>4. PassInput(s)
    BY <1>1, <2>1, <2>2, <2>3 DEF PassInput, Leased, SafeInv, QueueOK, LockOK, TypeOK
  <2>5. authoritative => engine = resident
    BY <2>2 DEF SafeInv, SwitchOK
  <2> QED
    <3>1. /\ Turn(s)
          /\ UNCHANGED <<wants, op, stopping, epoch, resident, accepting, authoritative, engine>>
      BY <1>2 DEF DriverTurn, residency, gates
    <3>2. s.open => authoritative
      BY DEF Admits
    <3>3. op # "none" => ~accepting
      BY DEF SafeInv, BarrierOK
    <3> QED
      BY <1>1, <2>4, <2>5, <3>1, <3>2, <3>3, AfterPass
<1>3. CASE DriverLocked
  BY <1>3 DEF DriverLocked, SafeInv, LockOK
<1>4. ASSUME driver \in Switching, driver' \in Switching, maint' = maint, opLock' = opLock,
             state' # "ready", driver' = "clean" => LoadsMayFail,
             driver' = "derive" => engine' = loading,
             UNCHANGED <<admission, residency, gates, loading, op>>
      PROVE  SafeInv'
  <2>1. active = 0 /\ loading # None
    BY <1>4 DEF SafeInv, SwitchOK
  <2>2. QueueOK'
    BY <1>4 DEF admission, SafeInv, QueueOK, Waiting
  <2>3. LeaseHolders' = LeaseHolders
    BY <1>4 DEF admission, LeaseHolders, Leased
  <2>4. LeasesOK'
    <3>1. LeaseHolders' = {}
      BY <2>1, <2>3, HoldersFinite DEF SafeInv, LeasesOK
    <3>2. active' = 0
      BY <1>4, <2>1 DEF admission
    <3> QED
      BY <3>1, <3>2, FS_EmptySet DEF LeasesOK
  <2>5. BarrierOK'
    BY <1>4 DEF admission, gates, SafeInv, BarrierOK
  <2>6. LockOK'
    BY <1>4 DEF SafeInv, LockOK, Switching
  <2>7. SwitchOK'
    BY <1>4, <2>1 DEF admission, SwitchOK
  <2> QED
    BY <1>1, <2>2, <2>4, <2>5, <2>6, <2>7 DEF SafeInv
<1>5. driver \in Switching => /\ opLock = "driver" /\ state # "ready"
                             /\ maint \in {"none", "driver"}
                             /\ AfterDriverRelease = "free" /\ active = 0
  BY <1>1 DEF SafeInv, LockOK, SwitchOK, Switching, TypeOK, MaintState, AfterDriverRelease
<1>6. CASE DriverStopped
  <2>1. driver \in Switching /\ driver' = "start" /\ maint' = DrainNotified(maint)
    BY <1>6 DEF DriverStopped, Switching
  <2>2. maint' = maint
    BY <1>5, <2>1 DEF DrainNotified
  <2> QED
    BY <1>4, <1>6, <2>1, <2>2 DEF DriverStopped, Switching
<1>7. CASE DriverStarted
  <2>1. driver \in Switching
    BY <1>7 DEF DriverStarted, Switching
  <2> QED
    BY <1>4, <1>5, <1>7, <2>1 DEF DriverStarted, Switching, shown
<1>8. CASE DriverRaises
  <2>1. driver \in Switching
    BY <1>8 DEF DriverRaises, Switching
  <2>2. driver' = "clean" /\ opLock' = "driver"
    BY <1>5, <1>8, <2>1 DEF DriverRaises
  <2> QED
    BY <1>4, <1>5, <1>8, <2>1, <2>2 DEF DriverRaises, Switching, shown
<1>9. CASE DriverPublish
  <2>1. PICK d \in 1..MaxDerived :
          Turn([q |-> queue, cl |-> client, r |-> loading, ep |-> epoch + 1,
                lim |-> EffectiveLimit(d), open |-> Admits,
                lk |-> AfterDriverRelease,
                st |-> IF Admits THEN "ready"
                       ELSE IF stopping THEN "stopping" ELSE "degraded",
                tg |-> None, woke |-> TRUE])
    BY <1>9 DEF DriverPublish
  <2> DEFINE s == [q |-> queue, cl |-> client, r |-> loading, ep |-> epoch + 1,
                   lim |-> EffectiveLimit(d), open |-> Admits,
                   lk |-> AfterDriverRelease,
                   st |-> IF Admits THEN "ready"
                          ELSE IF stopping THEN "stopping" ELSE "degraded",
                   tg |-> None, woke |-> TRUE]
  <2>2. driver \in Switching /\ engine = loading
    BY <1>9 DEF DriverPublish, Switching, SafeInv, SwitchOK
  <2>3. EffectiveLimit(d) \in Nat \ {0}
    BY <1>1, LimitPositive, ConstantsAssumption, SMTT(30) DEF TypeOK
  <2>4. TurnInput(s)
    BY <1>1, <2>3 DEF TurnInput, Admits, AfterDriverRelease, CoordinatorState, TypeOK
  <2>5. Admits => maint = "none"
    BY DEF Admits, SafeInv, BarrierOK
  <2>6. PassInput(s)
    BY <1>5, <2>2, <2>4, <2>5 DEF PassInput, Leased, SafeInv, QueueOK
  <2>7. /\ UNCHANGED <<wants, op, accepting, authoritative, stopping, engine>>
        /\ resident' = loading /\ epoch' = epoch + 1
    BY <1>9 DEF DriverPublish, gates
  <2>8. op # "none" => ~accepting
    BY DEF SafeInv, BarrierOK
  <2> QED
    BY <1>1, <2>1, <2>2, <2>6, <2>7, <2>8, AfterPass
<1>10. ASSUME driver = "clean", NEW clean \in BOOLEAN, AfterFailedTransition(clean),
              clean => engine' = None
       PROVE  SafeInv'
  <2> DEFINE s(k) == [q |-> SubSeq(queue, k + 1, Len(queue)),
                      cl |-> [c \in Clients |->
                                IF \E i \in 1..k : queue[i] = c THEN "failed" ELSE client[c]],
                      r |-> None, ep |-> epoch, lim |-> EffectiveLimit(Conservative),
                      open |-> clean /\ ~stopping,
                      lk |-> AfterDriverRelease,
                      st |-> IF clean THEN "idle" ELSE "degraded",
                      tg |-> None, woke |-> TRUE]
  <2>1. PICK k \in 0..Len(queue) : Turn(s(k))
    BY <1>10 DEF AfterFailedTransition
  <2>2. driver \in Switching
    BY <1>10 DEF Switching
  <2>3. op # "none" => stopping
    BY <1>10 DEF Sound, SafeInv, SwitchOK, BarrierOK
  <2>4. EffectiveLimit(Conservative) \in Nat \ {0}
    BY <1>1, LimitPositive, ConstantsAssumption DEF TypeOK, Conservative
  <2>5. SubSeq(queue, k + 1, Len(queue)) \in Seq(Clients)
    BY <1>1 DEF TypeOK
  <2>6. TurnInput(s(k))
    BY <1>1, <2>4, <2>5 DEF TurnInput, AfterDriverRelease, CoordinatorState, ClientState, TypeOK
  <2>7. /\ Waiting(s(k).q, s(k).cl)
        /\ \A c \in Clients : s(k).cl[c] \in {"granted", "holding", "releasing"} <=> Leased(c)
    BY FailHeadSafe
  <2>8. s(k).open => maint = "none"
    BY <2>3 DEF SafeInv, BarrierOK
  <2>9. PassInput(s(k))
    <3>1. s(k).lk = "free" /\ maint # "stop" /\ active = 0
      BY <1>5, <2>2
    <3>2. ~(active > 0)
      BY <3>1
    <3> QED
      BY <2>6, <2>7, <2>8, <3>1, <3>2, Zenon DEF PassInput
  <2>10. /\ UNCHANGED <<wants, epoch, stopping, op>>
         /\ resident' = None /\ authoritative' = clean /\ accepting' = (clean /\ ~stopping)
    BY <1>10 DEF AfterFailedTransition
  <2>11. /\ s(k).ep = epoch' /\ s(k).r = resident'
         /\ op # "none" => ~accepting'
         /\ authoritative' => engine' = resident'
         /\ s(k).open /\ s(k).r \in Deployments => engine' = resident'
         /\ active > 0 => engine' = engine
    <3>1. s(k).ep = epoch' /\ s(k).r = resident'
      BY <2>10
    <3>2. op # "none" => ~accepting'
      BY <2>3, <2>10, Zenon
    <3>3. authoritative' => engine' = resident'
      BY <1>10, <2>10, Zenon
    <3>4. s(k).r \notin Deployments
      BY ConstantsAssumption
    <3>5. ~(active > 0)
      BY <1>5, <2>2
    <3> QED
      BY <3>1, <3>2, <3>3, <3>4, <3>5, Zenon
  <2>12. ASSUME NEW t, t = s(k) PROVE SafeInv'
    <3>1. Turn(t) /\ PassInput(t)
      BY <2>1, <2>9, <2>12, Zenon
    <3>2. /\ t.ep = epoch' /\ t.r = resident'
          /\ t.open /\ t.r \in Deployments => engine' = resident'
      BY <2>11, <2>12, Zenon
    <3> QED
      BY ONLY SafeInv, <1>1, <2>10, <2>11, <3>1, <3>2, AfterPass, Zenon
  <2> QED
    BY <2>12, Zenon
<1>11. CASE DriverCleaned
  BY <1>10, <1>11 DEF DriverCleaned
<1> QED
  BY <1>2, <1>3, <1>6, <1>7, <1>8, <1>9, <1>11 DEF DriverStep

-----------------------------------------------------------------------------
(* Maintenance                                                              *)

\* Every step of a maintenance operation keeps the invariant.
LEMMA MaintSafe ==
  ASSUME SafeInv,
         \/ \E o \in Operations : BeginMaintenance(o)
         \/ MaintStep
         \/ DrainTimesOut
  PROVE  SafeInv'
<1>1. TypeOK' /\ TypeOK
  BY MaintType DEF SafeInv
<1>2. ASSUME UNCHANGED admission PROVE QueueOK' /\ LeaseHolders' = LeaseHolders
  BY <1>2 DEF admission, SafeInv, QueueOK, Waiting, LeaseHolders, Leased
<1>3. ASSUME UNCHANGED <<admission, residency, engine>> PROVE QueueOK' /\ LeasesOK'
  BY <1>2, <1>3 DEF admission, residency, SafeInv, LeasesOK
<1>4. ASSUME active = 0, UNCHANGED admission PROVE QueueOK' /\ LeasesOK'
  <2>1. LeaseHolders = {}
    BY <1>4, HoldersFinite DEF SafeInv, LeasesOK
  <2> QED
    <3>1. LeaseHolders' = {} /\ QueueOK'
      BY <1>2, <1>4, <2>1
    <3>2. active' = 0
      BY <1>4 DEF admission
    <3> QED
      BY <3>1, <3>2, FS_EmptySet DEF LeasesOK
<1>5. ASSUME NEW o \in Operations, BeginMaintenance(o) PROVE SafeInv'
  <2>1. op = "none" /\ maint = "none" /\ opLock # "maint"
    BY <1>5 DEF BeginMaintenance, SafeInv, BarrierOK, LockOK
  <2>2. o \in {"unload", "evict", "shutdown"}
    BY ConstantsAssumption
  <2>3. LeaseHolders' = LeaseHolders
    BY <1>1, <1>5, SMTT(30) DEF BeginMaintenance, LeaseHolders, Leased, Members, SafeInv, QueueOK, Waiting,
                      TypeOK
  <2>4. QueueOK'
    BY <1>5 DEF BeginMaintenance, QueueOK, Waiting
  <2>5. LeasesOK'
    BY <1>5, <2>3 DEF BeginMaintenance, residency, SafeInv, LeasesOK
  <2>6. /\ op' = o /\ ~accepting' /\ (o = "shutdown" => stopping')
        /\ active' = active /\ driver' = Notified(driver)
        /\ UNCHANGED <<loading, engine, authoritative, resident>>
    BY <1>5 DEF BeginMaintenance, residency
  <2>7. /\ active > 0 => maint' = "drain" /\ opLock' = opLock /\ state' # "ready"
        /\ (active = 0 /\ driver # "none") => maint' = "driver" /\ opLock' = opLock
                                              /\ state' \in {state, "stopping"}
        /\ (active = 0 /\ driver = "none") => maint' = "stop" /\ opLock' = "maint"
                                              /\ state' # "ready"
    BY <1>1, <1>5 DEF BeginMaintenance, LeasesOut, PastDrain, DrainState, UnloadState,
                      TypeOK
  <2>8. active \in Nat
    BY <1>1 DEF TypeOK
  <2>9. BarrierOK'
    BY <2>2, <2>6, <2>7, <2>8 DEF BarrierOK
  <2>10. driver' \in Switching <=> driver \in Switching
    BY <2>6 DEF Notified, Switching
  <2>11. active > 0 => driver \in {"none", "run", "wait"}
    BY <1>1 DEF SafeInv, SwitchOK, LockOK, Switching, TypeOK, DriverState
  <2>12. LockOK'
    BY <2>1, <2>6, <2>7, <2>8, <2>10, <2>11 DEF SafeInv, LockOK, Notified, Switching
  <2>13. SwitchOK'
    BY <2>6, <2>7, <2>8, <2>10 DEF SafeInv, SwitchOK, Notified, Switching
  <2> QED
    BY <1>1, <2>4, <2>5, <2>9, <2>12, <2>13 DEF SafeInv
<1>6. CASE DrainResumes
  <2>1. /\ maint = "drainrun" /\ driver \in {"none", "run"} /\ opLock = "free"
        /\ op # "none"
    BY <1>1, <1>6 DEF DrainResumes, SafeInv, LockOK, BarrierOK, Switching, TypeOK
  <2>2. UNCHANGED <<admission, residency, gates, driver, loading, op, engine>>
    BY <1>6 DEF DrainResumes
  <2>3. /\ active > 0 => maint' = "drain" /\ opLock' = opLock
        /\ (active = 0 /\ driver # "none") => maint' = "driver" /\ opLock' = opLock
        /\ (active = 0 /\ driver = "none") => maint' = "stop" /\ opLock' = "maint"
    BY <1>1, <1>6 DEF DrainResumes, LeasesOut, PastDrain, TypeOK
  <2>4. active \in Nat
    BY <1>1 DEF TypeOK
  <2>5. BarrierOK'
    BY <2>1, <2>2, <2>3, <2>4 DEF SafeInv, BarrierOK, admission, gates
  <2>6. LockOK'
    BY <2>1, <2>2, <2>3, <2>4 DEF SafeInv, LockOK, Switching
  <2>7. SwitchOK'
    BY <2>1, <2>2 DEF SafeInv, SwitchOK, Switching, admission, residency, gates
  <2> QED
    BY <1>1, <1>3, <2>2, <2>5, <2>6, <2>7 DEF SafeInv
<1>7. CASE DrainTimesOut
  <2>1. maint \in {"drain", "drainrun"} /\ driver \in {"none", "run"} /\ opLock = "free"
    BY <1>1, <1>7 DEF DrainTimesOut, SafeInv, LockOK, Switching, TypeOK
  <2>2. /\ UNCHANGED <<admission, residency, authoritative, stopping, driver, loading, opLock, engine>>
        /\ maint' = "none" /\ op' = "none"
    BY <1>7 DEF DrainTimesOut
  <2>3. BarrierOK'
    BY <2>2 DEF BarrierOK
  <2>4. LockOK'
    BY <2>1, <2>2 DEF LockOK, Switching
  <2>5. SwitchOK'
    BY <2>1, <2>2 DEF SafeInv, SwitchOK, Switching, residency
  <2> QED
    BY <1>1, <1>3, <2>2, <2>3, <2>4, <2>5 DEF SafeInv
<1>8. CASE DriverAwaited
  <2>1. maint = "driverdone" /\ driver \in {"none", "run"} /\ opLock = "free"
    BY <1>1, <1>8 DEF DriverAwaited, SafeInv, LockOK, Switching, TypeOK
  <2>2. /\ UNCHANGED <<admission, residency, gates, loading, op, engine>>
        /\ driver' = driver /\ maint' = "stop" /\ opLock' = "maint"
    BY <1>8, <2>1 DEF DriverAwaited, Notified
  <2>3. BarrierOK'
    BY <2>1, <2>2 DEF SafeInv, BarrierOK, admission, gates
  <2>4. LockOK'
    BY <2>1, <2>2 DEF LockOK, Switching
  <2>5. SwitchOK'
    BY <2>1, <2>2 DEF SafeInv, SwitchOK, Switching, residency, gates
  <2> QED
    BY <1>1, <1>3, <2>2, <2>3, <2>4, <2>5 DEF SafeInv
<1>9. CASE MaintLocked
  BY <1>9 DEF MaintLocked, SafeInv, LockOK
<1>10. CASE MaintStopped
  <2>1. maint = "stop" /\ driver \in {"none", "run"} /\ active = 0
    BY <1>10 DEF MaintStopped, SafeInv, LockOK, BarrierOK
  <2>2. /\ UNCHANGED admission /\ driver' = driver
        /\ maint' = "none" /\ op' = "none" /\ opLock' = "free"
        /\ engine' = None /\ resident' = None
    BY <1>10, <2>1 DEF MaintStopped, Notified, AfterMaintRelease
  <2>3. BarrierOK'
    BY <2>2 DEF BarrierOK
  <2>4. LockOK'
    BY <2>1, <2>2 DEF LockOK, Switching
  <2>5. SwitchOK'
    BY <2>1, <2>2 DEF SwitchOK, Switching
  <2> QED
    BY <1>1, <1>4, <2>1, <2>2, <2>3, <2>4, <2>5 DEF SafeInv
<1>11. CASE MaintFails
  <2>1. /\ maint \in {"driver", "driverdone", "stop"} /\ active = 0
    BY <1>11 DEF MaintFails, SafeInv, LockOK, BarrierOK
  <2>2. /\ UNCHANGED <<admission, driver, loading>>
        /\ maint' = "none" /\ op' = "none" /\ ~authoritative'
        /\ state' # "ready"
        /\ opLock' = IF opLock = "maint" THEN AfterMaintRelease ELSE opLock
    BY <1>11 DEF MaintFails, FailedState
  <2>3. opLock' = IF driver \in Switching THEN "driver" ELSE "free"
    BY <1>1, <2>1, <2>2 DEF SafeInv, LockOK, AfterMaintRelease, Switching, TypeOK
  <2>4. BarrierOK'
    BY <2>2 DEF BarrierOK
  <2>5. LockOK'
    BY <2>2, <2>3 DEF SafeInv, LockOK, Switching
  <2>6. driver = "derive" => engine' = loading
    BY <1>11 DEF MaintFails, SafeInv, SwitchOK, LockOK, Switching
  <2>7. SwitchOK'
    BY <2>1, <2>2, <2>6 DEF SafeInv, SwitchOK, admission
  <2> QED
    BY <1>1, <1>4, <2>1, <2>2, <2>4, <2>5, <2>7 DEF SafeInv
<1> QED
  BY <1>5, <1>6, <1>7, <1>8, <1>9, <1>10, <1>11 DEF MaintStep

-----------------------------------------------------------------------------
(* The theorems                                                             *)

\* The initial state satisfies the invariant.
LEMMA SafeInit == Init => SafeInv
<1> SUFFICES ASSUME Init PROVE SafeInv
  OBVIOUS
<1>1. LeaseHolders = {}
  BY DEF Init, LeaseHolders, Leased
<1>2. LeasesOK
  BY <1>1, FS_EmptySet DEF Init, LeasesOK
<1>3. QueueOK
  BY DEF Init, QueueOK, Waiting
<1>4. BarrierOK /\ LockOK /\ SwitchOK
  BY DEF Init, BarrierOK, LockOK, SwitchOK, Switching
<1> QED
  BY <1>2, <1>3, <1>4, TypeInit DEF SafeInv

\* Every step keeps the invariant.
LEMMA SafeNext == Sound /\ SafeInv /\ [Next]_vars => SafeInv'
<1> SUFFICES ASSUME Sound, SafeInv, [Next]_vars PROVE SafeInv'
  OBVIOUS
<1>1. TypeOK'
  BY TypeNext DEF SafeInv
<1>2. CASE UNCHANGED vars
  <2>1. LeaseHolders' = LeaseHolders
    BY <1>2 DEF vars, LeaseHolders, Leased
  <2> QED
    BY <1>1, <1>2, <2>1 DEF vars, SafeInv, QueueOK, Waiting, LeasesOK, BarrierOK, LockOK, SwitchOK
<1>3. CASE Reconfigure
  <2>1. /\ Woken
        /\ UNCHANGED <<admission, residency, gates, shown, loading, op, opLock, engine>>
    BY <1>3 DEF Reconfigure, EnsureDriverAndNotify, Woken
  <2>2. active' = active /\ active' \in Nat
    BY <1>1, <2>1 DEF admission, TypeOK
  <2>3. BarrierOK' /\ LockOK' /\ SwitchOK'
    BY <2>1, <2>2, WokenSafe
  <2>4. LeaseHolders' = LeaseHolders
    BY <2>1 DEF admission, LeaseHolders, Leased
  <2>5. LeasesOK' /\ QueueOK'
    BY <2>1, <2>4 DEF admission, residency, SafeInv, LeasesOK, QueueOK, Waiting
  <2> QED
    BY <1>1, <2>3, <2>5 DEF SafeInv
<1> QED
  BY <1>2, <1>3, ClientSafe, DriverSafe, MaintSafe DEF Next

\* The invariant says what the runs check.
LEMMA SafeImplies ==
  SafeInv => LeaseOnLiveEngine /\ ActiveCountsLeases /\ DrainedBeforeStop /\ NoOrphanEngine
<1> SUFFICES ASSUME SafeInv
             PROVE  LeaseOnLiveEngine /\ ActiveCountsLeases /\ DrainedBeforeStop /\ NoOrphanEngine
  OBVIOUS
<1>1. LeaseHolders # {} => active > 0
  BY HoldersFinite DEF SafeInv, LeasesOK
<1>2. LeaseOnLiveEngine
  BY <1>1 DEF LeaseOnLiveEngine, SafeInv, LeasesOK
<1>3. ActiveCountsLeases
  BY DEF ActiveCountsLeases, SafeInv, LeasesOK
<1>4. DrainedBeforeStop
  BY <1>1 DEF DrainedBeforeStop, SafeInv, BarrierOK
<1>5. NoOrphanEngine
  BY DEF NoOrphanEngine, SafeInv, SwitchOK, Switching
<1> QED
  BY <1>2, <1>3, <1>4, <1>5

\* For any number of callers and deployments, wherever a failing load cannot meet
\* an unload or eviction: a lease is always on a running engine of the deployment
\* its caller asked for (_transition and _drain_and_unload never stop it first).
THEOREM LeasesSafe == Sound => (Spec => []LeaseOnLiveEngine)
<1> SUFFICES ASSUME Sound PROVE Spec => []LeaseOnLiveEngine
  OBVIOUS
<1>1. SafeInv /\ [Next]_vars => SafeInv'
  BY SafeNext
<1> QED
  BY <1>1, SafeInit, SafeImplies, PTL DEF Spec

\* Under the same proviso _active is exact: it is the number of leases out, all of
\* the current epoch, so _release_locked never drops or leaks a permit.
THEOREM CountExact == Sound => (Spec => []ActiveCountsLeases)
<1> SUFFICES ASSUME Sound PROVE Spec => []ActiveCountsLeases
  OBVIOUS
<1>1. SafeInv /\ [Next]_vars => SafeInv'
  BY SafeNext
<1> QED
  BY <1>1, SafeInit, SafeImplies, PTL DEF Spec

\* Under the same proviso every maintenance operation calls stop_engine with no
\* lease out: unload's "drain every lease, then stop the engine".
THEOREM DrainSafe == Sound => (Spec => []DrainedBeforeStop)
<1> SUFFICES ASSUME Sound PROVE Spec => []DrainedBeforeStop
  OBVIOUS
<1>1. SafeInv /\ [Next]_vars => SafeInv'
  BY SafeNext
<1> QED
  BY <1>1, SafeInit, SafeImplies, PTL DEF Spec

\* Under the same proviso an authoritative coordinator without a resident has no
\* engine process left running.
THEOREM NoOrphan == Sound => (Spec => []NoOrphanEngine)
<1> SUFFICES ASSUME Sound PROVE Spec => []NoOrphanEngine
  OBVIOUS
<1>1. SafeInv /\ [Next]_vars => SafeInv'
  BY SafeNext
<1> QED
  BY <1>1, SafeInit, SafeImplies, PTL DEF Spec
=============================================================================
