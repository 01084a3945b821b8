------------------------ MODULE CudaResidencyProofs ------------------------
(***************************************************************************)
(* Theorems about CudaResidency that hold for every number of callers,     *)
(* deployments, capacities and queue depths.                               *)
(***************************************************************************)
EXTENDS CudaSnapshot, FiniteSetTheorems, TLAPS

\* The effective limit is a positive number: a configured ceiling of zero is the
\* absent one.
LEMMA LimitPositive ==
  ASSUME ceiling \in Nat, NEW d \in Nat \ {0}
  PROVE  EffectiveLimit(d) \in Nat \ {0}
BY DEF EffectiveLimit

\* What the driver's pass through its loop needs to know of the values it starts
\* from.
TurnInput(s) ==
    /\ s.q \in Seq(Clients)
    /\ s.cl \in [Clients -> ClientState]
    /\ s.r \in Deployments \cup {None}
    /\ s.ep \in Nat
    /\ s.lim \in Nat \ {0}
    /\ s.open \in BOOLEAN
    /\ s.lk \in {"free", "driver", "maint"}
    /\ s.st \in CoordinatorState
    /\ s.tg \in Deployments \cup {None}
    /\ s.woke \in BOOLEAN

\* What a pass assigns.
TurnOutput ==
    /\ client' \in [Clients -> ClientState]
    /\ leaseEpoch' \in [Clients -> Nat]
    /\ queue' \in Seq(Clients)
    /\ active' \in Nat
    /\ state' \in CoordinatorState
    /\ target' \in Deployments \cup {None}
    /\ driver' \in DriverState
    /\ loading' \in Deployments \cup {None}
    /\ opLock' \in {"free", "driver", "maint"}
    /\ maint' \in MaintState

\* A pass of the driver assigns well-typed values.
LEMMA TurnType ==
  ASSUME TypeOK, NEW s, TurnInput(s), Turn(s)
  PROVE  TurnOutput
<1>1. CASE ~s.open
  <2>1. RefuseAll(s)
    BY <1>1 DEF Turn, TurnInput
  <2> QED
    BY <2>1 DEF RefuseAll, TurnInput, TurnOutput, TypeOK, ClientState, DriverState,
                MaintState, DrainNotified
<1>2. CASE s.open
  <2>1. PICK k \in 0..Len(s.q) : GrantAndSettle(s, k)
    BY <1>2 DEF Turn
  <2> DEFINE rest == SubSeq(s.q, k + 1, Len(s.q))
  <2>2. rest \in Seq(Clients)
    BY DEF TurnInput
  <2>3. rest # <<>> => wants[Head(rest)] \in Deployments \cup {None}
    BY <2>2 DEF TypeOK
  <2>4. /\ client' \in [Clients -> ClientState]
        /\ leaseEpoch' \in [Clients -> Nat]
        /\ queue' \in Seq(Clients)
        /\ active' \in Nat
    BY <2>1, <2>2 DEF GrantAndSettle, TurnInput, TypeOK, ClientState
  <2>5. /\ state' \in CoordinatorState
        /\ target' \in Deployments \cup {None}
        /\ driver' \in DriverState
        /\ loading' \in Deployments \cup {None}
        /\ opLock' \in {"free", "driver", "maint"}
        /\ maint' \in MaintState
    BY <2>1, <2>3 DEF GrantAndSettle, TurnInput, TypeOK, DriverState, CoordinatorState,
                      MaintState, DrainNotified
  <2> QED
    BY <2>4, <2>5 DEF TurnOutput
<1> QED
  BY <1>1, <1>2 DEF TurnInput

-----------------------------------------------------------------------------
(* Type correctness                                                         *)

\* The caller's steps keep every type.
LEMMA ClientType ==
  ASSUME TypeOK, NEW c \in Clients, ClientStep(c)
  PROVE  TypeOK'
<1> USE DEF TypeOK, ClientState, DriverState, MaintState, admission, residency,
            limits, gates, shown
<1>1. ASSUME NEW d \in Deployments \cup {None}, client[c] = "idle", GrantNow(c, d)
      PROVE  TypeOK'
  BY <1>1 DEF GrantNow
<1>2. CASE \E d \in Deployments : AcquireWarm(c, d)
  BY <1>1, <1>2 DEF AcquireWarm
<1>3. CASE \E d \in Deployments : AcquireQueued(c, d)
  <2>1. PICK d \in Deployments : AcquireQueued(c, d)
    BY <1>3
  <2>2. Append(queue, c) \in Seq(Clients)
    OBVIOUS
  <2> QED
    BY <2>1, <2>2 DEF AcquireQueued, EnsureDriverAndNotify, Ensured, DrainNotified
<1>4. CASE AcquireCurrent(c)
  BY <1>1, <1>4 DEF AcquireCurrent
<1>5. CASE TakeLease(c)
  BY <1>5 DEF TakeLease
<1>6. CASE TakeFailure(c)
  BY <1>6 DEF TakeFailure
<1>7. CASE AbandonWait(c)
  <2>1. queue' \in Seq(Clients)
    <3>1. ASSUME NEW i \in 1..Len(queue)
          PROVE  Without(queue, i) \in Seq(Clients)
      <4>1. Len(queue) - 1 \in Nat /\ \A j \in 1..(Len(queue) - 1) :
              (IF j < i THEN j ELSE j + 1) \in 1..Len(queue)
        OBVIOUS
      <4> QED
        BY <4>1 DEF Without
    <3> QED
      BY <1>7, <3>1 DEF AbandonWait
  <2>2. Released(leaseEpoch[c]) \in Nat
    BY DEF Released
  <2>3. active' \in Nat
    BY <1>7, <2>2 DEF AbandonWait
  <2> QED
    BY <1>7, <2>1, <2>3 DEF AbandonWait, NotifyAll, Notified, DrainNotified
<1>8. CASE CallRelease(c)
  BY <1>8 DEF CallRelease
<1>9. CASE Release(c)
  BY <1>9 DEF Release, Released, NotifyAll, EnsureDriverAndNotify, Notified, Ensured,
              DrainNotified
<1> QED
  BY <1>2, <1>3, <1>4, <1>5, <1>6, <1>7, <1>8, <1>9 DEF ClientStep

\* The three places a pass of the driver starts from are well typed.
LEMMA DriverType ==
  ASSUME TypeOK, DriverStep
  PROVE  TypeOK'
<1> USE ConstantsAssumption DEF TypeOK, admission, residency, limits, gates, shown
<1>1. CASE DriverTurn
  <2> DEFINE s == [q |-> queue, cl |-> client, r |-> resident, ep |-> epoch,
                   lim |-> EffectiveLimit(derived), open |-> Admits, lk |-> opLock,
                   st |-> state, tg |-> target, woke |-> FALSE]
  <2>1. EffectiveLimit(derived) \in Nat \ {0}
    BY LimitPositive
  <2>2. TurnInput(s)
    BY <2>1 DEF TurnInput, Admits
  <2>3. Turn(s)
    BY <1>1 DEF DriverTurn
  <2>4. TurnOutput
    BY <2>2, <2>3, TurnType
  <2> QED
    BY <1>1, <2>4 DEF DriverTurn, TurnOutput
<1>2. CASE DriverLocked
  BY <1>2 DEF DriverLocked, DriverState
<1>3. CASE DriverStopped
  BY <1>3 DEF DriverStopped, DriverState, CoordinatorState, DrainNotified, MaintState
<1>4. CASE DriverStarted
  BY <1>4 DEF DriverStarted, DriverState
<1>5. CASE DriverPublish
  <2>1. PICK d \in 1..MaxDerived :
          /\ derived' = d
          /\ Turn([q |-> queue, cl |-> client, r |-> loading, ep |-> epoch + 1,
                   lim |-> EffectiveLimit(d), open |-> Admits,
                   lk |-> AfterDriverRelease,
                   st |-> IF Admits THEN "ready"
                          ELSE IF stopping THEN "stopping" ELSE "degraded",
                   tg |-> None, woke |-> TRUE])
    BY <1>5 DEF DriverPublish
  <2> DEFINE s == [q |-> queue, cl |-> client, r |-> loading, ep |-> epoch + 1,
                   lim |-> EffectiveLimit(d), open |-> Admits,
                   lk |-> AfterDriverRelease,
                   st |-> IF Admits THEN "ready"
                          ELSE IF stopping THEN "stopping" ELSE "degraded",
                   tg |-> None, woke |-> TRUE]
  <2>2. EffectiveLimit(d) \in Nat \ {0}
    BY LimitPositive
  <2>3. TurnInput(s)
    BY <2>2 DEF TurnInput, Admits, AfterDriverRelease, CoordinatorState
  <2>4. TurnOutput
    BY <2>1, <2>3, TurnType
  <2> QED
    BY <1>5, <2>1, <2>4 DEF DriverPublish, TurnOutput
<1>6. CASE DriverRaises
  BY <1>6 DEF DriverRaises, DriverState
<1>7. ASSUME NEW clean \in BOOLEAN, AfterFailedTransition(clean),
             engine' \in Deployments \cup {None}
      PROVE  TypeOK'
  <2> DEFINE s(k) == [q |-> SubSeq(queue, k + 1, Len(queue)),
                      cl |-> [c \in Clients |->
                                IF \E i \in 1..k : queue[i] = c THEN "failed" ELSE client[c]],
                      r |-> None, ep |-> epoch, lim |-> EffectiveLimit(Conservative),
                      open |-> clean /\ ~stopping,
                      lk |-> AfterDriverRelease,
                      st |-> IF clean THEN "idle" ELSE "degraded",
                      tg |-> None, woke |-> TRUE]
  <2>1. PICK k \in 0..Len(queue) : Turn(s(k))
    BY <1>7 DEF AfterFailedTransition
  <2>2. EffectiveLimit(Conservative) \in Nat \ {0}
    BY LimitPositive DEF Conservative
  <2>3. SubSeq(queue, k + 1, Len(queue)) \in Seq(Clients)
    OBVIOUS
  <2>4. TurnInput(s(k))
    BY <2>2, <2>3 DEF TurnInput, AfterDriverRelease, CoordinatorState, ClientState
  <2>5. TurnOutput
    BY <2>1, <2>4, TurnType
  <2> QED
    BY <1>7, <2>5 DEF AfterFailedTransition, TurnOutput, Conservative
<1>8. CASE DriverCleaned
  BY <1>7, <1>8 DEF DriverCleaned
<1> QED
  BY <1>1, <1>2, <1>3, <1>4, <1>5, <1>6, <1>8 DEF DriverStep

\* Maintenance keeps every type.
LEMMA MaintType ==
  ASSUME TypeOK,
         \/ \E o \in Operations : BeginMaintenance(o)
         \/ MaintStep
         \/ DrainTimesOut
  PROVE  TypeOK'
<1> USE ConstantsAssumption DEF TypeOK, admission, residency, limits, gates, shown
<1>1. ASSUME NEW o \in Operations, BeginMaintenance(o)
      PROVE  TypeOK'
  <2>1. <<>> \in Seq(Clients)
    OBVIOUS
  <2> QED
    BY <1>1, <2>1, ZenonT(40) DEF BeginMaintenance, PastDrain, DrainState, UnloadState, CoordinatorState,
                MaintState, DriverState, ClientState, Notified
<1>2. CASE DrainResumes
  BY <1>2 DEF DrainResumes, PastDrain, DrainState, UnloadState, CoordinatorState, MaintState
<1>3. CASE DriverAwaited
  BY <1>3 DEF DriverAwaited, UnloadState, CoordinatorState, MaintState, DriverState, Notified
<1>4. CASE MaintLocked
  BY <1>4 DEF MaintLocked, UnloadState, CoordinatorState, MaintState, DriverState, Notified
<1>5. CASE MaintStopped
  <2>1. /\ derived' \in 1..MaxDerived
        /\ epoch' \in Nat
        /\ accepting' \in BOOLEAN /\ authoritative' \in BOOLEAN /\ stopping' \in BOOLEAN
    BY <1>5 DEF MaintStopped, Conservative
  <2> QED
    BY <1>5, <2>1 DEF MaintStopped, CoordinatorState, MaintState, DriverState, Notified,
                      AfterMaintRelease
<1>6. CASE MaintFails
  BY <1>6 DEF MaintFails, FailedState, CoordinatorState, MaintState, AfterMaintRelease
<1>7. CASE DrainTimesOut
  <2>1. accepting' \in BOOLEAN /\ authoritative' \in BOOLEAN /\ stopping' \in BOOLEAN
    BY <1>7 DEF DrainTimesOut
  <2>2. state' \in CoordinatorState /\ target' \in Deployments \cup {None}
    BY <1>7 DEF DrainTimesOut, CoordinatorState
  <2> QED
    BY <1>7, <2>1, <2>2 DEF DrainTimesOut, MaintState
<1> QED
  BY <1>1, <1>2, <1>3, <1>4, <1>5, <1>6, <1>7 DEF MaintStep

\* The initial state is well typed.
LEMMA TypeInit == Init => TypeOK
<1> SUFFICES ASSUME Init PROVE TypeOK
  OBVIOUS
<1>1. /\ client \in [Clients -> ClientState]
      /\ wants \in [Clients -> Deployments \cup {None}]
      /\ leaseEpoch \in [Clients -> Nat]
      /\ queue \in Seq(Clients)
  BY DEF Init, ClientState
<1>2. accepting \in BOOLEAN /\ authoritative \in BOOLEAN /\ stopping \in BOOLEAN
  BY DEF Init
<1>3. active \in Nat /\ epoch \in Nat /\ derived \in 1..MaxDerived
  BY ConstantsAssumption DEF Init, Conservative
<1> QED
  BY <1>1, <1>2, <1>3 DEF Init, TypeOK, CoordinatorState, DriverState, MaintState

\* Every step keeps every type.
LEMMA TypeNext == TypeOK /\ [Next]_vars => TypeOK'
<1> SUFFICES ASSUME TypeOK, [Next]_vars PROVE TypeOK'
  OBVIOUS
<1>1. CASE Reconfigure
  BY <1>1 DEF Reconfigure, TypeOK, EnsureDriverAndNotify, Ensured, DrainNotified,
              DriverState, MaintState, admission, residency, gates, shown
<1>2. CASE UNCHANGED vars
  BY <1>2 DEF vars, TypeOK
<1> QED
  BY <1>1, <1>2, ClientType, DriverType, MaintType DEF Next

\* Every reachable state of the coordinator (cuda_residency.py) is well typed:
\* the lease count is never negative, the derived capacity never leaves
\* 1..MaxDerived and only callers are queued, for any number of them.
THEOREM TypeCorrect == Spec => []TypeOK
BY TypeInit, TypeNext, PTL DEF Spec

-----------------------------------------------------------------------------
(* No lost wake-up                                                          *)

\* The waiter left at the head after k grants.
LEMMA HeadOfRest ==
  ASSUME NEW S, NEW q \in Seq(S), NEW k \in 0..Len(q),
         SubSeq(q, k + 1, Len(q)) # <<>>
  PROVE  k < Len(q) /\ Head(SubSeq(q, k + 1, Len(q))) = q[k + 1]
<1>1. k < Len(q)
  OBVIOUS
<1> QED
  BY <1>1

\* The driver goes to sleep only with a waiter left and a lease out, and ends
\* only with nobody waiting.
LEMMA TurnWakeup ==
  ASSUME TypeOK, NEW s, TurnInput(s), Turn(s)
  PROVE  NoLostWakeup'
<1>1. CASE ~s.open
  <2>1. RefuseAll(s)
    BY <1>1 DEF Turn, TurnInput
  <2> QED
    BY <2>1 DEF RefuseAll, NoLostWakeup
<1>2. CASE s.open
  <2>1. PICK k \in 0..Len(s.q) : IsGrantCount(k, s) /\ GrantAndSettle(s, k)
    BY <1>2 DEF Turn
  <2> DEFINE rest == SubSeq(s.q, k + 1, Len(s.q))
  <2>2. queue' = rest /\ active' = active + k
    BY <2>1 DEF GrantAndSettle
  <2>3. driver' \in {"none", "wait", "stop", "lock"}
    BY <2>1 DEF GrantAndSettle
  <2>4. driver' = "none" => rest = <<>>
    BY <2>1 DEF GrantAndSettle
  <2>5. driver' = "wait" => rest # <<>> /\ (wants[Head(rest)] = s.r \/ active + k > 0)
    BY <2>1 DEF GrantAndSettle
  <2>6. (rest # <<>> /\ wants[Head(rest)] = s.r) => active + k > 0
    <3> SUFFICES ASSUME rest # <<>>, wants[Head(rest)] = s.r
                 PROVE  active + k > 0
      OBVIOUS
    <3>1. k < Len(s.q) /\ Head(rest) = s.q[k + 1]
      BY HeadOfRest DEF TurnInput
    <3>2. active + k >= s.lim
      BY <2>1, <3>1 DEF IsGrantCount
    <3>3. active \in Nat /\ s.lim \in Nat \ {0} /\ k \in Nat
      BY DEF TypeOK, TurnInput
    <3> QED
      BY <3>2, <3>3
  <2> QED
    BY <2>2, <2>3, <2>4, <2>5, <2>6 DEF NoLostWakeup
<1> QED
  BY <1>1, <1>2 DEF TurnInput

\* Every step outside the driver's pass notifies whenever it takes a lease or a
\* waiter away, and starts a driver whenever it adds a waiter.
LEMMA WakeupNext == TypeOK /\ NoLostWakeup /\ [Next]_vars => NoLostWakeup'
<1> SUFFICES ASSUME TypeOK, NoLostWakeup, [Next]_vars PROVE NoLostWakeup'
  OBVIOUS
<1> USE DEF admission, residency, limits, gates, shown
<1>1. ASSUME NEW c \in Clients, ClientStep(c) PROVE NoLostWakeup'
  <2>1. ASSUME NEW d, GrantNow(c, d) PROVE NoLostWakeup'
    BY <2>1 DEF GrantNow, NoLostWakeup, TypeOK
  <2>2. CASE \E d \in Deployments : AcquireWarm(c, d)
    BY <2>1, <2>2 DEF AcquireWarm
  <2>3. CASE \E d \in Deployments : AcquireQueued(c, d)
    <3>1. driver' = Ensured(driver)
      BY <2>3 DEF AcquireQueued, EnsureDriverAndNotify
    <3> QED
      BY <3>1 DEF Ensured, NoLostWakeup
  <2>4. CASE AcquireCurrent(c)
    BY <2>1, <2>4 DEF AcquireCurrent
  <2>5. CASE TakeLease(c) \/ TakeFailure(c) \/ CallRelease(c)
    BY <2>5 DEF TakeLease, TakeFailure, CallRelease, NoLostWakeup
  <2>6. CASE AbandonWait(c)
    <3>1. driver' = Notified(driver)
      BY <2>6 DEF AbandonWait, NotifyAll
    <3>2. driver = "none" => queue' = <<>>
      <4>1. CASE client[c] = "queued"
        <5>1. \E i \in 1..Len(queue) : queue[i] = c
          BY <2>6, <4>1 DEF AbandonWait
        <5>2. queue # <<>>
          BY <5>1
        <5> QED
          BY <5>2 DEF NoLostWakeup
      <4>2. CASE client[c] # "queued"
        BY <2>6, <4>2 DEF AbandonWait, NoLostWakeup
      <4> QED
        BY <4>1, <4>2
    <3> QED
      BY <3>1, <3>2 DEF Notified, NoLostWakeup
  <2>7. CASE Release(c)
    <3>1. driver' = Notified(driver) \/ driver' = Ensured(driver)
      BY <2>7 DEF Release, NotifyAll, EnsureDriverAndNotify
    <3>2. queue' = queue
      BY <2>7 DEF Release
    <3> QED
      BY <3>1, <3>2 DEF Notified, Ensured, NoLostWakeup
  <2> QED
    BY <1>1, <2>2, <2>3, <2>4, <2>5, <2>6, <2>7 DEF ClientStep
<1>2. CASE Reconfigure
  <2>1. driver' = Ensured(driver) /\ queue' = queue
    BY <1>2 DEF Reconfigure, EnsureDriverAndNotify
  <2> QED
    BY <2>1 DEF Ensured, NoLostWakeup
<1>3. CASE DriverStep
  <2>1. CASE DriverTurn
    <3>1. EffectiveLimit(derived) \in Nat \ {0}
      BY LimitPositive, ConstantsAssumption DEF TypeOK
    <3>2. TurnInput([q |-> queue, cl |-> client, r |-> resident, ep |-> epoch,
                     lim |-> EffectiveLimit(derived), open |-> Admits, lk |-> opLock,
                     st |-> state, tg |-> target, woke |-> FALSE])
      BY <3>1 DEF TurnInput, TypeOK, Admits
    <3> QED
      BY <2>1, <3>2, TurnWakeup DEF DriverTurn
  <2>2. CASE DriverLocked \/ DriverStopped \/ DriverStarted \/ DriverRaises
    <3>1. /\ driver \notin {"none", "wait"} /\ driver' \notin {"none", "wait"}
      BY <2>2 DEF DriverLocked, DriverStopped, DriverStarted, DriverRaises
    <3> QED
      BY <3>1 DEF NoLostWakeup
  <2>3. CASE DriverPublish
    <3>1. PICK d \in 1..MaxDerived :
            Turn([q |-> queue, cl |-> client, r |-> loading, ep |-> epoch + 1,
                  lim |-> EffectiveLimit(d), open |-> Admits,
                  lk |-> AfterDriverRelease,
                  st |-> IF Admits THEN "ready"
                         ELSE IF stopping THEN "stopping" ELSE "degraded",
                  tg |-> None, woke |-> TRUE])
      BY <2>3 DEF DriverPublish
    <3>2. EffectiveLimit(d) \in Nat \ {0}
      BY LimitPositive, ConstantsAssumption DEF TypeOK
    <3>3. TurnInput([q |-> queue, cl |-> client, r |-> loading, ep |-> epoch + 1,
                     lim |-> EffectiveLimit(d), open |-> Admits,
                     lk |-> AfterDriverRelease,
                     st |-> IF Admits THEN "ready"
                            ELSE IF stopping THEN "stopping" ELSE "degraded",
                     tg |-> None, woke |-> TRUE])
      BY <3>2 DEF TurnInput, TypeOK, Admits, AfterDriverRelease, CoordinatorState
    <3> QED
      BY <3>1, <3>3, TurnWakeup
  <2>4. ASSUME NEW clean \in BOOLEAN, AfterFailedTransition(clean) PROVE NoLostWakeup'
    <3> DEFINE s(k) == [q |-> SubSeq(queue, k + 1, Len(queue)),
                        cl |-> [c \in Clients |->
                                  IF \E i \in 1..k : queue[i] = c THEN "failed" ELSE client[c]],
                        r |-> None, ep |-> epoch, lim |-> EffectiveLimit(Conservative),
                        open |-> clean /\ ~stopping,
                        lk |-> AfterDriverRelease,
                        st |-> IF clean THEN "idle" ELSE "degraded",
                        tg |-> None, woke |-> TRUE]
    <3>1. PICK k \in 0..Len(queue) : Turn(s(k))
      BY <2>4 DEF AfterFailedTransition
    <3>2. EffectiveLimit(Conservative) \in Nat \ {0}
      BY LimitPositive, ConstantsAssumption DEF TypeOK, Conservative
    <3>3. SubSeq(queue, k + 1, Len(queue)) \in Seq(Clients)
      BY DEF TypeOK
    <3>4. TurnInput(s(k))
      BY <3>2, <3>3 DEF TurnInput, TypeOK, AfterDriverRelease, CoordinatorState, ClientState
    <3> QED
      BY <3>1, <3>4, TurnWakeup
  <2>5. CASE DriverCleaned
    BY <2>4, <2>5 DEF DriverCleaned
  <2> QED
    BY <1>3, <2>1, <2>2, <2>3, <2>5 DEF DriverStep
<1>4. ASSUME NEW o \in Operations, BeginMaintenance(o) PROVE NoLostWakeup'
  BY <1>4 DEF BeginMaintenance, Notified, NoLostWakeup
<1>5. CASE MaintStep \/ DrainTimesOut
  <2>1. /\ driver' = driver \/ driver' = Notified(driver)
        /\ queue' = queue /\ active' = active
    BY <1>5 DEF MaintStep, DrainResumes, DriverAwaited, MaintLocked, MaintStopped,
                MaintFails, DrainTimesOut
  <2> QED
    BY <2>1 DEF Notified, NoLostWakeup
<1>6. CASE UNCHANGED vars
  BY <1>6 DEF vars, NoLostWakeup
<1> QED
  BY <1>1, <1>2, <1>3, <1>4, <1>5, <1>6 DEF Next

\* No waiter is ever forgotten: a caller in the queue has a live driver task, and
\* a driver asleep in Condition.wait has a waiter to serve and a lease out whose
\* return notifies it, whatever the interleaving, the limits and the failures.
THEOREM WakeupSafe == Spec => []NoLostWakeup
<1>1. Init => NoLostWakeup
  BY DEF Init, NoLostWakeup
<1> QED
  BY <1>1, WakeupNext, TypeCorrect, PTL DEF Spec

-----------------------------------------------------------------------------
(* The queue                                                                *)

\* Waiters are distinct callers that wait for a deployment.
Waiting(q, cl) ==
    /\ \A i \in 1..Len(q) : cl[q[i]] = "queued" /\ wants[q[i]] \in Deployments
    /\ \A i, j \in 1..Len(q) : q[i] = q[j] => i = j

QueueOK == Waiting(queue, client)

\* What is left of a queue past its first k waiters, whatever these become
LEMMA RestWaits ==
  ASSUME NEW q \in Seq(Clients), NEW cl, Waiting(q, cl), NEW k \in 0..Len(q),
         NEW cl2, \A c \in Clients : (\A i \in 1..k : q[i] # c) => cl2[c] = cl[c]
  PROVE  Waiting(SubSeq(q, k + 1, Len(q)), cl2)
<1> DEFINE rest == SubSeq(q, k + 1, Len(q))
<1>1. rest \in Seq(Clients) /\ Len(rest) = Len(q) - k
  OBVIOUS
<1>2. \A i \in 1..Len(rest) : rest[i] = q[k + i] /\ k + i \in 1..Len(q) /\ k + i > k
  BY <1>1
<1>3. \A i \in 1..Len(rest) : rest[i] \in Clients /\ \A j \in 1..k : q[j] # rest[i]
  BY <1>1, <1>2 DEF Waiting
<1>4. \A i \in 1..Len(rest) : cl2[rest[i]] = "queued" /\ wants[rest[i]] \in Deployments
  <2> TAKE i \in 1..Len(rest)
  <2>1. rest[i] = q[k + i] /\ k + i \in 1..Len(q)
    BY <1>2
  <2>2. cl[q[k + i]] = "queued" /\ wants[q[k + i]] \in Deployments
    BY <2>1 DEF Waiting
  <2>3. cl2[rest[i]] = cl[rest[i]]
    BY <1>3
  <2> QED
    BY <2>1, <2>2, <2>3, Zenon
<1>5. \A i, j \in 1..Len(rest) : rest[i] = rest[j] => i = j
  <2> TAKE i, j \in 1..Len(rest)
  <2>1. /\ rest[i] = q[k + i] /\ rest[j] = q[k + j]
        /\ k + i \in 1..Len(q) /\ k + j \in 1..Len(q)
    BY <1>2
  <2>2. q[k + i] = q[k + j] => k + i = k + j
    BY <2>1 DEF Waiting
  <2>3. k + i = k + j => i = j
    BY <1>1
  <2> QED
    BY <2>1, <2>2, <2>3, Zenon
<1> QED
  BY <1>4, <1>5 DEF Waiting

\* A waiter that leaves the queue leaves the others as they were.
LEMMA Withdrawn ==
  ASSUME TypeOK, QueueOK, NEW i \in 1..Len(queue),
         queue' = Without(queue, i),
         \A b \in Clients \ {queue[i]} : client'[b] = client[b] /\ wants'[b] = wants[b]
  PROVE  QueueOK'
<1> DEFINE n == Len(queue) - 1
           old(j) == IF j < i THEN j ELSE j + 1
<1>1. queue \in Seq(Clients) /\ i \in Nat /\ Len(queue) \in Nat
  BY DEF TypeOK
<1>2. Len(queue') = n /\ \A j \in 1..n : queue'[j] = queue[old(j)]
  BY <1>1 DEF Without
<1>3. \A j \in 1..n : old(j) \in 1..Len(queue) /\ old(j) # i
  BY <1>1
<1>4. \A j, m \in 1..n : old(j) = old(m) => j = m
  BY <1>1
<1>5. /\ \A j \in 1..Len(queue) : /\ client[queue[j]] = "queued"
                                  /\ wants[queue[j]] \in Deployments
                                  /\ queue[j] \in Clients
      /\ \A j, m \in 1..Len(queue) : queue[j] = queue[m] => j = m
  BY <1>1 DEF QueueOK, Waiting
<1>6. \A j \in 1..n : queue'[j] \in Clients \ {queue[i]}
  BY <1>2, <1>3, <1>5
<1>7. \A j \in 1..n : client'[queue'[j]] = "queued" /\ wants'[queue'[j]] \in Deployments
  <2> TAKE j \in 1..n
  <2>1. client'[queue'[j]] = client[queue'[j]] /\ wants'[queue'[j]] = wants[queue'[j]]
    BY <1>6
  <2>2. queue'[j] = queue[old(j)] /\ old(j) \in 1..Len(queue)
    BY <1>2, <1>3
  <2> QED
    BY <1>5, <2>1, <2>2
<1>8. \A j, m \in 1..n : queue'[j] = queue'[m] => j = m
  BY <1>2, <1>3, <1>4, <1>5, SMTT(30)
<1> QED
  BY <1>2, <1>7, <1>8 DEF QueueOK, Waiting

\* A caller that joins the queue was not in it.
LEMMA Joined ==
  ASSUME TypeOK, QueueOK, NEW c \in Clients, NEW d \in Deployments, client[c] = "idle",
         queue' = Append(queue, c), client' = [client EXCEPT ![c] = "queued"],
         wants' = [wants EXCEPT ![c] = d]
  PROVE  QueueOK'
<1>1. queue \in Seq(Clients)
  BY DEF TypeOK
<1>2. \A i \in 1..Len(queue) : queue[i] # c /\ queue[i] \in Clients
  BY <1>1 DEF QueueOK, Waiting
<1>3. Len(queue') = Len(queue) + 1 /\ queue'[Len(queue) + 1] = c
  BY <1>1
<1>4. \A i \in 1..Len(queue) : queue'[i] = queue[i]
  BY <1>1
<1>5. \A i \in 1..Len(queue) :
         client'[queue[i]] = "queued" /\ wants'[queue[i]] \in Deployments
  BY <1>2 DEF TypeOK, QueueOK, Waiting
<1>6. client'[c] = "queued" /\ wants'[c] \in Deployments
  BY DEF TypeOK
<1>7. \A i \in 1..Len(queue') : i \in 1..Len(queue) \/ i = Len(queue) + 1
  BY <1>1, <1>3
<1>8. \A i \in 1..Len(queue') :
         client'[queue'[i]] = "queued" /\ wants'[queue'[i]] \in Deployments
  BY <1>3, <1>4, <1>5, <1>6, <1>7
<1>9. \A i, j \in 1..Len(queue) : queue[i] = queue[j] => i = j
  BY DEF QueueOK, Waiting
<1>10. \A i, j \in 1..Len(queue') : queue'[i] = queue'[j] => i = j
  BY <1>2, <1>3, <1>4, <1>7, <1>9
<1> QED
  BY <1>8, <1>10 DEF QueueOK, Waiting

\* A caller that does not wait changes: the queue stays.
LEMMA OthersWait ==
  ASSUME TypeOK, QueueOK, NEW c \in Clients, client[c] # "queued", queue' = queue,
         \A b \in Clients \ {c} : client'[b] = client[b] /\ wants'[b] = wants[b]
  PROVE  QueueOK'
<1>1. \A i \in 1..Len(queue) : queue[i] # c /\ queue[i] \in Clients
  BY DEF TypeOK, QueueOK, Waiting
<1>2. \A i \in 1..Len(queue) :
         client'[queue[i]] = "queued" /\ wants'[queue[i]] \in Deployments
  BY <1>1 DEF QueueOK, Waiting
<1> QED
  BY <1>2 DEF QueueOK, Waiting

\* Granting the first k waiters leaves the others waiting.
LEMMA GrantLeaves ==
  ASSUME NEW s, s.q \in Seq(Clients), Waiting(s.q, s.cl), NEW k \in 0..Len(s.q),
         GrantAndSettle(s, k)
  PROVE  Waiting(queue', client')
<1>1. queue' = SubSeq(s.q, k + 1, Len(s.q))
  BY DEF GrantAndSettle
<1>2. client' = [c \in Clients |-> IF c \in {s.q[i] : i \in 1..k} THEN "granted" ELSE s.cl[c]]
  BY DEF GrantAndSettle
<1>3. \A c \in Clients : (\A i \in 1..k : s.q[i] # c) => client'[c] = s.cl[c]
  BY <1>2
<1>4. Waiting(SubSeq(s.q, k + 1, Len(s.q)), client')
  BY <1>3, RestWaits
<1> QED
  BY <1>1, <1>4

\* What a pass of the driver leaves in the queue
LEMMA PassQueue ==
  ASSUME NEW s, s.q \in Seq(Clients), s.open \in BOOLEAN, Waiting(s.q, s.cl), Turn(s),
         wants' = wants
  PROVE  QueueOK'
<1>1. CASE ~s.open
  BY <1>1 DEF Turn, RefuseAll, QueueOK, Waiting
<1>2. CASE s.open
  <2>1. PICK k \in 0..Len(s.q) : GrantAndSettle(s, k)
    BY <1>2 DEF Turn
  <2> QED
    BY <2>1, GrantLeaves DEF QueueOK, Waiting
<1> QED
  BY <1>1, <1>2

\* The three passes of the driver, with what they start from
LEMMA Passes ==
  ASSUME TypeOK, QueueOK, DriverStep
  PROVE  \/ /\ DriverLocked \/ DriverStopped \/ DriverStarted \/ DriverRaises
            /\ UNCHANGED admission
         \/ /\ DriverTurn \/ DriverPublish \/ DriverCleaned
            /\ wants' = wants
            /\ \E s : /\ TurnInput(s) /\ Waiting(s.q, s.cl) /\ Turn(s)
                      /\ resident' = s.r
                      /\ s.open => Admits'
                      /\ ~s.open => ~Admits'
                      /\ DriverTurn => s.st = state /\ s.tg = target /\ resident' = resident
                                       /\ UNCHANGED gates
                      /\ ~DriverTurn => /\ s.tg = None
                                        /\ ~s.open => s.st \in {"idle", "stopping", "degraded"}
                                        /\ s.st = "idle" => s.r = None
                      /\ \/ s.q = queue /\ s.cl = client
                         \/ s.r = None
                      /\ \A c \in Clients : s.cl[c] \in {client[c], "failed"}
                      /\ Len(s.q) <= Len(queue)
<1>1. CASE DriverLocked \/ DriverStopped \/ DriverStarted \/ DriverRaises
  BY <1>1 DEF DriverLocked, DriverStopped, DriverStarted, DriverRaises
<1>2. CASE DriverTurn
  <2> DEFINE s == [q |-> queue, cl |-> client, r |-> resident, ep |-> epoch,
                   lim |-> EffectiveLimit(derived), open |-> Admits, lk |-> opLock,
                   st |-> state, tg |-> target, woke |-> FALSE]
  <2>1. TurnInput(s)
    BY LimitPositive, ConstantsAssumption DEF TurnInput, Admits, TypeOK
  <2>2. /\ Turn(s) /\ wants' = wants /\ resident' = resident /\ UNCHANGED gates
    BY <1>2 DEF DriverTurn, residency
  <2>3. Admits' = Admits
    BY <2>2 DEF Admits, gates
  <2>4. /\ s.q = queue /\ s.cl = client /\ s.r = resident /\ s.open = Admits
        /\ s.st = state /\ s.tg = target
    OBVIOUS
  <2> HIDE DEF s
  <2>5. Waiting(s.q, s.cl) /\ Len(s.q) <= Len(queue)
    BY <2>4 DEF QueueOK, TypeOK
  <2> QED
    BY <1>2, <2>1, <2>2, <2>3, <2>4, <2>5
<1>3. CASE DriverPublish
  <2>1. PICK d \in 1..MaxDerived :
          Turn([q |-> queue, cl |-> client, r |-> loading, ep |-> epoch + 1,
                lim |-> EffectiveLimit(d), open |-> Admits,
                lk |-> AfterDriverRelease,
                st |-> IF Admits THEN "ready"
                       ELSE IF stopping THEN "stopping" ELSE "degraded",
                tg |-> None, woke |-> TRUE])
    BY <1>3 DEF DriverPublish
  <2> DEFINE s == [q |-> queue, cl |-> client, r |-> loading, ep |-> epoch + 1,
                   lim |-> EffectiveLimit(d), open |-> Admits,
                   lk |-> AfterDriverRelease,
                   st |-> IF Admits THEN "ready"
                          ELSE IF stopping THEN "stopping" ELSE "degraded",
                   tg |-> None, woke |-> TRUE]
  <2>2. EffectiveLimit(d) \in Nat \ {0}
    BY LimitPositive, ConstantsAssumption DEF TypeOK
  <2>3. TurnInput(s)
    BY <2>2 DEF TurnInput, TypeOK, Admits, AfterDriverRelease, CoordinatorState
  <2>4. Turn(s)
    BY <2>1
  <2>5. wants' = wants /\ resident' = loading /\ Admits' = Admits /\ ~DriverTurn
    BY <1>3 DEF DriverPublish, DriverTurn, Admits, gates
  <2>6. /\ s.q = queue /\ s.cl = client /\ s.r = loading /\ s.open = Admits /\ s.tg = None
        /\ ~Admits => s.st \in {"stopping", "degraded"}
        /\ s.st # "idle"
    OBVIOUS
  <2> HIDE DEF s
  <2>7. Waiting(s.q, s.cl) /\ Len(s.q) <= Len(queue)
    BY <2>6 DEF QueueOK, TypeOK
  <2> QED
    BY <1>3, <2>3, <2>4, <2>5, <2>6, <2>7
<1>4. ASSUME NEW clean \in BOOLEAN, AfterFailedTransition(clean), DriverCleaned
      PROVE  \E s : /\ TurnInput(s) /\ Waiting(s.q, s.cl) /\ Turn(s)
                    /\ s.r = None /\ s.tg = None /\ s.st \in {"idle", "degraded"}
                    /\ s.open => Admits'
                    /\ ~s.open => ~Admits'
                    /\ \A c \in Clients : s.cl[c] \in {client[c], "failed"}
                    /\ Len(s.q) <= Len(queue)
  <2> DEFINE F(k) == [c \in Clients |->
                        IF \E i \in 1..k : queue[i] = c THEN "failed" ELSE client[c]]
             s(k) == [q |-> SubSeq(queue, k + 1, Len(queue)), cl |-> F(k),
                      r |-> None, ep |-> epoch, lim |-> EffectiveLimit(Conservative),
                      open |-> clean /\ ~stopping,
                      lk |-> AfterDriverRelease,
                      st |-> IF clean THEN "idle" ELSE "degraded",
                      tg |-> None, woke |-> TRUE]
  <2>1. PICK k \in 0..Len(queue) : Turn(s(k))
    BY <1>4 DEF AfterFailedTransition
  <2>2. EffectiveLimit(Conservative) \in Nat \ {0}
    BY LimitPositive, ConstantsAssumption DEF TypeOK, Conservative
  <2>3. /\ queue \in Seq(Clients) /\ SubSeq(queue, k + 1, Len(queue)) \in Seq(Clients)
        /\ Len(SubSeq(queue, k + 1, Len(queue))) <= Len(queue)
    BY DEF TypeOK
  <2>4. TurnInput(s(k))
    BY <2>2, <2>3 DEF TurnInput, TypeOK, AfterDriverRelease, CoordinatorState, ClientState
  <2>5. /\ \A c \in Clients : F(k)[c] \in {client[c], "failed"}
        /\ \A c \in Clients : (\A i \in 1..k : queue[i] # c) => F(k)[c] = client[c]
    OBVIOUS
  <2>6. Waiting(SubSeq(queue, k + 1, Len(queue)), F(k))
    <3> HIDE DEF F
    <3> QED
      BY <2>3, <2>5, RestWaits DEF QueueOK
  <2>7. Admits' = (clean /\ ~stopping)
    BY <1>4 DEF AfterFailedTransition, Admits, TypeOK
  <2>8. /\ s(k).q = SubSeq(queue, k + 1, Len(queue)) /\ s(k).cl = F(k) /\ s(k).r = None
        /\ s(k).tg = None /\ s(k).st \in {"idle", "degraded"}
        /\ s(k).open = (clean /\ ~stopping)
    OBVIOUS
  <2> HIDE DEF s, F
  <2>9. Waiting(s(k).q, s(k).cl)
    BY <2>6, <2>8
  <2> QED
    BY <2>1, <2>3, <2>4, <2>5, <2>7, <2>8, <2>9
<1>5. CASE DriverCleaned
  <2>1. wants' = wants /\ resident' = None /\ ~DriverTurn
    BY <1>5 DEF DriverCleaned, AfterFailedTransition, DriverTurn
  <2>2. PICK clean \in BOOLEAN : AfterFailedTransition(clean)
    BY <1>5 DEF DriverCleaned
  <2> QED
    BY <1>4, <1>5, <2>1, <2>2
<1> QED
  BY <1>1, <1>2, <1>3, <1>5 DEF DriverStep

\* Every step keeps the waiters distinct and waiting.
LEMMA QueueNext == TypeOK /\ QueueOK /\ [Next]_vars => QueueOK'
<1> SUFFICES ASSUME TypeOK, QueueOK, [Next]_vars PROVE QueueOK'
  OBVIOUS
<1>1. ASSUME UNCHANGED <<client, wants, queue>> PROVE QueueOK'
  BY <1>1 DEF QueueOK, Waiting
<1>2. ASSUME NEW c \in Clients, ClientStep(c) PROVE QueueOK'
  <2>1. CASE \E d \in Deployments : AcquireQueued(c, d)
    BY <2>1, Joined DEF AcquireQueued
  <2>2. CASE AbandonWait(c) /\ client[c] = "queued"
    <3>1. PICK i \in 1..Len(queue) : queue[i] = c /\ queue' = Without(queue, i)
      BY <2>2 DEF AbandonWait
    <3>2. \A b \in Clients \ {c} : client'[b] = client[b] /\ wants'[b] = wants[b]
      BY <2>2 DEF AbandonWait, TypeOK
    <3> QED
      BY <3>1, <3>2, Withdrawn
  <2>3. CASE ~(\E d \in Deployments : AcquireQueued(c, d)) /\ ~(AbandonWait(c) /\ client[c] = "queued")
    <3>1. /\ client[c] # "queued" /\ queue' = queue
          /\ \A b \in Clients \ {c} : client'[b] = client[b] /\ wants'[b] = wants[b]
      BY <1>2, <2>3 DEF ClientStep, AcquireWarm, AcquireCurrent, GrantNow, TakeLease,
         TakeFailure, AbandonWait, CallRelease, Release, TypeOK
    <3> QED
      BY <3>1, OthersWait
  <2> QED
    BY <2>1, <2>2, <2>3
<1>3. CASE DriverStep
  <2>1. CASE UNCHANGED admission
    BY <1>1, <2>1 DEF admission
  <2>2. ASSUME wants' = wants, NEW s, TurnInput(s), Waiting(s.q, s.cl), Turn(s)
        PROVE  QueueOK'
    BY <2>2, PassQueue DEF TurnInput
  <2> QED
    BY <1>3, <2>1, <2>2, Passes
<1>4. ASSUME NEW o \in Operations, BeginMaintenance(o) PROVE QueueOK'
  BY <1>4 DEF BeginMaintenance, QueueOK, Waiting
<1>5. CASE Reconfigure \/ MaintStep \/ DrainTimesOut \/ UNCHANGED vars
  BY <1>1, <1>5 DEF Reconfigure, MaintStep, DrainResumes, DriverAwaited, MaintLocked,
     MaintStopped, MaintFails, DrainTimesOut, vars, admission
<1> QED
  BY <1>2, <1>3, <1>4, <1>5 DEF Next

\* The queue holds distinct waiters in every reachable state.
LEMMA QueueSafe == Spec => [](TypeOK /\ QueueOK)
<1>1. Init => QueueOK
  BY DEF Init, QueueOK, Waiting
<1> QED
  BY <1>1, QueueNext, TypeCorrect, PTL DEF Spec

-----------------------------------------------------------------------------
(* First come, first served                                                 *)

\* Whoever obtains a lease in a pass of the driver leaves nobody who came before
\* it waiting.
LEMMA PassInOrder ==
  ASSUME TypeOK, QueueOK, NEW s, TurnInput(s), Waiting(s.q, s.cl), Turn(s),
         (s.q = queue /\ s.cl = client) \/ s.r = None,
         \A c \in Clients : s.cl[c] \in {client[c], "failed"},
         NEW c \in Clients, Leased(c)', ~Leased(c), NEW b \in Ahead(c)
  PROVE  client'[b] # "queued"
<1>1. CASE ~s.open
  <2>1. client' = [x \in Clients |-> IF x \in Members(s.q) THEN "failed" ELSE s.cl[x]]
    BY <1>1 DEF Turn, RefuseAll
  <2>2. client'[c] \in {client[c], "failed"}
    BY <2>1
  <2> QED
    BY <2>2 DEF Leased
<1>2. CASE s.open
  <2>1. PICK k \in 0..Len(s.q) : IsGrantCount(k, s) /\ GrantAndSettle(s, k)
    BY <1>2 DEF Turn
  <2>2. client' = [x \in Clients |-> IF x \in {s.q[i] : i \in 1..k} THEN "granted" ELSE s.cl[x]]
    BY <2>1 DEF GrantAndSettle
  <2>3. PICK m \in 1..k : s.q[m] = c
    BY <2>2 DEF Leased
  <2>4. wants[c] = s.r /\ m \in 1..Len(s.q)
    BY <2>1, <2>3 DEF IsGrantCount
  <2>5. wants[c] \in Deployments
    BY <2>3, <2>4 DEF Waiting
  <2>6. s.q = queue
    BY <2>4, <2>5, ConstantsAssumption
  <2>7. PICK j \in 1..Len(queue) : b = queue[j] /\ \A i \in 1..j : queue[i] # c
    BY DEF Ahead
  <2>8. j < m
    BY <2>3, <2>4, <2>6, <2>7
  <2>9. j \in 1..k /\ b = s.q[j] /\ b \in Clients
    BY <2>3, <2>6, <2>7, <2>8 DEF TypeOK
  <2> QED
    BY <2>2, <2>9
<1> QED
  BY <1>1, <1>2 DEF TurnInput

\* FIFO, for every number of callers and whatever fails, is unloaded or reloaded:
\* whoever obtains a lease in a step leaves nobody who came before it still
\* waiting.  The immediate grant needs an empty queue, and the driver grants from
\* the head of it.
THEOREM FirstComeFirstServed == Spec => NoOvertaking
<1>1. ASSUME TypeOK, QueueOK, [Next]_vars
      PROVE  [\A c \in Clients : (Leased(c)' /\ ~Leased(c)) =>
                \A b \in Ahead(c) : client'[b] # "queued"]_vars
  <2> SUFFICES ASSUME Next, NEW c \in Clients, Leased(c)', ~Leased(c), NEW b \in Ahead(c)
               PROVE  client'[b] # "queued"
    BY <1>1
  <2>1. queue # <<>>
    BY DEF Ahead
  <2>2. ASSUME NEW x \in Clients, ClientStep(x) PROVE FALSE
    <3>1. x = c
      BY <1>1, <2>2 DEF ClientStep, AcquireWarm, AcquireQueued, AcquireCurrent, GrantNow,
         TakeLease, TakeFailure, AbandonWait, CallRelease, Release, Leased, TypeOK
    <3>2. client[c] \notin {"granted", "holding", "releasing"}
      BY DEF Leased
    <3>3. client'[c] \in {"granted", "holding", "releasing"}
      BY DEF Leased
    <3>4. \E d : GrantNow(c, d)
      BY <1>1, <2>2, <3>1, <3>2, <3>3 DEF ClientStep, AcquireWarm, AcquireQueued, AcquireCurrent,
         TakeLease, TakeFailure, AbandonWait, CallRelease, Release, TypeOK
    <3> QED
      BY <2>1, <3>4 DEF GrantNow, FreePermit
  <2>3. CASE DriverStep
    <3>1. ~UNCHANGED admission
      BY DEF admission, Leased
    <3>2. \E s : /\ TurnInput(s) /\ Waiting(s.q, s.cl) /\ Turn(s)
                 /\ (s.q = queue /\ s.cl = client) \/ s.r = None
                 /\ \A x \in Clients : s.cl[x] \in {client[x], "failed"}
      BY <1>1, <2>3, <3>1, Passes
    <3> QED
      BY <1>1, <3>2, PassInOrder
  <2>4. ASSUME NEW o \in Operations, BeginMaintenance(o) PROVE FALSE
    BY <2>4 DEF BeginMaintenance, Leased
  <2>5. CASE Reconfigure \/ MaintStep \/ DrainTimesOut
    <3>1. client' = client
      BY <2>5 DEF Reconfigure, MaintStep, DrainResumes, DriverAwaited, MaintLocked,
         MaintStopped, MaintFails, DrainTimesOut, admission
    <3> QED
      BY <3>1 DEF Leased
  <2> QED
    BY <2>2, <2>3, <2>4, <2>5 DEF Next
<1>2. TypeOK /\ QueueOK /\ [Next]_vars =>
        [\A c \in Clients : (Leased(c)' /\ ~Leased(c)) =>
           \A b \in Ahead(c) : client'[b] # "queued"]_vars
  BY <1>1
<1> QED
  BY <1>2, QueueSafe, PTL DEF Spec, NoOvertaking

-----------------------------------------------------------------------------
(* The published document                                                   *)

\* What the coordinator shows of itself: a transition has a target, idle and
\* ready say whether there is a resident, and an open coordinator is neither
\* degraded nor stopping.  The last needs that a shutdown in progress is flagged.
ShownOK ==
    /\ target # None => state \in {"draining", "unloading", "loading"}
    /\ state = "idle" => resident = None
    /\ state = "ready" => resident # None
    /\ Admits => state \notin {"degraded", "stopping"}
    /\ op = "shutdown" => stopping

\* A pass of the driver shows what it decided.
LEMMA PassShown ==
  ASSUME TypeOK, NEW s, TurnInput(s), Waiting(s.q, s.cl), Turn(s), s.open
  PROVE  /\ target' # None => state' \in {"draining", "unloading"}
         /\ state' = "idle" => s.r = None
         /\ state' = "ready" => s.r # None
         /\ state' \in {"idle", "ready", "draining", "unloading"}
<1>1. PICK k \in 0..Len(s.q) : GrantAndSettle(s, k)
  BY DEF Turn
<1> DEFINE rest == SubSeq(s.q, k + 1, Len(s.q))
<1>2. rest # <<>> => wants[Head(rest)] \in Deployments
  <2> SUFFICES ASSUME rest # <<>> PROVE wants[Head(rest)] \in Deployments
    OBVIOUS
  <2>1. k < Len(s.q) /\ Head(rest) = s.q[k + 1]
    BY HeadOfRest DEF TurnInput
  <2>2. k + 1 \in 1..Len(s.q)
    BY <2>1 DEF TurnInput
  <2> QED
    BY <2>1, <2>2 DEF Waiting
<1>3. \/ state' = (IF s.r # None THEN "ready" ELSE "idle") /\ target' = None
      \/ rest # <<>> /\ wants[Head(rest)] = s.r /\ state' = "ready" /\ target' = None
      \/ state' \in {"draining", "unloading"}
  BY <1>1 DEF GrantAndSettle
<1> QED
  BY <1>2, <1>3, ConstantsAssumption

\* Every step shows what it did.
LEMMA ShownNext == TypeOK /\ QueueOK /\ ShownOK /\ [Next]_vars => ShownOK'
<1> SUFFICES ASSUME TypeOK, QueueOK, ShownOK, [Next]_vars PROVE ShownOK'
  OBVIOUS
<1> USE DEF residency, gates, shown
<1>1. ASSUME UNCHANGED <<state, target, resident, accepting, authoritative, stopping, op>>
      PROVE  ShownOK'
  BY <1>1 DEF ShownOK, Admits
<1>2. ASSUME NEW c \in Clients, ClientStep(c) PROVE ShownOK'
  BY <1>1, <1>2 DEF ClientStep, AcquireWarm, AcquireQueued, AcquireCurrent, GrantNow,
     TakeLease, TakeFailure, AbandonWait, CallRelease, Release
<1>3. CASE DriverStep
  <2>1. CASE DriverLocked \/ DriverStarted \/ DriverRaises
    BY <1>1, <2>1 DEF DriverLocked, DriverStarted, DriverRaises
  <2>2. CASE DriverStopped
    BY <2>2 DEF DriverStopped, ShownOK, Admits
  <2>3. ASSUME DriverTurn \/ DriverPublish \/ DriverCleaned, NEW s,
               /\ TurnInput(s) /\ Waiting(s.q, s.cl) /\ Turn(s)
               /\ resident' = s.r
               /\ s.open => Admits'
               /\ ~s.open => ~Admits'
               /\ DriverTurn => s.st = state /\ s.tg = target /\ resident' = resident
                                /\ UNCHANGED gates
               /\ ~DriverTurn => /\ s.tg = None
                                 /\ ~s.open => s.st \in {"idle", "stopping", "degraded"}
                                 /\ s.st = "idle" => s.r = None
        PROVE  ShownOK'
    <3>1. op' = op /\ stopping' = stopping
      BY <2>3 DEF DriverTurn, DriverPublish, DriverCleaned, AfterFailedTransition
    <3>2. CASE s.open
      BY <2>3, <3>1, <3>2, PassShown DEF ShownOK
    <3>3. CASE ~s.open
      <4>1. state' = s.st /\ target' = s.tg
        BY <2>3, <3>3 DEF Turn, RefuseAll
      <4> QED
        BY <2>3, <3>1, <3>3, <4>1 DEF ShownOK
    <3> QED
      BY <2>3, <3>2, <3>3 DEF TurnInput
  <2> QED
    BY <1>3, <2>1, <2>2, <2>3, Passes
<1>4. ASSUME NEW o \in Operations, BeginMaintenance(o) PROVE ShownOK'
  <2>1. ~accepting' /\ op' = o /\ stopping' = (stopping \/ o = "shutdown") /\ resident' = resident
    BY <1>4 DEF BeginMaintenance
  <2>2. \/ state' \in {"stopping", "draining", "unloading"} /\ target' = None
        \/ state' = state /\ target' = target
    BY <1>4 DEF BeginMaintenance, PastDrain, DrainState, UnloadState
  <2> QED
    BY <2>1, <2>2 DEF ShownOK, Admits
<1>5. CASE DrainResumes
  <2>1. UNCHANGED <<resident, accepting, authoritative, stopping, op>>
    BY <1>5 DEF DrainResumes
  <2>2. \/ state' = DrainState(op) /\ target' = None
        \/ state' = UnloadState(op) /\ target' = None
        \/ state' = state /\ target' = target
    BY <1>5 DEF DrainResumes, PastDrain
  <2> QED
    BY <2>1, <2>2 DEF ShownOK, Admits, DrainState, UnloadState
<1>6. CASE DriverAwaited \/ MaintLocked
  <2>1. UNCHANGED <<resident, accepting, authoritative, stopping, op>>
    BY <1>6 DEF DriverAwaited, MaintLocked
  <2>2. \/ state' = UnloadState(op) /\ target' = None
        \/ state' = state /\ target' = target
    BY <1>6 DEF DriverAwaited, MaintLocked
  <2> QED
    BY <2>1, <2>2 DEF ShownOK, Admits, UnloadState
<1>7. CASE MaintStopped
  <2>1. /\ resident' = None /\ target' = None /\ op' = "none" /\ stopping' = stopping
        /\ state' = IF op = "shutdown" THEN "stopping" ELSE "idle"
    BY <1>7 DEF MaintStopped
  <2> QED
    BY <2>1 DEF ShownOK, Admits
<1>8. CASE MaintFails
  BY <1>8 DEF MaintFails, ShownOK, Admits, FailedState
<1>9. CASE DrainTimesOut
  <2>1. CASE op # "shutdown"
    BY <1>9, <2>1 DEF DrainTimesOut, ShownOK, Admits
  <2>2. CASE op = "shutdown"
    BY <1>9, <2>2 DEF DrainTimesOut, ShownOK, Admits
  <2> QED
    BY <2>1, <2>2
<1>10. CASE Reconfigure \/ UNCHANGED vars
  BY <1>1, <1>10 DEF Reconfigure, vars
<1> QED
  BY <1>2, <1>3, <1>4, <1>5, <1>6, <1>7, <1>8, <1>9, <1>10 DEF Next, MaintStep

\* While the configured depth never changes, the queue stays within it.
WithinDepth == QueueDepths = {depth} => Len(queue) <= depth

\* A pass of the driver lets nobody into the queue.
LEMMA PassShrinks ==
  ASSUME NEW s, s.q \in Seq(Clients), Turn(s)
  PROVE  Len(queue') <= Len(s.q)
<1>1. CASE queue' = <<>>
  BY <1>1
<1>2. ASSUME NEW k \in 0..Len(s.q), queue' = SubSeq(s.q, k + 1, Len(s.q))
      PROVE  Len(queue') <= Len(s.q)
  BY <1>2
<1> QED
  BY <1>1, <1>2 DEF Turn, RefuseAll, GrantAndSettle

\* Only a caller that finds room joins the queue.
LEMMA DepthNext == TypeOK /\ QueueOK /\ WithinDepth /\ [Next]_vars => WithinDepth'
<1> SUFFICES ASSUME TypeOK, QueueOK, WithinDepth, [Next]_vars, QueueDepths = {depth'}
             PROVE  Len(queue') <= depth'
  BY DEF WithinDepth
<1>1. depth' = depth /\ depth \in Nat /\ queue \in Seq(Clients) /\ Len(queue) <= depth
  BY ConstantsAssumption DEF TypeOK, WithinDepth
<1>2. ASSUME Len(queue') <= Len(queue), Len(queue') \in Nat PROVE Len(queue') <= depth'
  BY <1>1, <1>2
<1>3. ASSUME queue' = queue \/ queue' = <<>> PROVE Len(queue') <= depth'
  BY <1>1, <1>3
<1>4. ASSUME NEW c \in Clients, ClientStep(c) PROVE Len(queue') <= depth'
  <2>1. CASE \E d \in Deployments : AcquireQueued(c, d)
    BY <1>1, <2>1 DEF AcquireQueued
  <2>2. CASE AbandonWait(c)
    <3>1. CASE queue' = queue
      BY <1>3, <3>1
    <3>2. ASSUME NEW i \in 1..Len(queue), queue' = Without(queue, i)
          PROVE  Len(queue') <= depth'
      <4>1. Len(queue') = Len(queue) - 1
        BY <1>1, <3>2 DEF Without
      <4> QED
        BY <1>1, <4>1
    <3> QED
      BY <2>2, <3>1, <3>2 DEF AbandonWait
  <2>3. CASE ~(\E d \in Deployments : AcquireQueued(c, d)) /\ ~AbandonWait(c)
    BY <1>3, <1>4, <2>3 DEF ClientStep, AcquireWarm, AcquireCurrent, GrantNow, TakeLease,
       TakeFailure, CallRelease, Release
  <2> QED
    BY <2>1, <2>2, <2>3
<1>5. CASE DriverStep
  <2>1. CASE UNCHANGED admission
    BY <1>3, <2>1 DEF admission
  <2>2. ASSUME NEW s, TurnInput(s), Turn(s), Len(s.q) <= Len(queue)
        PROVE  Len(queue') <= depth'
    <3>1. s.q \in Seq(Clients) /\ Len(queue') <= Len(s.q)
      BY <2>2, PassShrinks DEF TurnInput
    <3>2. queue' \in Seq(Clients)
      BY TypeNext DEF TypeOK
    <3> QED
      BY <1>1, <2>2, <3>1, <3>2
  <2> QED
    BY <1>5, <2>1, <2>2, Passes
<1>6. ASSUME NEW o \in Operations, BeginMaintenance(o) PROVE Len(queue') <= depth'
  BY <1>3, <1>6 DEF BeginMaintenance
<1>7. CASE Reconfigure \/ MaintStep \/ DrainTimesOut \/ UNCHANGED vars
  BY <1>3, <1>7 DEF Reconfigure, MaintStep, DrainResumes, DriverAwaited, MaintLocked,
     MaintStopped, MaintFails, DrainTimesOut, vars, admission
<1> QED
  BY <1>4, <1>5, <1>6, <1>7 DEF Next

\* The waiters of the advertised deployments are the whole queue.
LEMMA QueueShown ==
  ASSUME TypeOK, QueueOK PROVE UNION {Waiters(d) : d \in Deployments} = 1..Len(queue)
<1>1. \A d \in Deployments : Waiters(d) \subseteq 1..Len(queue)
  BY DEF Waiters
<1>2. ASSUME NEW i \in 1..Len(queue) PROVE \E d \in Deployments : i \in Waiters(d)
  <2>1. wants[queue[i]] \in Deployments
    BY DEF QueueOK, Waiting
  <2> QED
    BY <2>1 DEF Waiters
<1> QED
  BY <1>1, <1>2

\* Every state of the coordinator can be published: whatever it, its driver and a
\* maintenance operation are in the middle of, whichever of them failed, and
\* whether or not the engine process is alive, the snapshot's queue, health,
\* residency, transition target and capacity satisfy the gateway's semantic
\* validation (the queue limit as long as no reload changes the depth), and the
\* free permits of a resident are advertised only while its engine is alive.
THEOREM AlwaysPublishable == Spec => []SnapshotCoherent
<1>1. Init => ShownOK /\ WithinDepth
  BY ConstantsAssumption DEF Init, ShownOK, WithinDepth
<1>2. TypeOK /\ QueueOK /\ ShownOK /\ WithinDepth => SnapshotCoherent
  <2> SUFFICES ASSUME TypeOK, QueueOK, ShownOK, WithinDepth, NEW alive \in BOOLEAN
               PROVE  /\ Coherent(Snapshot(alive)) /\ QueueWithinLimit(Snapshot(alive))
                      /\ AdvertisesTheLiving(Snapshot(alive), alive)
    BY DEF SnapshotCoherent
  <2> DEFINE s == Snapshot(alive)
  <2>1. /\ s.health = IF ProcessMismatch(alive) THEN "degraded" ELSE state
        /\ s.accepts = PublishedAccepting(alive) /\ s.sure = PublishedAuthoritative(alive)
        /\ s.resident = resident /\ s.target = target
        /\ s.queueDepth = Len(queue) /\ s.queueLimit = depth
        /\ s.limit = EffectiveLimit(derived) /\ s.active = active
        /\ s.available = IF RootAdmissionOpen(alive) THEN Arithmetic ELSE 0
    BY DEF Snapshot
  <2>2. \A d \in Deployments :
          /\ s.deployments[d].warm = (d = resident)
          /\ s.deployments[d].waiting = Waiters(d)
          /\ s.deployments[d].open = IF d = resident THEN RootAdmissionOpen(alive)
                                                     ELSE PublishedAccepting(alive)
    BY DEF Snapshot, Advertised
  <2>3. ProcessMismatch(alive) => state \in {"ready", "idle"}
    BY DEF ProcessMismatch
  <2>4. PublishedAccepting(alive) =>
          Admits /\ PublishedAuthoritative(alive) /\ ~ProcessMismatch(alive)
    BY DEF PublishedAccepting, PublishedAuthoritative, Admits
  <2>5. RootAdmissionOpen(alive) => PublishedAccepting(alive) /\ state \in {"idle", "ready"}
    BY DEF RootAdmissionOpen
  <2>6. PublishedAccepting(alive) /\ state = "ready" => RootAdmissionOpen(alive)
    BY DEF RootAdmissionOpen
  <2>7. /\ target # None => state \in {"draining", "unloading", "loading"}
        /\ state = "idle" => resident = None
        /\ state = "ready" => resident # None
        /\ Admits => state \notin {"degraded", "stopping"}
    BY DEF ShownOK
  <2>8. RootAdmissionOpen(alive) => (alive <=> resident # None)
    BY <2>4, <2>5, <2>7 DEF ProcessMismatch
  <2>9. UNION {Waiters(d) : d \in Deployments} = 1..Len(queue)
    BY QueueShown
  <2>10. Free(s) = Arithmetic
    BY <2>1 DEF Arithmetic, Free
  <2> HIDE DEF s
  <2>11. QueueAdvertised(s)
    <3>1. {s.deployments[d].waiting : d \in Deployments} = {Waiters(d) : d \in Deployments}
      BY <2>2
    <3> QED
      BY <2>1, <2>9, <3>1 DEF QueueAdvertised
  <2>12. ResidentIsWarm(s)
    <3>1. {d \in Deployments : s.deployments[d].warm} = {d \in Deployments : d = resident}
      BY <2>2
    <3>2. resident \in Deployments \cup {None} /\ None \notin Deployments
      BY ConstantsAssumption DEF TypeOK
    <3> QED
      BY <2>1, <3>1, <3>2 DEF ResidentIsWarm
  <2>13. s.available \in {0, Free(s)}
    BY <2>1, <2>10
  <2>14. s.target # None => /\ s.target \in Deployments
                            /\ s.health \in {"draining", "unloading", "loading", "verifying"}
                            /\ s.available = 0
    BY <2>1, <2>3, <2>5, <2>7 DEF TypeOK
  <2>15. (s.health = "idle" => s.resident = None) /\ (s.health = "ready" => s.resident # None)
    BY <2>1, <2>7
  <2>16. s.accepts => s.sure /\ s.health \notin {"degraded", "stopping"}
    BY <2>1, <2>4, <2>7
  <2>17. ~s.accepts => s.available = 0
    BY <2>1, <2>5
  <2>18. s.accepts /\ s.health = "ready" => s.available = Free(s)
    BY <2>1, <2>4, <2>6, <2>10
  <2>19. Coherent(s)
    BY <2>11, <2>12, <2>13, <2>14, <2>15, <2>16, <2>17, <2>18 DEF Coherent
  <2>20. QueueWithinLimit(s)
    BY <2>1 DEF WithinDepth, QueueWithinLimit
  <2>21. s.available > 0 => RootAdmissionOpen(alive)
    BY <2>1
  <2>22. \A d \in Deployments : s.deployments[d].warm /\ s.deployments[d].open => alive
    <3> SUFFICES ASSUME NEW d \in Deployments, s.deployments[d].warm, s.deployments[d].open
                 PROVE  alive
      OBVIOUS
    <3>1. d = resident /\ RootAdmissionOpen(alive)
      BY <2>2
    <3> QED
      BY <2>8, <3>1, ConstantsAssumption
  <2>23. AdvertisesTheLiving(s, alive)
    BY <2>1, <2>8, <2>21, <2>22 DEF AdvertisesTheLiving
  <2> QED
    BY <2>19, <2>20, <2>23 DEF s
<1>3. TypeOK /\ QueueOK /\ ShownOK /\ [Next]_vars => ShownOK'
  BY ShownNext
<1>4. TypeOK /\ QueueOK /\ WithinDepth /\ [Next]_vars => WithinDepth'
  BY DepthNext
<1> QED
  BY <1>1, <1>2, <1>3, <1>4, QueueSafe, PTL DEF Spec
=============================================================================
