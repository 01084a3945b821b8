--------------------------- MODULE CudaResidency ---------------------------
(***************************************************************************)
(* The CUDA manager's residency coordinator (cuda_residency.py): FIFO      *)
(* admission, epoch-tagged leases, one driver task that switches the       *)
(* engine, and the maintenance operations unload, evict_if_idle and        *)
(* shutdown.                                                               *)
(*                                                                         *)
(* Everything runs on one asyncio loop.  The condition's lock is never     *)
(* held across a suspension (Condition.wait gives it up), so the code      *)
(* between two suspension points is one step here.  A task that is         *)
(* suspended is a program counter: "wait" is Condition.wait not yet        *)
(* notified, "run" a task that is ready at the top of its loop.            *)
(***************************************************************************)
EXTENDS Naturals, Sequences, FiniteSets

CONSTANTS Clients,        \* callers of acquire, one request at a time each
          Deployments,    \* strict deployment identities
          None,           \* no deployment
          MaxDerived,     \* largest capacity derive_capacity returns
          Ceilings,       \* values of configured_max_concurrency (0 is null)
          QueueDepths,    \* values of max_queue_depth
          Operations,     \* the maintenance operations that are called
          LoadsMayFail,   \* whether a transition's callbacks may raise
          StopMayFail,    \* whether a maintenance stop may raise or time out
          MaxEpoch        \* bound: no new work once this epoch is reached

ASSUME ConstantsAssumption ==
    /\ None \notin Deployments
    /\ IsFiniteSet(Clients)
    /\ MaxDerived \in Nat \ {0}
    /\ Ceilings \subseteq Nat /\ Ceilings # {}
    /\ QueueDepths \subseteq Nat \ {0} /\ QueueDepths # {}
    /\ Operations \subseteq {"unload", "evict", "shutdown"}
    /\ LoadsMayFail \in BOOLEAN
    /\ StopMayFail \in BOOLEAN
    /\ MaxEpoch \in Nat

VARIABLES
    \* callers
    client,        \* [Clients -> ClientState]
    wants,         \* the deployment a caller asked for, None when it is idle
    leaseEpoch,    \* the epoch tagged on a granted lease
    \* admission and residency
    queue,         \* _queue: waiting callers in arrival order
    active,        \* _active: leases counted in the current epoch
    epoch,         \* _epoch
    resident,      \* _resident_deployment_id
    derived,       \* _capacity.derived_limit
    ceiling,       \* _configured_max_concurrency, 0 when null
    depth,         \* _max_queue_depth
    state,         \* _state
    target,        \* _transition_target
    accepting, authoritative, stopping,
    \* tasks and the operation lock
    driver,        \* where the driver task is suspended, "none" without one
    loading,       \* the deployment the driver is switching to
    maint,         \* where the maintenance operation is suspended
    op,            \* the maintenance operation in progress, "none" without one
    opLock,        \* owner of _operation_lock
    \* the world outside the coordinator
    engine         \* the deployment the engine process serves, or None

admission == <<client, wants, leaseEpoch, queue, active>>
residency == <<epoch, resident, derived>>
limits    == <<ceiling, depth>>
gates     == <<accepting, authoritative, stopping>>
shown     == <<state, target>>
vars == <<client, wants, leaseEpoch, queue, active, epoch, resident, derived,
          ceiling, depth, state, target, accepting, authoritative, stopping,
          driver, loading, maint, op, opLock, engine>>

ClientState == {"idle", "queued", "granted", "failed", "holding", "releasing"}
CoordinatorState == {"idle", "draining", "unloading", "loading", "ready",
                     "degraded", "stopping"}
DriverState == {"none", "run", "wait", "lock", "stop", "start", "derive",
                "cleanlock", "clean"}
MaintState  == {"none", "drain", "drainrun", "driver", "driverdone", "lock", "stop"}

\* A caller whose lease is counted: granted but not yet resumed, held through
\* the response, or handed to the shielded release task.
Leased(c) == client[c] \in {"granted", "holding", "releasing"}
LeaseHolders == {c \in Clients : Leased(c)}

\* _effective_limit_locked for a given derived limit
EffectiveLimit(d) ==
    IF ceiling = 0 THEN d ELSE IF d < ceiling THEN d ELSE ceiling

Members(q) == {q[i] : i \in 1..Len(q)}

\* q without its i-th element
Without(q, i) == [j \in 1..(Len(q) - 1) |-> q[IF j < i THEN j ELSE j + 1]]

\* Plausible bugs, each one changing a single definition below; the runs are
\* shown to notice them.
BugNoNotify(t) == t
BugPermitPastQueue(d) ==
    resident = d /\ state = "ready" /\ active < EffectiveLimit(derived)
BugReleasedOtherEpoch(e) == IF e # epoch /\ active > 0 THEN active - 1 ELSE active
BugLeasesOutOffByOne == active > 1

\* The capacity of a coordinator without a resident: one lease at a time.
Conservative == 1

\* _assert_accepting_locked
Admits == accepting /\ authoritative /\ ~stopping

-----------------------------------------------------------------------------
(* Condition.notify_all and _ensure_driver_locked                           *)

Notified(t) == IF t = "wait" THEN "run" ELSE t
Ensured(t)  == IF t \in {"none", "wait"} THEN "run" ELSE t
DrainNotified(t) == IF t = "drain" THEN "drainrun" ELSE t

NotifyAll == /\ driver' = Notified(driver)
             /\ maint' = DrainNotified(maint)
EnsureDriverAndNotify == /\ driver' = Ensured(driver)
                         /\ maint' = DrainNotified(maint)

-----------------------------------------------------------------------------
Init ==
    /\ client = [c \in Clients |-> "idle"]
    /\ wants = [c \in Clients |-> None]
    /\ leaseEpoch = [c \in Clients |-> 0]
    /\ queue = <<>>
    /\ active = 0
    /\ epoch = 0
    /\ resident = None
    /\ derived = Conservative
    /\ ceiling \in Ceilings
    /\ depth \in QueueDepths
    /\ state = "idle"
    /\ target = None
    /\ accepting = TRUE
    /\ authoritative = TRUE
    /\ stopping = FALSE
    /\ driver = "none"
    /\ loading = None
    /\ maint = "none"
    /\ op = "none"
    /\ opLock = "free"
    /\ engine = None

-----------------------------------------------------------------------------
(* Callers                                                                  *)

\* Nobody waits and the resident d has a free permit.
FreePermit(d) ==
    /\ queue = <<>>
    /\ resident = d
    /\ state = "ready"
    /\ active < EffectiveLimit(derived)

\* The immediate grant shared by acquire and acquire_current.  No notification:
\* nothing can have been waiting for it.
GrantNow(c, d) ==
    /\ FreePermit(d)
    /\ active' = active + 1
    /\ client' = [client EXCEPT ![c] = "holding"]
    /\ wants' = [wants EXCEPT ![c] = d]
    /\ leaseEpoch' = [leaseEpoch EXCEPT ![c] = epoch]
    /\ UNCHANGED <<queue, residency, limits, gates, shown, driver, loading,
                   maint, op, opLock, engine>>

AcquireWarm(c, d) ==
    /\ client[c] = "idle"
    /\ d \in Deployments
    /\ Admits
    /\ GrantNow(c, d)

\* acquire: a caller that finds no free permit joins the bounded queue.  A full
\* queue (QueueFull) and a closed coordinator (NotAccepting) change nothing.
AcquireQueued(c, d) ==
    /\ client[c] = "idle"
    /\ epoch < MaxEpoch
    /\ Admits
    /\ ~FreePermit(d)
    /\ Len(queue) < depth
    /\ queue' = Append(queue, c)
    /\ client' = [client EXCEPT ![c] = "queued"]
    /\ wants' = [wants EXCEPT ![c] = d]
    /\ EnsureDriverAndNotify
    /\ UNCHANGED <<leaseEpoch, active, residency, limits, gates, shown,
                   loading, op, opLock, engine>>

\* acquire_current: only the current resident, only at once.
AcquireCurrent(c) ==
    /\ client[c] = "idle"
    /\ Admits
    /\ resident # None
    /\ GrantNow(c, resident)

\* The caller resumes with its future's result and owns a ModelLease.
TakeLease(c) ==
    /\ client[c] = "granted"
    /\ client' = [client EXCEPT ![c] = "holding"]
    /\ UNCHANGED <<wants, leaseEpoch, queue, active, residency, limits, gates,
                   shown, driver, loading, maint, op, opLock, engine>>

\* The caller resumes with its future's exception.
TakeFailure(c) ==
    /\ client[c] = "failed"
    /\ client' = [client EXCEPT ![c] = "idle"]
    /\ wants' = [wants EXCEPT ![c] = None]
    /\ UNCHANGED <<leaseEpoch, queue, active, residency, limits, gates, shown,
                   driver, loading, maint, op, opLock, engine>>

\* _release_locked: a lease of an earlier epoch never touches the count.
Released(e) == IF e = epoch /\ active > 0 THEN active - 1 ELSE active

\* acquire's deadline passes, or its caller is cancelled, before it resumed:
\* _cancel_waiter withdraws the waiter, and gives back a permit the future
\* already carried.
AbandonWait(c) ==
    /\ \/ /\ client[c] = "queued"
          /\ \E i \in 1..Len(queue) :
               /\ queue[i] = c
               /\ queue' = Without(queue, i)
          /\ UNCHANGED active
       \/ /\ client[c] = "granted"
          /\ active' = Released(leaseEpoch[c])
          /\ UNCHANGED queue
       \/ /\ client[c] = "failed"
          /\ UNCHANGED <<queue, active>>
    /\ client' = [client EXCEPT ![c] = "idle"]
    /\ wants' = [wants EXCEPT ![c] = None]
    /\ NotifyAll
    /\ UNCHANGED <<leaseEpoch, residency, limits, gates, shown, loading, op,
                   opLock, engine>>

\* ModelLease.release: the response ended; a separately owned, shielded task
\* will return the permit whatever happens to the caller.
CallRelease(c) ==
    /\ client[c] = "holding"
    /\ client' = [client EXCEPT ![c] = "releasing"]
    /\ UNCHANGED <<wants, leaseEpoch, queue, active, residency, limits, gates,
                   shown, driver, loading, maint, op, opLock, engine>>

\* _release, in that task
Release(c) ==
    /\ client[c] = "releasing"
    /\ active' = Released(leaseEpoch[c])
    /\ client' = [client EXCEPT ![c] = "idle"]
    /\ wants' = [wants EXCEPT ![c] = None]
    /\ IF queue # <<>> /\ accepting THEN EnsureDriverAndNotify ELSE NotifyAll
    /\ UNCHANGED <<leaseEpoch, queue, residency, limits, gates, shown, loading,
                   op, opLock, engine>>

\* reconfigure, from a configuration reload
Reconfigure ==
    /\ ceiling' \in Ceilings
    /\ depth' \in QueueDepths
    /\ EnsureDriverAndNotify
    /\ UNCHANGED <<admission, residency, gates, shown, loading, op, opLock,
                   engine>>

-----------------------------------------------------------------------------
(* The operation lock: asyncio.Lock hands over in FIFO order, and only the  *)
(* driver and one maintenance operation ever compete for it.                *)

AfterDriverRelease == IF maint = "lock" THEN "maint" ELSE "free"
AfterMaintRelease  == IF driver \in {"lock", "cleanlock"} THEN "driver" ELSE "free"

-----------------------------------------------------------------------------
(* The driver.  Turn is one pass through the top of _drive's loop up to its *)
(* next suspension, from the coordinator state s that the code before it    *)
(* in the same step has left:                                               *)
(*   q queue, cl callers, r resident, ep epoch, lim effective limit,        *)
(*   open whether requests are admitted, lk operation lock, st and tg the   *)
(*   published state and target, woke whether that code notified.           *)

\* _grant_head_locked: how many waiters at the head are granted
IsGrantCount(k, s) ==
    /\ k > 0 => active + k <= s.lim
    /\ \A i \in 1..k : wants[s.q[i]] = s.r
    /\ k < Len(s.q) => (active + k >= s.lim \/ wants[s.q[k+1]] # s.r)

\* _fail_all_locked
RefuseAll(s) ==
    /\ client' = [c \in Clients |-> IF c \in Members(s.q) THEN "failed" ELSE s.cl[c]]
    /\ queue' = <<>>
    /\ state' = s.st
    /\ target' = s.tg
    /\ driver' = "none"
    /\ loading' = None
    /\ opLock' = s.lk
    /\ maint' = IF maint = "driver" THEN "driverdone"
                ELSE IF s.woke THEN DrainNotified(maint) ELSE maint
    /\ UNCHANGED <<leaseEpoch, active>>

GrantAndSettle(s, k) ==
    LET granted == {s.q[i] : i \in 1..k}
        rest    == SubSeq(s.q, k + 1, Len(s.q))
        wokeMaint == IF k > 0 \/ s.woke THEN DrainNotified(maint) ELSE maint
    IN
    /\ client' = [c \in Clients |-> IF c \in granted THEN "granted" ELSE s.cl[c]]
    /\ leaseEpoch' = [c \in Clients |-> IF c \in granted THEN s.ep ELSE leaseEpoch[c]]
    /\ active' = active + k
    /\ queue' = rest
    /\ \/ /\ rest = <<>>                                   \* nothing left: return
          /\ state' = IF s.r # None THEN "ready" ELSE "idle"
          /\ target' = None
          /\ driver' = "none" /\ loading' = None
          /\ opLock' = s.lk
          /\ maint' = IF maint = "driver" THEN "driverdone" ELSE wokeMaint
       \/ /\ rest # <<>> /\ wants[Head(rest)] = s.r        \* resident is full
          /\ state' = "ready" /\ target' = None
          /\ driver' = "wait" /\ loading' = None
          /\ opLock' = s.lk
          /\ maint' = wokeMaint
       \/ /\ rest # <<>> /\ wants[Head(rest)] # s.r        \* drain the resident
          /\ active + k > 0
          /\ state' = "draining" /\ target' = wants[Head(rest)]
          /\ driver' = "wait" /\ loading' = None
          /\ opLock' = s.lk
          /\ maint' = wokeMaint
       \/ /\ rest # <<>> /\ wants[Head(rest)] # s.r        \* switch
          /\ active + k = 0
          /\ state' = "unloading" /\ target' = wants[Head(rest)]
          /\ loading' = wants[Head(rest)]
          /\ IF s.lk = "free" THEN driver' = "stop" /\ opLock' = "driver"
                              ELSE driver' = "lock" /\ opLock' = s.lk
          /\ maint' = wokeMaint

Turn(s) == IF s.open
             THEN \E k \in 0..Len(s.q) : IsGrantCount(k, s) /\ GrantAndSettle(s, k)
             ELSE RefuseAll(s)

\* The driver starts, or a notified driver resumes.
DriverTurn ==
    /\ driver = "run"
    /\ Turn([q |-> queue, cl |-> client, r |-> resident, ep |-> epoch,
             lim |-> EffectiveLimit(derived), open |-> Admits, lk |-> opLock,
             st |-> state, tg |-> target, woke |-> FALSE])
    /\ UNCHANGED <<wants, residency, limits, gates, op, engine>>

\* _transition obtains the operation lock it had to wait for.
DriverLocked ==
    /\ opLock = "driver"
    /\ \/ driver = "lock" /\ driver' = "stop"
       \/ driver = "cleanlock" /\ driver' = "clean"
    /\ UNCHANGED <<admission, residency, limits, gates, shown, loading, maint,
                   op, opLock, engine>>

\* _transition: the previous engine is stopped and loading is published.
DriverStopped ==
    /\ driver = "stop"
    /\ engine' = None
    /\ state' = "loading" /\ target' = loading
    /\ driver' = "start"
    /\ maint' = DrainNotified(maint)
    /\ UNCHANGED <<admission, residency, limits, gates, loading, op, opLock>>

\* start_engine returns once the new engine reports ready.
DriverStarted ==
    /\ driver = "start"
    /\ engine' = loading
    /\ driver' = "derive"
    /\ UNCHANGED <<admission, residency, limits, gates, shown, loading, maint,
                   op, opLock>>

\* derive_capacity returned: the driver publishes the new resident and passes
\* through the top of its loop without suspending.
DriverPublish ==
    /\ driver = "derive"
    /\ \E d \in 1..MaxDerived :
         /\ derived' = d
         /\ Turn([q |-> queue, cl |-> client, r |-> loading, ep |-> epoch + 1,
                  lim |-> EffectiveLimit(d), open |-> Admits,
                  lk |-> AfterDriverRelease,
                  st |-> IF Admits THEN "ready"
                         ELSE IF stopping THEN "stopping" ELSE "degraded",
                  tg |-> None, woke |-> TRUE])
    /\ resident' = loading
    /\ epoch' = epoch + 1
    /\ UNCHANGED <<wants, limits, gates, op, engine>>

\* stop_engine, start_engine or derive_capacity raises.  The lock is given up
\* and asked for again: a waiting maintenance operation goes first.
DriverRaises ==
    /\ LoadsMayFail
    /\ \/ driver = "stop"   /\ engine' \in {engine, None}
       \/ driver = "start"  /\ engine' \in {None, loading}
       \/ driver = "derive" /\ engine' = engine
    /\ IF maint = "lock" THEN driver' = "cleanlock" /\ opLock' = "maint"
                         ELSE driver' = "clean" /\ opLock' = "driver"
    /\ UNCHANGED <<admission, residency, limits, gates, shown, loading, maint, op>>

\* _fail_head_locked: the waiters at the head that wanted the failed deployment
IsFailCount(k, q, d) ==
    /\ \A i \in 1..k : wants[q[i]] = d
    /\ k < Len(q) => wants[q[k+1]] # d

\* The end of a failed transition; clean says whether the cleanup stop worked.
\* It sets both gates from that alone.
AfterFailedTransition(clean) ==
    /\ resident' = None
    /\ derived' = Conservative
    /\ authoritative' = clean
    /\ accepting' = (clean /\ ~stopping)
    /\ \E k \in 0..Len(queue) :
         /\ IsFailCount(k, queue, loading)
         /\ Turn([q |-> SubSeq(queue, k + 1, Len(queue)),
                  cl |-> [c \in Clients |->
                            IF \E i \in 1..k : queue[i] = c THEN "failed" ELSE client[c]],
                  r |-> None, ep |-> epoch, lim |-> EffectiveLimit(Conservative),
                  open |-> clean /\ ~stopping,
                  lk |-> AfterDriverRelease,
                  st |-> IF clean THEN "idle" ELSE "degraded",
                  tg |-> None, woke |-> TRUE])
    /\ UNCHANGED <<wants, epoch, limits, stopping, op>>

BugCleanupAlwaysClean ==
    /\ driver = "clean"
    /\ engine' \in {engine, None} /\ AfterFailedTransition(TRUE)

DriverCleaned ==
    /\ driver = "clean"
    /\ \/ engine' = None /\ AfterFailedTransition(TRUE)
       \/ engine' \in {engine, None} /\ AfterFailedTransition(FALSE)

-----------------------------------------------------------------------------
(* Maintenance: unload, evict_if_idle and shutdown, serialized by           *)
(* _maintenance_lock.  Each closes admission, drains, waits for the driver  *)
(* it saw, takes the operation lock and stops the engine.                   *)

DrainState(o)  == IF o = "shutdown" THEN "stopping" ELSE "draining"
UnloadState(o) == IF o = "shutdown" THEN "stopping" ELSE "unloading"
FailedState(o) == IF o = "shutdown" THEN "stopping" ELSE "degraded"

\* The drain goes on while a lease is out.
LeasesOut == active > 0

\* Past the drain, with the driver task at d and the published state at st: wait
\* for a live driver, otherwise take the (then free) lock and call stop.
PastDrain(o, d, st, tg) ==
    IF d # "none"
      THEN /\ maint' = "driver"
           /\ state' = st /\ target' = tg
           /\ UNCHANGED opLock
      ELSE /\ maint' = "stop"
           /\ opLock' = "maint"
           /\ state' = UnloadState(o) /\ target' = None

BeginMaintenance(o) ==
    /\ op = "none"
    /\ epoch < MaxEpoch
    /\ o = "evict" => /\ resident # None /\ active = 0 /\ queue = <<>>
                      /\ accepting /\ authoritative
    /\ op' = o
    /\ accepting' = FALSE
    /\ stopping' = (stopping \/ o = "shutdown")
    /\ client' = [c \in Clients |-> IF c \in Members(queue) THEN "failed" ELSE client[c]]
    /\ queue' = <<>>
    /\ driver' = Notified(driver)
    /\ IF LeasesOut
         THEN /\ maint' = "drain"
              /\ state' = DrainState(o) /\ target' = None
              /\ UNCHANGED opLock
         ELSE PastDrain(o, driver,
                        IF o = "shutdown" THEN "stopping" ELSE state,
                        IF o = "shutdown" THEN None ELSE target)
    /\ UNCHANGED <<wants, leaseEpoch, active, residency, limits, authoritative,
                   loading, engine>>

\* A notified drain looks at the lease count again.
DrainResumes ==
    /\ maint = "drainrun"
    /\ IF LeasesOut
         THEN /\ maint' = "drain"
              /\ state' = DrainState(op) /\ target' = None
              /\ UNCHANGED opLock
         ELSE PastDrain(op, driver, state, target)
    /\ UNCHANGED <<admission, residency, limits, gates, driver, loading, op, engine>>

\* The drain deadline passes: unload and evict reopen, shutdown stays closed and
\* leaves the engine alone.
DrainTimesOut ==
    /\ maint \in {"drain", "drainrun"}
    /\ IF op # "shutdown"
         THEN /\ accepting' = TRUE
              /\ state' = IF resident # None THEN "ready" ELSE "idle"
              /\ target' = None
         ELSE UNCHANGED <<accepting, shown>>
    /\ maint' = "none" /\ op' = "none"
    /\ UNCHANGED <<admission, residency, limits, authoritative, stopping, driver,
                   loading, opLock, engine>>

\* The driver task the operation was waiting for has ended.
DriverAwaited ==
    /\ maint = "driverdone"
    /\ IF opLock = "free"
         THEN /\ opLock' = "maint"
              /\ maint' = "stop"
              /\ driver' = Notified(driver)
              /\ state' = UnloadState(op) /\ target' = None
         ELSE /\ maint' = "lock"
              /\ UNCHANGED <<opLock, driver, shown>>
    /\ UNCHANGED <<admission, residency, limits, gates, loading, op, engine>>

MaintLocked ==
    /\ maint = "lock" /\ opLock = "maint"
    /\ maint' = "stop"
    /\ driver' = Notified(driver)
    /\ state' = UnloadState(op) /\ target' = None
    /\ UNCHANGED <<admission, residency, limits, gates, loading, op, opLock, engine>>

\* stop_engine returned: the coordinator forgets the resident, starts a new epoch
\* and reopens unless it is shutting down.
MaintStopped ==
    /\ maint = "stop"
    /\ engine' = None
    /\ resident' = None /\ derived' = Conservative
    /\ epoch' = epoch + 1
    /\ authoritative' = TRUE
    /\ accepting' = (op # "shutdown")
    /\ state' = IF op = "shutdown" THEN "stopping" ELSE "idle"
    /\ target' = None
    /\ driver' = Notified(driver)
    /\ opLock' = AfterMaintRelease
    /\ maint' = "none" /\ op' = "none"
    /\ UNCHANGED <<admission, limits, stopping, loading>>

\* A deadline passes while waiting for the driver, the lock or the stop, or the
\* stop raises: admission stays closed and the node is no longer authoritative.
MaintFails ==
    /\ StopMayFail
    /\ maint \in {"driver", "driverdone", "lock", "stop"}
    /\ engine' \in (IF maint = "stop" THEN {engine, None} ELSE {engine})
    /\ authoritative' = FALSE
    /\ accepting' = FALSE
    /\ state' = FailedState(op) /\ target' = None
    /\ opLock' = IF opLock = "maint" THEN AfterMaintRelease ELSE opLock
    /\ maint' = "none" /\ op' = "none"
    /\ UNCHANGED <<admission, residency, limits, stopping, driver, loading>>

-----------------------------------------------------------------------------
ClientStep(c) ==
    \/ \E d \in Deployments : AcquireWarm(c, d) \/ AcquireQueued(c, d)
    \/ AcquireCurrent(c)
    \/ TakeLease(c) \/ TakeFailure(c) \/ AbandonWait(c)
    \/ CallRelease(c) \/ Release(c)

DriverStep == \/ DriverTurn \/ DriverLocked \/ DriverStopped \/ DriverStarted
              \/ DriverPublish \/ DriverRaises \/ DriverCleaned

MaintStep == \/ DrainResumes \/ DriverAwaited \/ MaintLocked \/ MaintStopped
             \/ MaintFails

Next == \/ \E c \in Clients : ClientStep(c)
        \/ Reconfigure
        \/ DriverStep
        \/ \E o \in Operations : BeginMaintenance(o)
        \/ MaintStep
        \/ DrainTimesOut

Spec == Init /\ [][Next]_vars

\* Tasks that are ready run, callbacks return or raise (engine start-up has its
\* own deadline), and a response ends, so its lease is released.  Requests,
\* reloads, maintenance calls and every deadline stay unfair.
Fairness ==
    /\ WF_vars(DriverStep)
    /\ WF_vars(MaintStep)
    /\ \A c \in Clients : /\ WF_vars(TakeLease(c)) /\ WF_vars(TakeFailure(c))
                          /\ WF_vars(CallRelease(c)) /\ WF_vars(Release(c))

FairSpec == Spec /\ Fairness

-----------------------------------------------------------------------------
(* Properties                                                               *)

\* Every variable keeps its type; a queue entry is a caller waiting for a
\* deployment, and an idle caller wants nothing.
TypeOK ==
    /\ client \in [Clients -> ClientState]
    /\ wants \in [Clients -> Deployments \cup {None}]
    /\ leaseEpoch \in [Clients -> Nat]
    /\ queue \in Seq(Clients)
    /\ active \in Nat
    /\ epoch \in Nat
    /\ resident \in Deployments \cup {None}
    /\ derived \in 1..MaxDerived
    /\ ceiling \in Ceilings /\ depth \in QueueDepths
    /\ state \in CoordinatorState
    /\ target \in Deployments \cup {None}
    /\ accepting \in BOOLEAN /\ authoritative \in BOOLEAN /\ stopping \in BOOLEAN
    /\ driver \in DriverState /\ loading \in Deployments \cup {None}
    /\ maint \in MaintState
    /\ op \in {"none", "unload", "evict", "shutdown"}
    /\ opLock \in {"free", "driver", "maint"}
    /\ engine \in Deployments \cup {None}

\* Whoever holds (or is about to resume with) a lease has the engine of the very
\* deployment it asked for running, and that is the published resident: no
\* switch, unload, eviction or shutdown pulls the engine from under a response.
LeaseOnLiveEngine ==
    \A c \in LeaseHolders : engine = wants[c] /\ resident = wants[c]

\* _active is exact: it counts every lease whose permit is not yet returned, of
\* the current epoch, so neither a timed-out grant nor a late release of an
\* earlier epoch leaks or steals a permit.
ActiveCountsLeases ==
    /\ active = Cardinality(LeaseHolders)
    /\ \A c \in LeaseHolders : leaseEpoch[c] = epoch

\* unload's contract, "Close admission, drain every lease, then stop the
\* engine": when a maintenance operation calls stop_engine no lease is out.
DrainedBeforeStop == maint = "stop" => LeaseHolders = {}

\* No waiter is forgotten: a nonempty queue has a live driver, and a driver that
\* sleeps without a pending notification is right to sleep, because leases are
\* out whose release will notify it.
NoLostWakeup ==
    /\ queue # <<>> => driver # "none"
    /\ driver = "wait" => queue # <<>> /\ active > 0

\* An idle, authoritative coordinator has no engine process: a failed load, a
\* failed stop or an interrupted unload never leaves an engine it forgot.
NoOrphanEngine ==
    (authoritative /\ resident = None
        /\ driver \in {"none", "run", "wait", "lock"}) => engine = None

\* The waiters that arrived before c; all of them when c is not queued.
Ahead(c) == {queue[i] : i \in {j \in 1..Len(queue) : \A m \in 1..j : queue[m] # c}}

\* FIFO: whoever obtains a lease in a step leaves nobody who came before it still
\* waiting, and the immediate grant happens only past an empty queue.  A queued
\* deployment cannot be starved by requests for the resident one.
NoOvertaking ==
    [][\A c \in Clients : (Leased(c)' /\ ~Leased(c)) =>
         \A b \in Ahead(c) : client'[b] # "queued"]_vars

\* From the moment a maintenance operation has closed admission until it ends,
\* no caller obtains a lease: the barrier cannot be reopened from inside.
BarrierAdmitsNobody ==
    [][(op # "none" /\ op' # "none") => LeaseHolders' \subseteq LeaseHolders]_vars

\* A waiter is eventually granted or refused even if it never times out: FIFO
\* order, wake-ups and the drain make progress.
WaitersProgress ==
    \A c \in Clients : client[c] = "queued" ~> client[c] # "queued"

\* A maintenance operation always comes back, with or without its deadlines.
MaintenanceEnds == op # "none" ~> op = "none"

\* The coordinator implements the abstract lease service: the engine is switched
\* only while no lease is out.
Service == INSTANCE ModelLeaseService
             WITH Nothing <- None, served <- engine,
                  leased <- [c \in Clients |-> IF Leased(c) THEN wants[c] ELSE None]
ImplementsService == Service!Spec
=============================================================================
