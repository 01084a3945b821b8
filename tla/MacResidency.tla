--------------------------- MODULE MacResidency ---------------------------
(***************************************************************************)
(* The macOS residency coordinator (coordinator.py): FIFO admission across *)
(* several engines, one driver task that switches the resident model, and  *)
(* the operations that fence admission (unload, evict_if_idle, reconcile,  *)
(* run_empty_maintenance, abort, audit, shutdown).                         *)
(*                                                                         *)
(* The code between two suspension points is one step: everything runs on  *)
(* one asyncio loop and the condition's lock is never held across a        *)
(* suspension.  Unlike the CUDA coordinator, engines are only observed     *)
(* (models may appear or vanish behind the service's back), several        *)
(* operations may be in progress, and only _operation_lock orders them.    *)
(***************************************************************************)
EXTENDS Naturals, Sequences, FiniteSets

CONSTANTS Clients,      \* callers of acquire, one request at a time each
          Deployments,  \* effective load identities
          None,         \* no deployment
          Slots,        \* operations in progress at once: one slot each
          Kinds,        \* the operations that are called
          Limit,        \* the resident's effective concurrency limit
          Depth,        \* max_queue_depth
          MaxEpoch,     \* bound on _epoch: no new waiters afterwards
          MaxUpsets     \* bound on failures, expired deadlines and drifts

ASSUME MacResidencyAssumption ==
    /\ None \notin Deployments
    /\ IsFiniteSet(Clients)
    /\ "driver" \notin Slots
    /\ Kinds \subseteq {"unload", "evict", "reconcile", "empty", "abort", "audit", "shutdown"}
    /\ Limit \in Nat \ {0} /\ Depth \in Nat \ {0}
    /\ MaxEpoch \in Nat /\ MaxUpsets \in Nat

VARIABLES
    client, wants, leaseEpoch,           \* callers, as in CudaResidency
    queue,                               \* _queue
    inflight,                            \* _inflight
    epoch,                               \* _epoch: one per published load
    resident,                            \* _resident, the cached identity
    state, target,                       \* _state, _transition_target
    initialized, accepting, stopping,
    driver,                              \* where the driver task is suspended
    loading,                             \* the deployment it is switching to
    op,                                  \* [Slots -> operation in progress]
    lock,                                \* _operation_lock: its holder, then its waiters
    loaded,                              \* the models the engines really hold
    faults,                              \* adapter failures and expired deadlines
    drifts                               \* changes behind the service's back

requests == <<client, wants, leaseEpoch, queue, inflight>>
gates    == <<initialized, accepting, stopping>>
bounds   == <<faults, drifts>>
vars == <<client, wants, leaseEpoch, queue, inflight, epoch, resident, state,
          target, initialized, accepting, stopping, driver, loading, op, lock,
          loaded, faults, drifts>>

Leased(c) == client[c] \in {"granted", "holding"}
LeaseHolders == {c \in Clients : Leased(c)}
Members(q) == {q[i] : i \in 1..Len(q)}
\* q without x, which is in it at most once
Without(q, x) ==
    LET i == CHOOSE n \in 1..Len(q) : q[n] = x
    IN  IF x \in Members(q) THEN [j \in 1..(Len(q) - 1) |-> q[IF j < i THEN j ELSE j + 1]]
        ELSE q

\* asyncio.Lock hands over in arrival order.
Holds(x) == lock # <<>> /\ Head(lock) = x

NoOp == [kind |-> "none", at |-> "none", seen |-> {}]
At(o, k, a) == [op EXCEPT ![o] = [kind |-> k, at |-> a, seen |-> {}]]
Done(o) == [op EXCEPT ![o] = NoOp]

\* _TRANSITION_STATES; "unloading" stands for verifying_empty too
Transition == {"unloading", "loading", "verifying", "draining", "stopping"}

\* Plausible bugs, here and before the definitions they change.
BugNoNotify(d) == d

\* Condition.notify_all wakes the driver; a drain looks at _inflight after every
\* decrement, all of which notify.
Notified(d) == IF d = "wait" THEN "run" ELSE d
\* _ensure_driver_locked
Ensured(d) == IF d = "none" THEN "run" ELSE Notified(d)

\* The cached resident r agrees with what the engines report (reconcile, audit).
Matches(r, seen) == seen = (IF r = None THEN {} ELSE {r})

Upset == faults + drifts < MaxUpsets

\* An adapter's answer arrives: the loop has run the driver and every operation
\* that was ready before it polls for I/O again.
Answered ==
    /\ driver # "run"
    /\ \A o \in Slots : /\ op[o].at \notin {"driverdone", "driverlost"}
                        /\ ~(op[o].at = "drain" /\ inflight = 0)
                        /\ ~(op[o].at = "lock" /\ Holds(o))

Init ==
    /\ client = [c \in Clients |-> "idle"]
    /\ wants = [c \in Clients |-> None]
    /\ leaseEpoch = [c \in Clients |-> 0]
    /\ queue = <<>> /\ inflight = 0 /\ epoch = 0
    /\ resident = None /\ state = "idle" /\ target = None
    /\ initialized = FALSE /\ accepting = FALSE /\ stopping = FALSE
    /\ driver = "none" /\ loading = None
    /\ op = [o \in Slots |-> NoOp] /\ lock = <<>>
    /\ loaded \in SUBSET Deployments
    /\ faults = 0 /\ drifts = 0

-----------------------------------------------------------------------------
(* Callers                                                                  *)

Admits == initialized /\ accepting /\ ~stopping

FreePermit(d) ==
    /\ queue = <<>>
    /\ resident = d
    /\ state = "ready" /\ target = None
    /\ inflight < Limit

\* acquire, granted at once: nobody waits and the resident has a free permit.
AcquireWarm(c, d) ==
    /\ client[c] = "idle" /\ Admits
    /\ FreePermit(d)
    /\ inflight' = inflight + 1
    /\ client' = [client EXCEPT ![c] = "holding"]
    /\ wants' = [wants EXCEPT ![c] = d]
    /\ leaseEpoch' = [leaseEpoch EXCEPT ![c] = epoch]
    /\ UNCHANGED <<queue, epoch, resident, state, target, gates, driver, loading,
                   op, lock, loaded, bounds>>

\* acquire otherwise; a full queue or closed gates refuse and change nothing.
AcquireQueued(c, d) ==
    /\ client[c] = "idle" /\ Admits
    /\ epoch < MaxEpoch
    /\ ~FreePermit(d)
    /\ Len(queue) < Depth
    /\ queue' = Append(queue, c)
    /\ client' = [client EXCEPT ![c] = "queued"]
    /\ wants' = [wants EXCEPT ![c] = d]
    /\ driver' = Ensured(driver)
    /\ UNCHANGED <<leaseEpoch, inflight, epoch, resident, state, target, gates,
                   loading, op, lock, loaded, bounds>>

\* The caller resumes with its future's result or exception.
Resume(c) ==
    /\ client[c] \in {"granted", "failed"}
    /\ client' = [client EXCEPT ![c] = IF @ = "granted" THEN "holding" ELSE "idle"]
    /\ wants' = [wants EXCEPT ![c] = IF client[c] = "granted" THEN @ ELSE None]
    /\ UNCHANGED <<leaseEpoch, queue, inflight, epoch, resident, state, target,
                   gates, driver, loading, op, lock, loaded, bounds>>

BugReleasedOtherEpoch(e) == IF e # epoch /\ inflight > 0 THEN inflight - 1 ELSE inflight

\* _release_locked
Released(e) == IF e = epoch /\ inflight > 0 THEN inflight - 1 ELSE inflight

\* acquire's deadline or a cancellation: _cancel_waiter withdraws the waiter and
\* gives back a permit its future already carried.
AbandonWait(c) ==
    /\ client[c] \in {"queued", "granted", "failed"}
    /\ queue' = Without(queue, c)
    /\ inflight' = IF client[c] = "granted" THEN Released(leaseEpoch[c]) ELSE inflight
    /\ client' = [client EXCEPT ![c] = "idle"]
    /\ wants' = [wants EXCEPT ![c] = None]
    /\ driver' = Notified(driver)
    /\ leaseEpoch' = [leaseEpoch EXCEPT ![c] = 0]
    /\ UNCHANGED <<epoch, resident, state, target, gates, loading, op,
                   lock, loaded, bounds>>

\* ModelLease.release: its shielded task returns the permit.
Release(c) ==
    /\ client[c] = "holding"
    /\ inflight' = Released(leaseEpoch[c])
    /\ client' = [client EXCEPT ![c] = "idle"]
    /\ wants' = [wants EXCEPT ![c] = None]
    /\ driver' = IF queue # <<>> THEN Ensured(driver) ELSE Notified(driver)
    /\ leaseEpoch' = [leaseEpoch EXCEPT ![c] = 0]
    /\ UNCHANGED <<queue, epoch, resident, state, target, gates, loading,
                   op, lock, loaded, bounds>>

-----------------------------------------------------------------------------
(* The driver.  Turn is one pass through the top of _drive's loop, from the *)
(* coordinator state s that the code before it in the same step has left.   *)

\* Operations awaiting the driver task learn that it ended,
DriverGone(f) == [o \in Slots |-> IF f[o].at = "driver" THEN [f[o] EXCEPT !.at = "driverdone"]
                                  ELSE f[o]]
\* or that it was cancelled, which only shutdown takes for an end.
DriverLost(f) == [o \in Slots |-> IF f[o].at = "driver" /\ f[o].kind # "shutdown"
                                    THEN [f[o] EXCEPT !.at = "driverlost"]
                                  ELSE DriverGone(f)[o]]

\* _grant_head_group_locked grants k waiters at the head of s.q
IsGrantCount(k, s) ==
    /\ k > 0 => inflight + k <= Limit
    /\ \A i \in 1..k : wants[s.q[i]] = s.r
    /\ k < Len(s.q) => inflight + k >= Limit \/ wants[s.q[k+1]] # s.r

\* The gates are closed: _fail_all_locked, and the task ends.
RefuseAll(s) ==
    /\ client' = [c \in Clients |-> IF c \in Members(s.q) THEN "failed" ELSE s.cl[c]]
    /\ queue' = <<>>
    /\ state' = s.st /\ target' = s.tg
    /\ driver' = "none" /\ loading' = None /\ lock' = s.lk
    /\ op' = DriverGone(op)
    /\ UNCHANGED <<leaseEpoch, inflight>>

GrantAndSettle(s, k) ==
    LET granted == {s.q[i] : i \in 1..k}
        rest    == SubSeq(s.q, k + 1, Len(s.q))
        served  == IF s.st = "degraded" THEN s.st ELSE IF s.r = None THEN "idle" ELSE "ready"
    IN
    /\ client' = [c \in Clients |-> IF c \in granted THEN "granted" ELSE s.cl[c]]
    /\ leaseEpoch' = [c \in Clients |-> IF c \in granted THEN s.ep ELSE leaseEpoch[c]]
    /\ inflight' = inflight + k
    /\ queue' = rest
    /\ \/ /\ rest = <<>>                                  \* nothing left: return
          /\ state' = served /\ target' = None
          /\ driver' = "none" /\ loading' = None
          /\ lock' = s.lk /\ op' = DriverGone(op)
       \/ /\ rest # <<>> /\ wants[Head(rest)] = s.r       \* the resident is full
          /\ state' = served /\ target' = None
          /\ driver' = "wait" /\ loading' = None
          /\ lock' = s.lk /\ UNCHANGED op
       \/ /\ rest # <<>> /\ wants[Head(rest)] # s.r       \* drain the resident
          /\ s.r # None /\ inflight + k > 0
          /\ state' = "draining" /\ target' = wants[Head(rest)]
          /\ driver' = "wait" /\ loading' = None
          /\ lock' = s.lk /\ UNCHANGED op
       \/ /\ rest # <<>> /\ wants[Head(rest)] # s.r       \* _transition
          /\ s.r = None \/ inflight + k = 0
          /\ target' = wants[Head(rest)] /\ loading' = wants[Head(rest)]
          /\ lock' = Append(s.lk, "driver")
          /\ IF s.lk = <<>> THEN driver' = "unload" /\ state' = "unloading"
                            ELSE driver' = "lock" /\ state' = s.st
          /\ UNCHANGED op

Turn(s) == IF s.open
             THEN \E k \in 0..Len(s.q) : IsGrantCount(k, s) /\ GrantAndSettle(s, k)
             ELSE RefuseAll(s)

DriverTurn ==
    /\ driver = "run"
    /\ Turn([q |-> queue, cl |-> client, r |-> resident, ep |-> epoch, open |-> Admits,
             lk |-> lock, st |-> state, tg |-> target])
    /\ UNCHANGED <<wants, epoch, resident, gates, loaded, bounds>>

\* _transition holds the operation lock and publishes unloading.
DriverLocked ==
    /\ driver = "lock" /\ Holds("driver")
    /\ driver' = "unload" /\ state' = "unloading"
    /\ UNCHANGED <<requests, epoch, resident, target, gates, loading, op, lock,
                   loaded, bounds>>

\* _unload_globally proved every engine empty; loading is published.
DriverUnloaded ==
    /\ driver = "unload" /\ Answered
    /\ loaded' = {}
    /\ driver' = "load" /\ state' = "loading"
    /\ UNCHANGED <<requests, epoch, resident, target, gates, loading, op, lock, bounds>>

\* adapter.load returned
DriverLoaded ==
    /\ driver = "load" /\ Answered
    /\ loaded' = loaded \cup {loading}
    /\ driver' = "verify" /\ state' = "verifying"
    /\ UNCHANGED <<requests, epoch, resident, target, gates, loading, op, lock, bounds>>

\* Exactly the target is resident: the lock is released, the handle published and
\* the loop goes on, without suspending.
DriverPublish ==
    /\ driver = "verify" /\ loaded = {loading} /\ Answered
    /\ resident' = loading /\ epoch' = epoch + 1
    /\ Turn([q |-> queue, cl |-> client, r |-> loading, ep |-> epoch + 1, open |-> Admits,
             lk |-> Tail(lock), st |-> IF Admits THEN "ready" ELSE state, tg |-> None])
    /\ UNCHANGED <<wants, gates, loaded, bounds>>

\* An adapter raises, a snapshot is not authoritative or the deadline passes; the
\* lock is released and _cleanup_best_effort runs without it.
DriverRaises ==
    /\ \/ /\ Upset /\ faults' = faults + 1
          /\ \/ driver = "unload" /\ loaded' \in SUBSET loaded
             \/ driver = "load" /\ loaded' \in {loaded, loaded \cup {loading}}
             \/ driver \in {"lock", "verify"} /\ loaded' = loaded
       \/ /\ driver = "verify" /\ loaded # {loading}
          /\ UNCHANGED <<faults, loaded>>
    /\ driver' = "clean"
    /\ lock' = Without(lock, "driver")
    /\ UNCHANGED <<requests, epoch, resident, state, target, gates, loading, op, drifts>>

BugAfterFailure(clean) ==
    /\ resident' = None
    /\ UNCHANGED initialized
    /\ accepting' = (accepting /\ clean)
    /\ \E k \in 0..Len(queue) :
         /\ \A i \in 1..k : wants[queue[i]] = loading
         /\ k < Len(queue) => wants[queue[k+1]] # loading
         /\ Turn([q |-> SubSeq(queue, k + 1, Len(queue)),
                  cl |-> [c \in Clients |-> IF \E i \in 1..k : queue[i] = c
                                              THEN "failed" ELSE client[c]],
                  r |-> None, ep |-> epoch, open |-> Admits /\ clean, lk |-> lock,
                  st |-> "degraded", tg |-> None])
    /\ UNCHANGED <<wants, epoch, stopping, bounds>>

\* The failed transition ends; an unclean one closes the gates.
AfterFailure(clean) ==
    /\ resident' = None
    /\ initialized' = (initialized /\ clean)
    /\ accepting' = (accepting /\ clean)
    /\ \E k \in 0..Len(queue) :
         /\ \A i \in 1..k : wants[queue[i]] = loading
         /\ k < Len(queue) => wants[queue[k+1]] # loading
         /\ Turn([q |-> SubSeq(queue, k + 1, Len(queue)),
                  cl |-> [c \in Clients |-> IF \E i \in 1..k : queue[i] = c
                                              THEN "failed" ELSE client[c]],
                  r |-> None, ep |-> epoch, open |-> Admits /\ clean, lk |-> lock,
                  st |-> "degraded", tg |-> None])
    /\ UNCHANGED <<wants, epoch, stopping, bounds>>

\* What made the transition fail may make the cleanup fail as well.
DriverCleaned ==
    /\ driver = "clean"
    /\ \/ loaded' = {} /\ AfterFailure(TRUE)
       \/ loaded' \in SUBSET loaded /\ AfterFailure(FALSE)

\* A cancelled driver leaves its suspension point, giving up the lock; the adapter
\* may or may not have finished.  Its finally clause starts a successor when
\* somebody waits.
DriverCancelled ==
    /\ driver = "cancelled"
    /\ loaded' \in IF Holds("driver") THEN (SUBSET loaded) \cup {{loading}}
                   ELSE IF loading # None /\ "driver" \notin Members(lock) THEN SUBSET loaded
                   ELSE {loaded}
    /\ lock' = Without(lock, "driver")
    /\ loading' = None
    /\ driver' = IF queue # <<>> /\ ~stopping THEN "run" ELSE "none"
    /\ op' = DriverLost(op)
    /\ UNCHANGED <<requests, epoch, resident, state, target, gates, bounds>>

-----------------------------------------------------------------------------
(* Operations                                                               *)

Unloads(k) == k \in {"unload", "evict", "abort", "empty", "init"}

\* async with _operation_lock, then _publish_state(UNLOADING)
TakeLock(o, k) ==
    /\ lock' = Append(lock, o)
    /\ op' = At(o, k, IF lock = <<>> THEN "work" ELSE "lock")
    /\ state' = IF lock = <<>> /\ Unloads(k) THEN "unloading" ELSE state

\* A live driver is awaited before the lock is asked for.
PastDrain(o, k, d) ==
    IF d # "none"
      THEN op' = At(o, k, "driver") /\ UNCHANGED <<state, lock>>
      ELSE TakeLock(o, k)

\* Close admission, fail every waiter, and drain; n leases remain.
Fence(o, k, cl, n) ==
    /\ accepting' = FALSE
    /\ client' = [c \in Clients |-> IF c \in Members(queue) THEN "failed" ELSE cl[c]]
    /\ queue' = <<>> /\ inflight' = n
    /\ IF n > 0 THEN op' = At(o, k, "drain") /\ state' = "draining" /\ UNCHANGED lock
                ELSE PastDrain(o, k, driver)

\* Before initialize nothing is called.  Of the operations only reconcile asks
\* whether the coordinator is stopping, and shutdown comes once.
MayBegin(o, k) ==
    /\ k \in Kinds /\ op[o].kind = "none"
    /\ k \in {"reconcile", "shutdown"} => ~stopping
    /\ k # "shutdown" => initialized \/ stopping \/ state # "idle"

\* initialize, once at start-up: nothing can be admitted before it.
Initialize(o) ==
    /\ state = "idle" /\ ~initialized /\ op = [p \in Slots |-> NoOp]
    /\ lock = <<>> /\ ~stopping
    /\ TakeLock(o, "init")
    /\ UNCHANGED <<requests, epoch, resident, target, gates, driver, loading, loaded, bounds>>

\* unload, evict_if_idle, reconcile, run_empty_maintenance
Begin(o, k) ==
    /\ k \in {"unload", "evict", "reconcile", "empty"} /\ MayBegin(o, k)
    /\ k = "evict" => resident # None /\ inflight = 0 /\ queue = <<>> /\ accepting
    /\ Fence(o, k, client, inflight)
    /\ driver' = Notified(driver)
    /\ UNCHANGED <<wants, leaseEpoch, epoch, resident, target, initialized, stopping,
                   loading, loaded, bounds>>

\* ModelLease.abort, _abort_epoch: fence and release in one step.
Abort(o, c) ==
    /\ MayBegin(o, "abort") /\ client[c] = "holding"
    /\ wants' = [wants EXCEPT ![c] = None]
    /\ IF leaseEpoch[c] = epoch
         THEN /\ Fence(o, "abort", [client EXCEPT ![c] = "idle"], Released(leaseEpoch[c]))
              /\ driver' = Notified(driver)
         ELSE /\ client' = [client EXCEPT ![c] = "idle"]
              /\ UNCHANGED <<accepting, queue, inflight, driver, op, state, lock>>
    /\ leaseEpoch' = [leaseEpoch EXCEPT ![c] = 0]
    /\ UNCHANGED <<epoch, resident, target, initialized, stopping,
                   loading, loaded, bounds>>

\* shutdown: the driver is cancelled first.
Shutdown(o) ==
    /\ MayBegin(o, "shutdown")
    /\ stopping' = TRUE /\ accepting' = FALSE /\ state' = "stopping"
    /\ client' = [c \in Clients |-> IF c \in Members(queue) THEN "failed" ELSE client[c]]
    /\ queue' = <<>>
    /\ driver' = IF driver = "none" THEN "none" ELSE "cancelled"
    /\ IF inflight > 0 THEN op' = At(o, "shutdown", "drain") /\ UNCHANGED lock
       ELSE IF driver # "none" THEN op' = At(o, "shutdown", "driver") /\ UNCHANGED lock
       ELSE /\ lock' = Append(lock, o)
            /\ op' = At(o, "shutdown", IF lock = <<>> THEN "work" ELSE "lock")
    /\ UNCHANGED <<wants, leaseEpoch, inflight, epoch, resident, target, initialized,
                   loading, loaded, bounds>>

BugDrainedEarly(o) ==
    /\ op[o].at = "drain"
    /\ PastDrain(o, op[o].kind, driver)
    /\ driver' = Notified(driver)
    /\ UNCHANGED <<requests, epoch, resident, target, gates, loading, loaded, bounds>>

\* The last lease is back.
OpDrained(o) ==
    /\ op[o].at = "drain" /\ inflight = 0
    /\ PastDrain(o, op[o].kind, driver)
    /\ driver' = Notified(driver)
    /\ UNCHANGED <<requests, epoch, resident, target, gates, loading, loaded, bounds>>

\* The driver it awaited has ended.
OpAwaited(o) ==
    /\ op[o].at = "driverdone"
    /\ TakeLock(o, op[o].kind)
    /\ driver' = Notified(driver)
    /\ UNCHANGED <<requests, epoch, resident, target, gates, loading, loaded, bounds>>

OpLocked(o) ==
    /\ op[o].at = "lock" /\ Holds(o)
    /\ op' = At(o, op[o].kind, "work")
    /\ state' = IF Unloads(op[o].kind) THEN "unloading" ELSE state
    /\ driver' = Notified(driver)
    /\ UNCHANGED <<requests, epoch, resident, target, gates, loading, lock, loaded, bounds>>

\* An operation ends well: the gates reopen.
Reopen(o, r) ==
    /\ resident' = r /\ target' = None
    /\ initialized' = TRUE /\ accepting' = TRUE
    /\ state' = IF r = None THEN "idle" ELSE "ready"
    /\ driver' = Notified(driver)
    /\ lock' = Tail(lock) /\ op' = Done(o)
    /\ UNCHANGED <<requests, epoch, stopping, loading>>

\* _unload_globally returned; maintenance goes on with its own operation.
OpUnloaded(o) ==
    /\ op[o].at = "work" /\ Unloads(op[o].kind) /\ Answered
    /\ loaded' = {}
    /\ IF op[o].kind # "empty" THEN Reopen(o, None)
       ELSE /\ op' = At(o, "empty", "operate")
            /\ UNCHANGED <<requests, epoch, resident, state, target, gates, driver,
                           loading, lock>>
    /\ UNCHANGED bounds

\* The maintenance operation returned and every engine is still empty.
OpOperated(o) ==
    /\ op[o].at = "operate" /\ loaded = {} /\ Answered
    /\ Reopen(o, None)
    /\ UNCHANGED <<loaded, bounds>>

\* reconcile compares; drift is unloaded.
OpReconciled(o) ==
    /\ op[o] = [kind |-> "reconcile", at |-> "work", seen |-> {}]
    /\ IF Matches(resident, loaded) THEN Reopen(o, resident)
       ELSE /\ op' = At(o, "reconcile", "repair")
            /\ UNCHANGED <<requests, epoch, resident, state, target, gates, driver,
                           loading, lock>>
    /\ UNCHANGED <<loaded, bounds>>

OpRepaired(o) ==
    /\ op[o].at = "repair"
    /\ loaded' = {}
    /\ Reopen(o, None)
    /\ UNCHANGED bounds

\* The node fails closed.
FailClosed == initialized' = FALSE /\ accepting' = FALSE /\ state' = "degraded"

\* The drain deadline passes: unload and reconcile reopen, the others fail closed.
OpDrainTimesOut(o) ==
    /\ op[o].at = "drain" /\ inflight > 0 /\ op[o].kind # "shutdown"
    /\ Upset /\ faults' = faults + 1
    /\ IF op[o].kind \in {"unload", "evict", "reconcile"}
         THEN /\ accepting' = TRUE /\ UNCHANGED initialized
              /\ state' = IF resident = None THEN "idle" ELSE "ready"
         ELSE /\ initialized' = FALSE /\ state' = "degraded"
              /\ accepting' = (accepting /\ op[o].kind # "empty")
    /\ op' = Done(o)
    /\ driver' = IF op[o].kind = "empty" THEN Notified(driver) ELSE driver
    /\ UNCHANGED <<requests, epoch, resident, target, stopping, loading, lock, loaded, drifts>>

\* Any later deadline passes, an adapter raises or the awaited driver was cancelled.
\* A driver that is still awaited is cancelled.
OpFails(o) ==
    /\ op[o].kind \notin {"audit", "shutdown"}
    /\ op[o].at \in {"driver", "driverdone", "driverlost", "lock", "work", "operate", "repair"}
    /\ IF op[o].at = "driverlost" THEN UNCHANGED faults ELSE Upset /\ faults' = faults + 1
    /\ FailClosed
    /\ driver' = IF op[o].at = "driver" THEN "cancelled" ELSE Notified(driver)
    /\ loaded' \in IF op[o].at \in {"driver", "driverdone", "driverlost", "lock"}
                    THEN {loaded} ELSE SUBSET loaded
    /\ lock' = Without(lock, o) /\ op' = Done(o)
    /\ UNCHANGED <<requests, epoch, resident, target, stopping, loading, drifts>>

\* run_empty_maintenance: a model appeared during the operation.
OpLeftResident(o) ==
    /\ op[o].at = "operate" /\ loaded # {}
    /\ FailClosed
    /\ driver' = Notified(driver)
    /\ lock' = Without(lock, o) /\ op' = Done(o)
    /\ UNCHANGED <<requests, epoch, resident, target, stopping, loading, loaded, bounds>>

\* shutdown's cleanup finished, or its grace period ended it at any point; it then
\* touches no engine.
ShutdownEnds(o) ==
    /\ op[o].kind = "shutdown"
    /\ IF op[o].at = "work" THEN loaded' \in SUBSET loaded ELSE UNCHANGED loaded
    /\ resident' = None /\ target' = None /\ initialized' = FALSE /\ state' = "stopping"
    /\ driver' = IF driver = "none" THEN "none" ELSE "cancelled"
    /\ lock' = Without(lock, o) /\ op' = Done(o)
    /\ UNCHANGED <<requests, epoch, accepting, stopping, loading, bounds>>

-----------------------------------------------------------------------------
(* audit                                                                    *)

BeginAudit(o) ==
    /\ MayBegin(o, "audit")
    /\ state \notin Transition
    /\ TakeLock(o, "audit")
    /\ UNCHANGED <<requests, epoch, resident, target, gates, driver, loading, loaded, bounds>>

AuditInspects(o) ==
    /\ op[o].kind = "audit" /\ op[o].at = "work"
    /\ op' = [op EXCEPT ![o].at = "compare", ![o].seen = loaded]
    /\ UNCHANGED <<requests, epoch, resident, state, target, gates, driver, loading,
                   lock, loaded, bounds>>

\* Drift fails closed, and reconcile takes over in the same task when no lease is
\* out (the waiters have just been failed).
AuditCompares(o) ==
    /\ op[o].at = "compare"
    /\ IF state \in Transition \/ Matches(resident, op[o].seen)
         THEN /\ lock' = Tail(lock) /\ op' = Done(o)
              /\ UNCHANGED <<requests, state, gates, driver>>
         ELSE /\ initialized' = FALSE /\ accepting' = FALSE
              /\ client' = [c \in Clients |-> IF c \in Members(queue) THEN "failed" ELSE client[c]]
              /\ queue' = <<>>
              /\ driver' = Notified(driver)
              /\ state' = "degraded"
              /\ IF inflight > 0 \/ stopping
                   THEN lock' = Tail(lock) /\ op' = Done(o)
                   ELSE IF driver # "none"
                   THEN lock' = Tail(lock) /\ op' = At(o, "reconcile", "driver")
                   ELSE /\ lock' = Append(Tail(lock), o)
                        /\ op' = At(o, "reconcile", IF Len(lock) = 1 THEN "work" ELSE "lock")
              /\ UNCHANGED <<wants, leaseEpoch, inflight, stopping>>
    /\ UNCHANGED <<epoch, resident, target, loading, loaded, bounds>>

\* The audit's own deadline or an adapter fails it: a transition in progress
\* excuses a timeout.
AuditFails(o) ==
    /\ op[o].kind = "audit" /\ op[o].at \in {"lock", "work"}
    /\ Upset /\ faults' = faults + 1
    /\ lock' = Without(lock, o) /\ op' = Done(o)
    /\ \/ /\ state \in Transition
          /\ UNCHANGED <<client, queue, initialized, accepting, state, driver>>
       \/ /\ op[o].at = "work" \/ state \notin Transition
          /\ FailClosed
          /\ client' = [c \in Clients |-> IF c \in Members(queue) THEN "failed" ELSE client[c]]
          /\ queue' = <<>>
          /\ driver' = Notified(driver)
    /\ UNCHANGED <<wants, leaseEpoch, inflight, epoch, resident, target, stopping,
                   loading, loaded, drifts>>

-----------------------------------------------------------------------------
\* A model appears in, or vanishes from, an engine behind the service's back.
Drift ==
    /\ Upset /\ drifts' = drifts + 1
    /\ \E d \in Deployments : loaded' = IF d \in loaded THEN loaded \ {d} ELSE loaded \cup {d}
    /\ UNCHANGED <<requests, epoch, resident, state, target, gates, driver, loading,
                   op, lock, faults>>

DriverStep == \/ DriverTurn \/ DriverLocked \/ DriverUnloaded \/ DriverLoaded
              \/ DriverPublish \/ DriverRaises \/ DriverCleaned \/ DriverCancelled

OpStep(o) == \/ OpDrained(o) \/ OpAwaited(o) \/ OpLocked(o) \/ OpUnloaded(o)
             \/ OpOperated(o) \/ OpReconciled(o) \/ OpRepaired(o) \/ OpLeftResident(o)
             \/ OpFails(o) \/ ShutdownEnds(o)
             \/ AuditInspects(o) \/ AuditCompares(o) \/ AuditFails(o)

\* _reconcile_maintenance: an uninitialized node is reconciled, periodically.
Recover(o) == ~initialized /\ Begin(o, "reconcile")

Next ==
    \/ \E c \in Clients : \/ \E d \in Deployments : AcquireWarm(c, d) \/ AcquireQueued(c, d)
                          \/ Resume(c) \/ AbandonWait(c) \/ Release(c)
    \/ DriverStep
    \/ \E o \in Slots : \/ Initialize(o)
                        \/ \E k \in Kinds : Begin(o, k)
                        \/ \E c \in Clients : Abort(o, c)
                        \/ Shutdown(o) \/ BeginAudit(o)
                        \/ OpStep(o) \/ OpDrainTimesOut(o)
    \/ Drift

Spec == Init /\ [][Next]_vars

\* Ready tasks run, adapters return or raise, responses end, and the maintenance
\* loop runs for as long as the service does.  Requests, control calls, abandoned
\* waits and expired drains stay unfair.
Fairness ==
    /\ WF_vars(DriverStep)
    /\ \A o \in Slots : WF_vars(Initialize(o) \/ OpStep(o)) /\ SF_vars(Recover(o))
    /\ \A c \in Clients : WF_vars(Resume(c) \/ Release(c))

FairSpec == Spec /\ Fairness

-----------------------------------------------------------------------------
(* Properties                                                               *)

\* Whoever holds a lease is served by the deployment it asked for, the only model
\* any engine holds, unless engines changed behind the service's back.
LeaseServed ==
    \A c \in LeaseHolders : /\ ~stopping => resident = wants[c]
                            /\ drifts = 0 => loaded = {wants[c]}

\* run_empty_maintenance, "Drain, prove global empty, and hold admission closed for
\* maintenance": no lease is out while it empties the engines and operates.
MaintenanceAlone ==
    \A o \in Slots : (op[o].kind = "empty" /\ op[o].at \in {"work", "operate"})
                        => LeaseHolders = {}

\* No transition, cleanup, unload, repair, maintenance or shutdown changes what the
\* engines hold beneath a lease, whatever drifted, failed or timed out before.
EnginesKeptForLeases ==
    [][(loaded' # loaded /\ drifts' = drifts) => LeaseHolders = {}]_vars

\* _inflight is exact, of the current epoch only: aborts, abandoned grants and
\* late releases neither leak nor steal a permit.
InflightExact ==
    /\ inflight = Cardinality(LeaseHolders)
    /\ \A c \in LeaseHolders : leaseEpoch[c] = epoch

\* A lease is always on the deployment its caller asked for and always counted.
LeasesSound == LeaseServed /\ InflightExact

\* A waiter is granted or failed even if it never times out.
WaitersProgress ==
    \A c \in Clients : client[c] = "queued" ~> client[c] # "queued"

\* A node that failed closed is open again, once its adapters answer, by the
\* maintenance loop alone: no operation leaves the gates shut for good.
Reopens == (~initialized \/ ~accepting) ~> (initialized /\ accepting) \/ stopping
=============================================================================
