--------------------------- MODULE FleetDispatch ---------------------------
(***************************************************************************)
(* The Fleet gateway's dispatch path: the registry's polls and last        *)
(* accepted node snapshots (registry.py), the warm-first scheduler with    *)
(* its FIFO queues and local reservations (scheduler.py) and the proxy's   *)
(* attempts and failover (proxy.py: handle, _attempt), against nodes that  *)
(* admit, queue, refuse, restart and serve other traffic as well.          *)
(*                                                                         *)
(* A gateway step is the code between two suspensions of one coroutine.    *)
(* Times appear only as the one comparison the scheduler makes: whether a  *)
(* reservation was admitted before the poll behind a record started.       *)
(***************************************************************************)
EXTENDS Naturals, Sequences, FiniteSets

CONSTANTS Nodes, Models, Requests,
          None,           \* no model, no node, no record
          Serves,         \* [Nodes -> SUBSET Models]: strict, eligible deployments
          Slots,          \* [Nodes -> Nat]: a node's effective limit
          QueueLimit,     \* [Nodes -> Nat]: a node's queue limit
          Weight,         \* [Nodes -> Nat]: effective limit, or the lower routing weight
          QueueDepth,     \* [Models -> Nat]: queue_depth of a public model
          FirstOrder,     \* the nodes in node_id order
          OpenChoices,    \* whether a snapshot may say accepting, not accepting
          MaxLocal,       \* bound: permits a node's own clients may take
          MaxInstance     \* bound: process instances of a node

ASSUME FleetAssumption ==
    /\ IsFiniteSet(Requests) /\ IsFiniteSet(Nodes)
    /\ None \notin Nodes /\ None \notin Models
    /\ Serves \in [Nodes -> SUBSET Models]
    /\ Slots \in [Nodes -> Nat \ {0}]
    /\ QueueLimit \in [Nodes -> Nat]
    /\ Weight \in [Nodes -> Nat \ {0}]
    /\ QueueDepth \in [Models -> Nat]
    /\ FirstOrder \in Seq(Nodes)
    /\ OpenChoices \subseteq BOOLEAN
    /\ MaxLocal \in Nat /\ MaxInstance \in Nat \ {0}

VARIABLES
    \* one client request each
    pc,         \* where the request's coroutine is
    model,      \* the public model it names
    excluded,   \* nodes its earlier attempts failed at
    dest,       \* node of its latest reservation
    rinst,      \* instance_id of that reservation
    before,     \* admitted before the poll in flight to dest started
    counted,    \* admitted before the poll behind dest's record started
    \* scheduler
    queue,      \* [Models -> Seq(Requests)]
    recency,    \* nodes, least recently selected first
    \* registry
    poll,       \* [Nodes -> poll in flight]
    record,     \* [Nodes -> last accepted snapshot, or None]
    live,       \* [Nodes -> the record is within its TTL]
    \* nodes
    place,      \* where the request's bytes are
    executed,   \* history: nodes at which the request obtained a permit
    inst,       \* [Nodes -> process instance]
    resident,   \* [Nodes -> resident model, or None]
    local       \* [Nodes -> permits held by the node's own clients]

request   == <<pc, model, excluded, dest, rinst, before, counted>>
scheduler == <<queue, recency>>
registry  == <<poll, record, live>>
node      == <<place, executed, inst, resident, local>>
vars == <<pc, model, excluded, dest, rinst, before, counted, queue, recency,
          poll, record, live, place, executed, inst, resident, local>>

RequestState == {"idle", "asleep", "awake", "sending", "streaming", "retry", "done"}
Place        == {"none", "outbound", "waiting", "running", "refused"}

Running(n) == {r \in Requests : dest[r] = n /\ place[r] = "running"}
Waiting(n) == {r \in Requests : dest[r] = n /\ place[r] = "waiting"}
Used(n)    == Cardinality(Running(n)) + local[n]

\* A reservation is held from its selection until its attempt ends.
Reserved(r) == pc[r] \in {"sending", "streaming"}

\* Plausible bugs, each one changing a single definition below.
BugReservedByNow(r) == Reserved(r)
BugNotified(p) == p
BugRetries(outcome) == outcome # "done"
BugNoExclusion(r) == excluded[r]
BugMayBypass(m) == TRUE

-----------------------------------------------------------------------------
(* Selection                                                                *)

\* _unaccounted_reservations: reservations the record cannot have seen.
Unaccounted(n, rec) ==
    {r \in Requests : Reserved(r) /\ dest[r] = n /\ rinst[r] = rec.inst
                      /\ ~counted[r]}

\* capacity.available of a snapshot; a node with waiters has none to offer
Available(n, rec) ==
    IF rec.waiting = {} /\ Cardinality(rec.running) + rec.local < Slots[n]
      THEN Slots[n] - (Cardinality(rec.running) + rec.local) ELSE 0

\* Whether the node has room of the given tier for model m: 1 resident with a
\* permit, 2 resident with queue room, 3 empty node, 4 node that must switch.
FitsTier(n, rec, m, tier) ==
    LET ours == Cardinality(Unaccounted(n, rec))
        room == Cardinality(rec.waiting) + ours < QueueLimit[n]
        permit == rec.resident = m /\ ours < Available(n, rec)
    IN \/ tier = 1 /\ permit
       \/ tier = 2 /\ ~permit /\ rec.resident = m /\ room
       \/ tier = 3 /\ rec.resident = None /\ room
       \/ tier = 4 /\ rec.resident \notin {m, None} /\ room

\* Nodes with a live, open record that can take m in that tier
TierNodes(m, out, tier) ==
    {n \in Nodes \ out : /\ record[n] # None /\ live[n]
                         /\ record[n].open
                         /\ m \in Serves[n]
                         /\ FitsTier(n, record[n], m, tier)}

Candidates(m, out) == UNION {TierNodes(m, out, t) : t \in 1..4}

\* Outstanding work of a node; scores compare Outstanding / Weight.
Outstanding(n) == Cardinality(record[n].running) + record[n].local
                  + Cardinality(record[n].waiting)
                  + Cardinality(Unaccounted(n, record[n]))
Rank(n) == CHOOSE i \in 1..Len(recency) : recency[i] = n

\* _select: lowest tier, then least weighted outstanding, then least recently
\* selected.
Selects(m, out, n) ==
    \E t \in 1..4 :
      /\ \A u \in 1..(t - 1) : TierNodes(m, out, u) = {}
      /\ n \in TierNodes(m, out, t)
      /\ \A o \in TierNodes(m, out, t) :
           \/ Outstanding(n) * Weight[o] < Outstanding(o) * Weight[n]
           \/ /\ Outstanding(n) * Weight[o] = Outstanding(o) * Weight[n]
              /\ Rank(n) <= Rank(o)

-----------------------------------------------------------------------------
(* Condition.notify_all, _reserve and release                               *)

Notified(p) == [r \in Requests |-> IF p[r] = "asleep" THEN "awake" ELSE p[r]]

\* q without its first r: deque.remove, with q as it is when there is none
Removed(q, r) ==
    IF \A i \in 1..Len(q) : q[i] # r THEN q
    ELSE LET k == CHOOSE i \in 1..Len(q) : q[i] = r /\ \A j \in 1..(i - 1) : q[j] # r
         IN  [j \in 1..(Len(q) - 1) |-> q[IF j < k THEN j ELSE j + 1]]

\* The gateway side of _reserve; the request's bytes leave for the node once its
\* route row is started.
Reserve(r, n) ==
    /\ dest' = [dest EXCEPT ![r] = n]
    /\ rinst' = [rinst EXCEPT ![r] = record[n].inst]
    /\ before' = [before EXCEPT ![r] = FALSE]
    /\ counted' = [counted EXCEPT ![r] = FALSE]
    /\ recency' = Append(Removed(recency, n), n)
    /\ place' = [place EXCEPT ![r] = "outbound"]

-----------------------------------------------------------------------------
Init ==
    /\ pc = [r \in Requests |-> "idle"]
    /\ model \in [Requests -> Models]
    /\ excluded = [r \in Requests |-> {}]
    /\ dest = [r \in Requests |-> None]
    /\ rinst = [r \in Requests |-> 0]
    /\ before = [r \in Requests |-> FALSE]
    /\ counted = [r \in Requests |-> FALSE]
    /\ queue = [m \in Models |-> <<>>]
    /\ recency = FirstOrder
    /\ poll = [n \in Nodes |-> [stage |-> "idle"]]
    /\ record = [n \in Nodes |-> None]
    /\ live = [n \in Nodes |-> FALSE]
    /\ place = [r \in Requests |-> "none"]
    /\ executed = [r \in Requests |-> {}]
    /\ inst = [n \in Nodes |-> 1]
    /\ resident = [n \in Nodes |-> None]
    /\ local = [n \in Nodes |-> 0]

-----------------------------------------------------------------------------
(* Scheduler.acquire                                                        *)

\* Only a request that finds its model's queue empty may be placed at once.
MayBypass(m) == queue[m] = <<>>

\* A request enters acquire with the nodes out ruled out: it is placed at once,
\* or queued, or refused because the queue is full.
Acquire(r, out) ==
    LET m == model[r]
        mustWait == queue[m] # <<>> \/ Candidates(m, out) = {} IN
    \/ \E n \in Nodes :
         /\ MayBypass(m)
         /\ Selects(m, out, n)
         /\ Reserve(r, n)
         /\ pc' = [pc EXCEPT ![r] = "sending"]
         /\ UNCHANGED queue
    \/ /\ mustWait /\ Len(queue[m]) < QueueDepth[m]
       /\ queue' = [queue EXCEPT ![m] = Append(queue[m], r)]
       /\ pc' = [pc EXCEPT ![r] = "asleep"]
       /\ UNCHANGED <<dest, rinst, before, counted, recency, place>>
    \/ /\ mustWait /\ Len(queue[m]) >= QueueDepth[m]
       /\ pc' = [pc EXCEPT ![r] = "done"]
       /\ UNCHANGED <<dest, rinst, before, counted, scheduler, place>>

Arrive(r) ==
    /\ pc[r] = "idle"
    /\ Acquire(r, {})
    /\ UNCHANGED <<model, excluded, registry, executed, inst, resident, local>>

\* A notified waiter: the head of its queue takes a candidate if there is one
\* and wakes the others, everyone else sleeps again.
Wake(r) ==
    LET m == model[r] IN
    /\ pc[r] = "awake"
    /\ \/ \E n \in Nodes :
            /\ queue[m] # <<>> /\ Head(queue[m]) = r
            /\ Selects(m, excluded[r], n)
            /\ queue' = [queue EXCEPT ![m] = Tail(queue[m])]
            /\ Reserve(r, n)
            /\ pc' = Notified([pc EXCEPT ![r] = "sending"])
       \/ /\ \/ queue[m] = <<>> \/ Head(queue[m]) # r
             \/ Candidates(m, excluded[r]) = {}
          /\ pc' = [pc EXCEPT ![r] = "asleep"]
          /\ UNCHANGED <<queue, dest, rinst, before, counted, recency, place>>
    /\ UNCHANGED <<model, excluded, registry, executed, inst, resident, local>>

\* A waiter's deadline passes or its client goes away.
LeaveQueue(r) ==
    LET m == model[r] IN
    /\ pc[r] \in {"asleep", "awake"}
    /\ queue' = [queue EXCEPT ![m] = Removed(queue[m], r)]
    /\ pc' = Notified([pc EXCEPT ![r] = "done"])
    /\ UNCHANGED <<model, excluded, dest, rinst, before, counted, recency,
                   registry, node>>

-----------------------------------------------------------------------------
(* FleetProxy.handle and _attempt.  Ending an attempt releases the          *)
(* reservation, which wakes every waiter.                                   *)

\* The outcomes that prove the node did no work, after which another node may
\* be tried.
Retries(outcome) == outcome \in {"connect", "busy"}

EndAttempt(r, outcome) ==
    /\ pc' = Notified([pc EXCEPT ![r] = IF Retries(outcome) THEN "retry" ELSE "done"])
    /\ rinst' = [rinst EXCEPT ![r] = 0]
    /\ before' = [before EXCEPT ![r] = FALSE]
    /\ counted' = [counted EXCEPT ![r] = FALSE]
    /\ UNCHANGED <<model, excluded, dest, scheduler, registry>>

\* ConnectError, ConnectTimeout or PoolTimeout: the node never saw the request.
ConnectFails(r) ==
    /\ pc[r] = "sending" /\ place[r] = "outbound"
    /\ place' = [place EXCEPT ![r] = "none"]
    /\ EndAttempt(r, "connect")
    /\ UNCHANGED <<executed, inst, resident, local>>

\* 429 with the manager's X-Mnemosyne-Error: node_busy
BusyArrives(r) ==
    /\ pc[r] = "sending" /\ place[r] = "refused"
    /\ place' = [place EXCEPT ![r] = "none"]
    /\ EndAttempt(r, "busy")
    /\ UNCHANGED <<executed, inst, resident, local>>

\* A read, write or protocol error, an unexpected error, or the client going
\* away: the node may or may not be running the request.
AttemptLost(r) ==
    /\ Reserved(r)
    /\ EndAttempt(r, "ambiguous")
    /\ UNCHANGED node

\* Any other response headers: mark_admitted, and the response is streamed.
HeadersArrive(r) ==
    /\ pc[r] = "sending" /\ place[r] \in {"running", "none"}
    /\ pc' = [pc EXCEPT ![r] = "streaming"]
    /\ UNCHANGED <<model, excluded, dest, rinst, before, counted, scheduler,
                   registry, node>>

\* The complete response was delivered.
StreamEnds(r) ==
    /\ pc[r] = "streaming" /\ place[r] = "none"
    /\ EndAttempt(r, "done")
    /\ UNCHANGED node

\* handle's loop: exclude the node and, while attempts are left, acquire again.
Exclude(r) == excluded[r] \cup {dest[r]}

NextAttempt(r) ==
    /\ pc[r] = "retry"
    /\ excluded' = [excluded EXCEPT ![r] = Exclude(r)]
    /\ IF Cardinality(Exclude(r)) < Cardinality(Nodes)
         THEN Acquire(r, Exclude(r))
         ELSE /\ pc' = [pc EXCEPT ![r] = "done"]
              /\ UNCHANGED <<dest, rinst, before, counted, scheduler, place>>
    /\ UNCHANGED <<model, registry, executed, inst, resident, local>>

-----------------------------------------------------------------------------
(* NodeRegistry.poll_once, one poll at a time per node                      *)

\* Upstream headers have proved the node's admission of r.
AdmittedByNow(r) == pc[r] = "streaming"

PollStarts(n) ==
    /\ poll[n].stage = "idle"
    /\ poll' = [poll EXCEPT ![n] = [stage |-> "asked"]]
    /\ before' = [r \in Requests |-> IF dest[r] = n THEN AdmittedByNow(r)
                                     ELSE before[r]]
    /\ UNCHANGED <<pc, model, excluded, dest, rinst, counted, scheduler, record,
                   live, node>>

\* The node composes its snapshot.
NodeAnswers(n) ==
    /\ poll[n].stage = "asked"
    /\ \E open \in OpenChoices :
         poll' = [poll EXCEPT ![n] =
                    [stage |-> "answered", inst |-> inst[n], open |-> open,
                     resident |-> resident[n], running |-> Running(n),
                     waiting |-> Waiting(n), local |-> local[n]]]
    /\ UNCHANGED <<request, scheduler, record, live, node>>

\* A validated snapshot replaces the record and wakes the scheduler.
PollSucceeds(n) ==
    /\ poll[n].stage = "answered"
    /\ record' = [record EXCEPT ![n] = poll[n]]
    /\ live' = [live EXCEPT ![n] = TRUE]
    /\ counted' = [r \in Requests |-> IF dest[r] = n THEN before[r] ELSE counted[r]]
    /\ poll' = [poll EXCEPT ![n] = [stage |-> "idle"]]
    /\ pc' = Notified(pc)
    /\ UNCHANGED <<model, excluded, dest, rinst, before, scheduler, node>>

\* A timeout, a transport error, a bad status or an invalid document leaves the
\* record alone and wakes the scheduler all the same.
PollFails(n) ==
    /\ poll[n].stage # "idle"
    /\ poll' = [poll EXCEPT ![n] = [stage |-> "idle"]]
    /\ pc' = Notified(pc)
    /\ UNCHANGED <<model, excluded, dest, rinst, before, counted, scheduler,
                   record, live, node>>

\* live_records: the record outlives its TTL.
RecordExpires(n) ==
    /\ live[n]
    /\ live' = [live EXCEPT ![n] = FALSE]
    /\ UNCHANGED <<request, scheduler, poll, record, node>>

-----------------------------------------------------------------------------
(* The nodes, as the gateway relies on them: admission before work, a       *)
(* bounded queue, refusal with proof when it is full (of the gateway's      *)
(* requests, or of the node's own clients').                                *)

Permit(n, m) == resident[n] = m /\ Waiting(n) = {} /\ Used(n) < Slots[n]

NodeReceives(r) ==
    LET n == dest[r]
        full == Cardinality(Waiting(n)) >= QueueLimit[n] IN
    /\ place[r] = "outbound"
    /\ \/ /\ Permit(n, model[r])
          /\ place' = [place EXCEPT ![r] = "running"]
          /\ executed' = [executed EXCEPT ![r] = @ \cup {n}]
       \/ /\ ~Permit(n, model[r]) /\ ~full
          /\ place' = [place EXCEPT ![r] = "waiting"]
          /\ UNCHANGED executed
       \/ /\ ~Permit(n, model[r]) /\ (full \/ MaxLocal > 0)
          /\ place' = [place EXCEPT ![r] = "refused"]
          /\ UNCHANGED executed
    /\ UNCHANGED <<request, scheduler, registry, inst, resident, local>>

\* A waiter obtains a permit, after a switch if need be.
NodeGrants(r) ==
    LET n == dest[r] IN
    /\ place[r] = "waiting"
    /\ \/ resident[n] = model[r] /\ Used(n) < Slots[n]
       \/ Used(n) = 0
    /\ resident' = [resident EXCEPT ![n] = model[r]]
    /\ place' = [place EXCEPT ![r] = "running"]
    /\ executed' = [executed EXCEPT ![r] = @ \cup {n}]
    /\ UNCHANGED <<request, scheduler, registry, inst, local>>

\* The node finishes the request, or gives up on one that is still waiting.
NodeFinishes(r) ==
    /\ place[r] \in {"running", "waiting"}
    /\ place' = [place EXCEPT ![r] = "none"]
    /\ UNCHANGED <<request, scheduler, registry, executed, inst, resident, local>>

LocalTraffic(n) ==
    /\ \/ /\ local[n] < MaxLocal /\ Used(n) < Slots[n] /\ resident[n] # None
          /\ local' = [local EXCEPT ![n] = @ + 1]
       \/ /\ local[n] > 0
          /\ local' = [local EXCEPT ![n] = @ - 1]
    /\ UNCHANGED <<request, scheduler, registry, place, executed, inst, resident>>

\* The manager restarts: what it was doing is lost.
NodeRestarts(n) ==
    /\ inst[n] < MaxInstance
    /\ inst' = [inst EXCEPT ![n] = @ + 1]
    /\ resident' = [resident EXCEPT ![n] = None]
    /\ local' = [local EXCEPT ![n] = 0]
    /\ place' = [r \in Requests |-> IF r \in Running(n) \cup Waiting(n)
                                      THEN "none" ELSE place[r]]
    /\ UNCHANGED <<request, scheduler, registry, executed>>

-----------------------------------------------------------------------------
AttemptStep(r) == \/ ConnectFails(r) \/ BusyArrives(r) \/ AttemptLost(r)
                  \/ HeadersArrive(r) \/ StreamEnds(r)

RequestStep(r) == \/ Arrive(r) \/ Wake(r) \/ LeaveQueue(r)
                  \/ AttemptStep(r) \/ NextAttempt(r)

PollStep(n) == \/ PollStarts(n) \/ NodeAnswers(n) \/ PollSucceeds(n)
               \/ PollFails(n) \/ RecordExpires(n)

NodeStep == \/ \E r \in Requests : NodeReceives(r) \/ NodeGrants(r) \/ NodeFinishes(r)
            \/ \E n \in Nodes : LocalTraffic(n) \/ NodeRestarts(n)

Next == \/ \E r \in Requests : RequestStep(r)
        \/ \E n \in Nodes : PollStep(n)
        \/ NodeStep

Spec == Init /\ [][Next]_vars

\* A waiter's deadline passes, a ready coroutine runs, and an attempt ends: the
\* HTTP client has a timeout and a response ends.  Polls and nodes stay unfair.
FairSpec == /\ Spec
            /\ \A r \in Requests : /\ WF_vars(LeaveQueue(r))
                                   /\ WF_vars(AttemptStep(r))
                                   /\ WF_vars(NextAttempt(r))

-----------------------------------------------------------------------------
(* Properties                                                               *)

Snapshots == [stage : {"answered"}, inst : 1..MaxInstance, open : BOOLEAN,
              resident : Models \cup {None}, running : SUBSET Requests,
              waiting : SUBSET Requests, local : Nat]

\* Every variable keeps its type.
TypeOK ==
    /\ pc \in [Requests -> RequestState]
    /\ model \in [Requests -> Models]
    /\ excluded \in [Requests -> SUBSET Nodes]
    /\ dest \in [Requests -> Nodes \cup {None}]
    /\ rinst \in [Requests -> 0..MaxInstance]
    /\ before \in [Requests -> BOOLEAN] /\ counted \in [Requests -> BOOLEAN]
    /\ queue \in [Models -> Seq(Requests)]
    /\ recency \in Seq(Nodes)
    /\ poll \in [Nodes -> [stage : {"idle", "asked"}] \cup Snapshots]
    /\ record \in [Nodes -> Snapshots \cup {None}]
    /\ live \in [Nodes -> BOOLEAN]
    /\ place \in [Requests -> Place]
    /\ executed \in [Requests -> SUBSET Nodes]
    /\ inst \in [Nodes -> 1..MaxInstance]
    /\ resident \in [Nodes -> Models \cup {None}]
    /\ local \in [Nodes -> Nat]

\* The requests the gateway currently keeps at (or has on the way to) the node
\* process its reservations name
Load(n) == {r \in Requests : /\ Reserved(r) /\ dest[r] = n /\ rinst[r] = inst[n]
                             /\ place[r] \in {"outbound", "waiting", "running"}}

\* However polls, arrivals and admissions interleave, reservations plus the last
\* snapshot account for every request the gateway has at a node: it never commits
\* more of them than the node's permits and queue can take.
NoOvercommit == \A n \in Nodes : Cardinality(Load(n)) <= Slots[n] + QueueLimit[n]

\* Failover never duplicates inference: a request obtains a permit at one node at
\* most, whatever its attempts ran into.
AtMostOneExecution == \A r \in Requests : Cardinality(executed[r]) <= 1

\* No waiter is forgotten: the head of a queue sleeps only while no node can take
\* it, so every change that could help it has woken it.
NoLostWakeup ==
    \A m \in Models :
      (queue[m] # <<>> /\ pc[Head(queue[m])] = "asleep")
        => Candidates(m, excluded[Head(queue[m])]) = {}

\* FIFO per public model: a request that obtains a reservation leaves nobody of
\* its model who was queued before it still waiting.
NoOvertaking ==
    [][\A r \in Requests : (Reserved(r)' /\ ~Reserved(r)) =>
         \A i \in 1..Len(queue[model[r]]) :
            (\A j \in 1..i : queue[model[r]][j] # r)
              => pc'[queue[model[r]][i]] \notin {"asleep", "awake"}]_vars

\* Every request is answered: queue deadlines and the exclusion of failed nodes
\* bound its waiting and its attempts.
RequestsEnd == \A r \in Requests : pc[r] # "idle" ~> pc[r] = "done"
=============================================================================
