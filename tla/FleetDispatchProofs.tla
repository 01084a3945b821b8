------------------------ MODULE FleetDispatchProofs ------------------------
(***************************************************************************)
(* Theorems about FleetDispatch for any number of nodes, models, requests, *)
(* permits, queue places and restarts: types, at most one execution per    *)
(* request, no over-commitment of a node, no lost wake-up, FIFO admission. *)
(***************************************************************************)
EXTENDS FleetDispatch, FiniteSetTheorems, TLAPS

-----------------------------------------------------------------------------
(* Lemmas about the operators                                               *)

\* What is left of a sequence is a sequence of its elements.
LEMMA RemovedType ==
  ASSUME NEW S, NEW q \in Seq(S), NEW r
  PROVE  /\ Removed(q, r) \in Seq(S)
         /\ \A i \in 1..Len(Removed(q, r)) :
              \E j \in 1..Len(q) : Removed(q, r)[i] = q[j]
<1>1. CASE \A i \in 1..Len(q) : q[i] # r
  BY <1>1 DEF Removed
<1>2. CASE \E i \in 1..Len(q) : q[i] = r
  <2> DEFINE k == CHOOSE i \in 1..Len(q) : q[i] = r /\ \A j \in 1..(i - 1) : q[j] # r
             f == [j \in 1..(Len(q) - 1) |-> q[IF j < k THEN j ELSE j + 1]]
  <2>1. Removed(q, r) = f
    BY <1>2 DEF Removed
  <2>2. Len(q) - 1 \in Nat
    BY <1>2
  <2> HIDE DEF k
  <2>3. \A j \in 1..(Len(q) - 1) : (IF j < k THEN j ELSE j + 1) \in 1..Len(q)
    BY <2>2
  <2>4. \A j \in 1..(Len(q) - 1) : f[j] \in S /\ \E i \in 1..Len(q) : f[j] = q[i]
    BY <2>3
  <2>5. f \in Seq(S) /\ Len(f) = Len(q) - 1
    <3>1. f \in [1..(Len(q) - 1) -> S]
      BY <2>4
    <3> HIDE DEF f
    <3> QED
      BY <3>1, <2>2
  <2> HIDE DEF f
  <2> QED
    BY <2>1, <2>4, <2>5
<1> QED
  BY <1>1, <1>2

\* The sequence has no element twice.
Distinct(q) == \A i, j \in 1..Len(q) : q[i] = q[j] => i = j

\* What is left of a sequence without repetitions has none, and not the element.
LEMMA RemovedDistinct ==
  ASSUME NEW S, NEW q \in Seq(S), NEW r, Distinct(q)
  PROVE  /\ Distinct(Removed(q, r))
         /\ \A i \in 1..Len(Removed(q, r)) : Removed(q, r)[i] # r
<1>1. CASE \A i \in 1..Len(q) : q[i] # r
  BY <1>1 DEF Removed
<1>2. CASE \E i \in 1..Len(q) : q[i] = r
  <2> DEFINE P(i) == i \in 1..Len(q) /\ q[i] = r /\ \A j \in 1..(i - 1) : q[j] # r
             k == CHOOSE i \in 1..Len(q) : q[i] = r /\ \A j \in 1..(i - 1) : q[j] # r
             f == [j \in 1..(Len(q) - 1) |-> q[IF j < k THEN j ELSE j + 1]]
  <2>1. Removed(q, r) = f
    BY <1>2 DEF Removed
  <2>2. Len(q) - 1 \in Nat
    BY <1>2
  <2>3. PICK i \in 1..Len(q) : q[i] = r
    BY <1>2
  <2>4. \A j \in 1..(i - 1) : q[j] # r
    BY <2>3 DEF Distinct
  <2>5. k \in 1..Len(q) /\ q[k] = r
    BY <2>3, <2>4
  <2> HIDE DEF k
  <2>6. f \in [1..(Len(q) - 1) -> S]
    BY <2>5
  <2>7. Len(f) = Len(q) - 1
    <3> HIDE DEF f
    <3> QED
      BY <2>6, <2>2
  <2>8. \A j \in 1..Len(f) : f[j] = q[IF j < k THEN j ELSE j + 1]
    BY <2>7
  <2> HIDE DEF f
  <2>9. \A j \in 1..Len(f) : f[j] # r
    BY <2>5, <2>7, <2>8 DEF Distinct
  <2>10. \A a, b \in 1..Len(f) : f[a] = f[b] => a = b
    BY <2>5, <2>7, <2>8 DEF Distinct
  <2> QED
    BY <2>1, <2>9, <2>10 DEF Distinct
<1> QED
  BY <1>1, <1>2

\* A selected node has a record, and room for the model in some tier.
LEMMA SelectedNode ==
  ASSUME NEW m, NEW out, NEW n, Selects(m, out, n)
  PROVE  /\ n \in Nodes /\ n \notin out /\ record[n] # None
         /\ n \in Candidates(m, out)
         /\ \E t \in 1..4 : FitsTier(n, record[n], m, t)
BY DEF Selects, TierNodes, Candidates

-----------------------------------------------------------------------------
(* Types, and what ties a request's coroutine to its bytes                  *)

\* Where the bytes of a request can be, given where its coroutine is; a request
\* that has run anywhere is never tried again.
RequestPlaced(r) ==
    /\ (pc[r] \in {"sending", "streaming", "retry"} \/ place[r] # "none") => dest[r] \in Nodes
    /\ pc[r] \in {"idle", "asleep", "awake", "retry"} => place[r] = "none" /\ executed[r] = {}
    /\ place[r] \in {"outbound", "waiting", "refused"} => executed[r] = {}
    /\ pc[r] = "streaming" => place[r] \in {"running", "none"}
    /\ executed[r] # {} => \E n \in Nodes : executed[r] = {n}

\* Only a request whose headers have arrived has been seen by a poll.
SeenByPoll(r) == before[r] \/ counted[r] => pc[r] = "streaming"

RequestInv == \A r \in Requests : RequestPlaced(r) /\ SeenByPoll(r)

BasicInv == TypeOK /\ RequestInv

\* One coroutine moves on and the sleepers are woken, nobody else changes.
LEMMA NotifiedExcept ==
  ASSUME pc \in [Requests -> RequestState], NEW r \in Requests,
         NEW v \in RequestState \ {"asleep"}, pc' = Notified([pc EXCEPT ![r] = v])
  PROVE  /\ pc' \in [Requests -> RequestState] /\ pc'[r] = v
         /\ \A q \in Requests \ {r} : pc'[q] = pc[q] \/ (pc[q] = "asleep" /\ pc'[q] = "awake")
         /\ \A q \in Requests : pc'[q] # "asleep"
BY DEF Notified, RequestState

\* The same for a notification alone.
LEMMA NotifiedAll ==
  ASSUME pc \in [Requests -> RequestState], pc' = Notified(pc)
  PROVE  /\ pc' \in [Requests -> RequestState]
         /\ \A q \in Requests : pc'[q] = pc[q] \/ (pc[q] = "asleep" /\ pc'[q] = "awake")
         /\ \A q \in Requests : pc'[q] # "asleep"
BY DEF Notified, RequestState

\* Taking a reservation keeps types and ties.
LEMMA ReserveBasic ==
  ASSUME BasicInv, NEW r \in Requests, NEW n \in Nodes,
         pc[r] \in {"idle", "awake", "retry"},
         record[n] # None, Reserve(r, n),
         pc' \in [Requests -> RequestState], pc'[r] = "sending",
         \A q \in Requests \ {r} : pc'[q] = pc[q] \/ (pc[q] = "asleep" /\ pc'[q] = "awake"),
         excluded' \in [Requests -> SUBSET Nodes], queue' \in [Models -> Seq(Requests)],
         UNCHANGED <<model, registry, executed, inst, resident, local>>
  PROVE  BasicInv'
<1>1. record[n] \in Snapshots
  BY DEF BasicInv, TypeOK
<1>2. record[n].inst \in 0..MaxInstance
  BY <1>1 DEF Snapshots
<1>3. recency' \in Seq(Nodes)
  BY RemovedType DEF BasicInv, TypeOK, Reserve
<1>4. TypeOK'
  BY <1>2, <1>3 DEF BasicInv, TypeOK, Reserve, registry, Place
<1>5. RequestInv'
  <2> SUFFICES ASSUME NEW q \in Requests
               PROVE  RequestPlaced(q)' /\ SeenByPoll(q)'
    BY DEF RequestInv
  <2>1. RequestPlaced(q) /\ SeenByPoll(q) /\ RequestPlaced(r)
    BY DEF BasicInv, RequestInv
  <2>2. CASE q = r
    BY <2>1, <2>2 DEF BasicInv, TypeOK, RequestPlaced, SeenByPoll, Reserve
  <2>3. CASE q # r
    BY <2>1, <2>3 DEF BasicInv, TypeOK, RequestPlaced, SeenByPoll, Reserve
  <2> QED
    BY <2>2, <2>3
<1> QED
  BY <1>4, <1>5 DEF BasicInv

\* So does entering acquire.
LEMMA AcquireBasic ==
  ASSUME BasicInv, NEW r \in Requests, NEW out, pc[r] \in {"idle", "retry"},
         Acquire(r, out), excluded' \in [Requests -> SUBSET Nodes],
         UNCHANGED <<model, registry, executed, inst, resident, local>>
  PROVE  BasicInv'
<1> DEFINE m == model[r]
<1>0. m \in Models /\ queue \in [Models -> Seq(Requests)]
  BY DEF BasicInv, TypeOK
<1>1. CASE \E n \in Nodes : /\ Selects(m, out, n) /\ Reserve(r, n)
                             /\ pc' = [pc EXCEPT ![r] = "sending"]
                             /\ UNCHANGED queue
  <2>1. PICK n \in Nodes : /\ Selects(m, out, n) /\ Reserve(r, n)
                           /\ pc' = [pc EXCEPT ![r] = "sending"]
                           /\ UNCHANGED queue
    BY <1>1
  <2>2. /\ pc' \in [Requests -> RequestState] /\ pc'[r] = "sending"
        /\ \A q \in Requests \ {r} : pc'[q] = pc[q]
        /\ queue' \in [Models -> Seq(Requests)]
    BY <2>1 DEF BasicInv, TypeOK, RequestState
  <2>3. record[n] # None
    BY <2>1, SelectedNode
  <2>4. \A q \in Requests \ {r} : pc'[q] = pc[q] \/ (pc[q] = "asleep" /\ pc'[q] = "awake")
    BY <2>2
  <2> QED
    BY <2>1, <2>2, <2>3, <2>4, ReserveBasic
<1>2. CASE /\ \/ /\ queue' = [queue EXCEPT ![m] = Append(queue[m], r)]
                 /\ pc' = [pc EXCEPT ![r] = "asleep"]
              \/ /\ pc' = [pc EXCEPT ![r] = "done"]
                 /\ UNCHANGED queue
           /\ UNCHANGED <<dest, rinst, before, counted, recency, place>>
  <2>1. queue' \in [Models -> Seq(Requests)]
    <3> HIDE DEF m
    <3>1. queue[m] \in Seq(Requests)
      BY <1>0
    <3>2. Append(queue[m], r) \in Seq(Requests)
      BY <3>1
    <3> QED
      BY <1>0, <1>2, <3>2
  <2>2. pc' \in [Requests -> RequestState] /\ pc'[r] \in {"asleep", "done"}
        /\ \A q \in Requests \ {r} : pc'[q] = pc[q]
    BY <1>2 DEF BasicInv, TypeOK, RequestState
  <2>3. TypeOK'
    BY <1>2, <2>1, <2>2 DEF BasicInv, TypeOK, registry
  <2>4. RequestInv'
    BY <1>2, <2>2 DEF BasicInv, TypeOK, RequestInv, RequestPlaced, SeenByPoll
  <2> QED
    BY <2>3, <2>4 DEF BasicInv
<1> QED
  BY <1>1, <1>2 DEF Acquire, scheduler

\* Every step of a request's coroutine keeps types and ties.
LEMMA RequestBasic ==
  ASSUME BasicInv, NEW r \in Requests, RequestStep(r)
  PROVE  BasicInv'
<1>0. /\ model[r] \in Models /\ excluded \in [Requests -> SUBSET Nodes]
      /\ queue \in [Models -> Seq(Requests)] /\ pc \in [Requests -> RequestState]
  BY DEF BasicInv, TypeOK
<1>1. CASE Arrive(r)
  BY <1>0, <1>1, AcquireBasic DEF Arrive
<1>2. CASE NextAttempt(r)
  <2>1. Exclude(r) \in SUBSET Nodes
    BY <1>0, <1>2 DEF NextAttempt, Exclude, BasicInv, RequestInv, RequestPlaced
  <2>2. excluded' \in [Requests -> SUBSET Nodes]
    BY <1>0, <1>2, <2>1 DEF NextAttempt
  <2>3. CASE Acquire(r, Exclude(r))
    BY <1>2, <2>2, <2>3, AcquireBasic DEF NextAttempt
  <2>4. CASE /\ pc' = [pc EXCEPT ![r] = "done"]
             /\ UNCHANGED <<dest, rinst, before, counted, scheduler, place>>
    <3>1. pc' \in [Requests -> RequestState]
      BY <1>0, <2>4 DEF RequestState
    <3>2. TypeOK'
      BY <1>2, <2>2, <2>4, <3>1 DEF NextAttempt, BasicInv, TypeOK, registry, scheduler
    <3>3. RequestInv'
      BY <1>0, <1>2, <2>4 DEF NextAttempt, BasicInv, RequestInv, RequestPlaced, SeenByPoll
    <3> QED
      BY <3>2, <3>3 DEF BasicInv
  <2> QED
    BY <1>2, <2>3, <2>4 DEF NextAttempt
<1>3. CASE Wake(r)
  <2> DEFINE m == model[r]
  <2>1. CASE \E n \in Nodes :
               /\ queue[m] # <<>> /\ Head(queue[m]) = r /\ Selects(m, excluded[r], n)
               /\ queue' = [queue EXCEPT ![m] = Tail(queue[m])]
               /\ Reserve(r, n)
               /\ pc' = Notified([pc EXCEPT ![r] = "sending"])
    <3>1. PICK n \in Nodes : /\ queue[m] # <<>> /\ Selects(m, excluded[r], n)
                             /\ queue' = [queue EXCEPT ![m] = Tail(queue[m])]
                             /\ Reserve(r, n)
                             /\ pc' = Notified([pc EXCEPT ![r] = "sending"])
      BY <2>1
    <3>2. record[n] # None
      BY <3>1, SelectedNode
    <3>3. queue' \in [Models -> Seq(Requests)]
      <4> HIDE DEF m
      <4>1. m \in Models
        BY <1>0 DEF m
      <4>2. Tail(queue[m]) \in Seq(Requests)
        BY <1>0, <3>1, <4>1
      <4> QED
        BY <1>0, <3>1, <4>1, <4>2
    <3>4. /\ pc' \in [Requests -> RequestState] /\ pc'[r] = "sending"
          /\ \A q \in Requests \ {r} : pc'[q] = pc[q] \/ (pc[q] = "asleep" /\ pc'[q] = "awake")
      BY <1>0, <3>1, NotifiedExcept DEF RequestState
    <3> QED
      BY <1>0, <1>3, <3>1, <3>2, <3>3, <3>4, ReserveBasic DEF Wake
  <2>2. CASE /\ pc' = [pc EXCEPT ![r] = "asleep"]
             /\ UNCHANGED <<queue, dest, rinst, before, counted, recency, place>>
    <3>1. pc' \in [Requests -> RequestState]
      BY <1>0, <2>2 DEF RequestState
    <3>2. TypeOK'
      BY <1>3, <2>2, <3>1 DEF Wake, BasicInv, TypeOK, registry
    <3>3. RequestInv'
      BY <1>0, <1>3, <2>2 DEF Wake, BasicInv, RequestInv, RequestPlaced, SeenByPoll
    <3> QED
      BY <3>2, <3>3 DEF BasicInv
  <2> QED
    BY <1>3, <2>1, <2>2 DEF Wake
<1>4. CASE LeaveQueue(r)
  <2>1. queue' \in [Models -> Seq(Requests)]
    BY <1>0, <1>4, RemovedType DEF LeaveQueue
  <2>2. /\ pc' \in [Requests -> RequestState] /\ pc'[r] = "done"
        /\ \A p \in Requests \ {r} : pc'[p] = pc[p] \/ (pc[p] = "asleep" /\ pc'[p] = "awake")
    BY <1>0, <1>4, NotifiedExcept DEF LeaveQueue, RequestState
  <2>3. TypeOK'
    BY <1>4, <2>1, <2>2 DEF LeaveQueue, BasicInv, TypeOK, registry, node
  <2>4. RequestInv'
    BY <1>4, <2>2, ZenonT(40) DEF LeaveQueue, BasicInv, RequestInv, RequestPlaced, SeenByPoll, node
  <2> QED
    BY <2>3, <2>4 DEF BasicInv
<1>5. ASSUME NEW v \in {"done", "retry"}, Reserved(r),
             pc' = Notified([pc EXCEPT ![r] = v]),
             rinst' = [rinst EXCEPT ![r] = 0],
             before' = [before EXCEPT ![r] = FALSE],
             counted' = [counted EXCEPT ![r] = FALSE],
             \/ v = "done" /\ UNCHANGED place
             \/ place[r] \in {"outbound", "refused"} /\ place' = [place EXCEPT ![r] = "none"],
             UNCHANGED <<model, excluded, dest, scheduler, registry>>,
             UNCHANGED <<executed, inst, resident, local>>
      PROVE  BasicInv'
  <2>1. /\ pc' \in [Requests -> RequestState] /\ pc'[r] = v
        /\ \A p \in Requests \ {r} : pc'[p] = pc[p] \/ (pc[p] = "asleep" /\ pc'[p] = "awake")
    BY <1>0, <1>5, NotifiedExcept DEF RequestState
  <2>2. place' \in [Requests -> Place] /\ \A p \in Requests \ {r} : place'[p] = place[p]
    <3>1. place \in [Requests -> Place]
      BY DEF BasicInv, TypeOK
    <3>2. place' = place \/ place' = [place EXCEPT ![r] = "none"]
      BY <1>5
    <3> QED
      BY <3>1, <3>2 DEF Place
  <2>3. TypeOK'
    <3>1. rinst' \in [Requests -> 0..MaxInstance]
      BY <1>5, FleetAssumption DEF BasicInv, TypeOK
    <3>2. before' \in [Requests -> BOOLEAN] /\ counted' \in [Requests -> BOOLEAN]
      BY <1>5 DEF BasicInv, TypeOK
    <3> QED
      BY <1>5, <2>1, <2>2, <3>1, <3>2 DEF BasicInv, TypeOK, registry, scheduler
  <2>4. RequestInv'
    <3> SUFFICES ASSUME NEW p \in Requests
                 PROVE  RequestPlaced(p)' /\ SeenByPoll(p)'
      BY DEF RequestInv
    <3>1. RequestPlaced(p) /\ SeenByPoll(p)
      BY DEF BasicInv, RequestInv
    <3>2. CASE p # r
      BY <1>5, <2>1, <2>2, <3>1, <3>2, ZenonT(40) DEF BasicInv, TypeOK, RequestPlaced, SeenByPoll
    <3>3. CASE p = r
      <4>1. before'[r] = FALSE /\ counted'[r] = FALSE
        BY <1>5 DEF BasicInv, TypeOK
      <4>2. v = "retry" => place'[r] = "none" /\ executed[r] = {}
        BY <1>5, <3>1, <3>3 DEF BasicInv, TypeOK, RequestPlaced
      <4>3. place'[r] = place[r] \/ place'[r] = "none"
        BY <1>5 DEF BasicInv, TypeOK
      <4> QED
        BY <1>5, <2>1, <3>1, <3>3, <4>1, <4>2, <4>3
           DEF RequestPlaced, SeenByPoll, Reserved
    <3> QED
      BY <3>2, <3>3
  <2> QED
    BY <2>3, <2>4 DEF BasicInv
<1>6. CASE ConnectFails(r)
  BY <1>0, <1>5, <1>6 DEF ConnectFails, EndAttempt, Retries, Reserved
<1>7. CASE BusyArrives(r)
  BY <1>0, <1>5, <1>7 DEF BusyArrives, EndAttempt, Retries, Reserved
<1>8. CASE AttemptLost(r)
  BY <1>0, <1>5, <1>8 DEF AttemptLost, EndAttempt, Retries, node
<1>9. CASE StreamEnds(r)
  BY <1>0, <1>5, <1>9 DEF StreamEnds, EndAttempt, Retries, Reserved, node
<1>10. CASE HeadersArrive(r)
  <2>1. pc' \in [Requests -> RequestState]
    BY <1>0, <1>10 DEF HeadersArrive, RequestState
  <2>2. TypeOK'
    BY <1>10, <2>1 DEF HeadersArrive, BasicInv, TypeOK, registry, scheduler, node
  <2>3. RequestInv'
    BY <1>0, <1>10 DEF HeadersArrive, BasicInv, RequestInv, RequestPlaced, SeenByPoll, node
  <2> QED
    BY <2>2, <2>3 DEF BasicInv
<1> QED
  BY <1>1, <1>2, <1>3, <1>4, <1>6, <1>7, <1>8, <1>9, <1>10 DEF RequestStep, AttemptStep

\* So does every step of a poll.
LEMMA PollBasic ==
  ASSUME BasicInv, NEW n \in Nodes, PollStep(n)
  PROVE  BasicInv'
<1>0. poll[n].stage = "answered" => poll[n] \in Snapshots
  BY DEF BasicInv, TypeOK
<1>1. CASE PollStarts(n)
  <2>1. TypeOK'
    BY <1>1 DEF PollStarts, BasicInv, TypeOK, scheduler, node, AdmittedByNow
  <2>2. RequestInv'
    BY <1>1 DEF PollStarts, BasicInv, TypeOK, RequestInv, RequestPlaced, SeenByPoll, scheduler,
                node, AdmittedByNow
  <2> QED
    BY <2>1, <2>2 DEF BasicInv
<1>2. CASE NodeAnswers(n)
  <2>1. PICK open \in OpenChoices :
          poll' = [poll EXCEPT ![n] =
                     [stage |-> "answered", inst |-> inst[n], open |-> open,
                      resident |-> resident[n], running |-> Running(n),
                      waiting |-> Waiting(n), local |-> local[n]]]
    BY <1>2 DEF NodeAnswers
  <2>2. [stage |-> "answered", inst |-> inst[n], open |-> open,
         resident |-> resident[n], running |-> Running(n),
         waiting |-> Waiting(n), local |-> local[n]] \in Snapshots
    BY FleetAssumption DEF BasicInv, TypeOK, Snapshots, Running, Waiting
  <2>3. poll' \in [Nodes -> [stage : {"idle", "asked"}] \cup Snapshots]
    BY <2>1, <2>2 DEF BasicInv, TypeOK
  <2>4. TypeOK'
    BY <1>2, <2>3 DEF NodeAnswers, BasicInv, TypeOK, request, scheduler, node
  <2>5. RequestInv'
    BY <1>2 DEF NodeAnswers, BasicInv, RequestInv, RequestPlaced, SeenByPoll, request, node
  <2> QED
    BY <2>4, <2>5 DEF BasicInv
<1>3. CASE PollSucceeds(n)
  <2>1. /\ pc' \in [Requests -> RequestState]
        /\ \A q \in Requests : pc'[q] = pc[q] \/ (pc[q] = "asleep" /\ pc'[q] = "awake")
    BY <1>3, NotifiedAll DEF PollSucceeds, BasicInv, TypeOK
  <2>2. record' \in [Nodes -> Snapshots \cup {None}]
    BY <1>0, <1>3 DEF PollSucceeds, BasicInv, TypeOK
  <2>3. TypeOK'
    BY <1>3, <2>1, <2>2 DEF PollSucceeds, BasicInv, TypeOK, scheduler, node
  <2>4. RequestInv'
    BY <1>3, <2>1 DEF PollSucceeds, BasicInv, TypeOK, RequestInv, RequestPlaced, SeenByPoll,
                      scheduler, node
  <2> QED
    BY <2>3, <2>4 DEF BasicInv
<1>4. CASE PollFails(n)
  <2>1. /\ pc' \in [Requests -> RequestState]
        /\ \A q \in Requests : pc'[q] = pc[q] \/ (pc[q] = "asleep" /\ pc'[q] = "awake")
    BY <1>4, NotifiedAll DEF PollFails, BasicInv, TypeOK
  <2>2. TypeOK'
    BY <1>4, <2>1 DEF PollFails, BasicInv, TypeOK, scheduler, node
  <2>3. RequestInv'
    BY <1>4, <2>1 DEF PollFails, BasicInv, TypeOK, RequestInv, RequestPlaced, SeenByPoll,
                      scheduler, node
  <2> QED
    BY <2>2, <2>3 DEF BasicInv
<1>5. CASE RecordExpires(n)
  BY <1>5 DEF RecordExpires, BasicInv, TypeOK, RequestInv, RequestPlaced, SeenByPoll, request,
              scheduler, node
<1> QED
  BY <1>1, <1>2, <1>3, <1>4, <1>5 DEF PollStep

\* And every step of a node.
LEMMA NodeBasic ==
  ASSUME BasicInv, NodeStep
  PROVE  BasicInv'
<1>1. ASSUME NEW r \in Requests, NodeReceives(r)
      PROVE  BasicInv'
  <2>1. dest[r] \in Nodes
    BY <1>1 DEF NodeReceives, BasicInv, RequestInv, RequestPlaced
  <2>2. /\ place' \in [Requests -> Place]
        /\ place'[r] \in {"running", "waiting", "refused"}
        /\ \A q \in Requests \ {r} : place'[q] = place[q] /\ executed'[q] = executed[q]
        /\ executed' \in [Requests -> SUBSET Nodes]
        /\ executed'[r] = IF place'[r] = "running" THEN executed[r] \cup {dest[r]}
                          ELSE executed[r]
    <3>1. place \in [Requests -> Place] /\ executed \in [Requests -> SUBSET Nodes]
      BY DEF BasicInv, TypeOK
    <3>2. \/ /\ place' = [place EXCEPT ![r] = "running"]
             /\ executed' = [executed EXCEPT ![r] = @ \cup {dest[r]}]
          \/ /\ place' = [place EXCEPT ![r] = "waiting"] \/ place' = [place EXCEPT ![r] = "refused"]
             /\ executed' = executed
      BY <1>1 DEF NodeReceives
    <3> QED
      BY <2>1, <3>1, <3>2, SMTT(30) DEF Place
  <2>3. UNCHANGED <<pc, model, excluded, dest, rinst, before, counted, queue, recency, poll,
                    record, live, inst, resident, local>>
    BY <1>1 DEF NodeReceives, request, scheduler, registry
  <2>4. TypeOK'
    BY <2>2, <2>3 DEF BasicInv, TypeOK
  <2>5. executed[r] = {} /\ pc[r] \notin {"idle", "asleep", "awake", "retry", "streaming"}
    BY <1>1 DEF NodeReceives, BasicInv, TypeOK, RequestInv, RequestPlaced
  <2>6. RequestInv'
    BY <2>1, <2>2, <2>3, <2>5 DEF BasicInv, RequestInv, RequestPlaced, SeenByPoll
  <2> QED
    BY <2>4, <2>6 DEF BasicInv
<1>2. ASSUME NEW r \in Requests, NodeGrants(r)
      PROVE  BasicInv'
  <2>1. dest[r] \in Nodes
    BY <1>2 DEF NodeGrants, BasicInv, RequestInv, RequestPlaced
  <2>2. TypeOK'
    BY <1>2, <2>1 DEF NodeGrants, BasicInv, TypeOK, Place, request, scheduler, registry
  <2>3. RequestInv'
    BY <1>2, <2>1 DEF NodeGrants, BasicInv, TypeOK, RequestInv, RequestPlaced, SeenByPoll,
                      request
  <2> QED
    BY <2>2, <2>3 DEF BasicInv
<1>3. ASSUME NEW r \in Requests, NodeFinishes(r)
      PROVE  BasicInv'
  <2>1. TypeOK'
    BY <1>3 DEF NodeFinishes, BasicInv, TypeOK, Place, request, scheduler, registry
  <2>2. RequestInv'
    BY <1>3 DEF NodeFinishes, BasicInv, TypeOK, RequestInv, RequestPlaced, SeenByPoll, request
  <2> QED
    BY <2>1, <2>2 DEF BasicInv
<1>4. ASSUME NEW n \in Nodes, LocalTraffic(n)
      PROVE  BasicInv'
  <2>1. local' \in [Nodes -> Nat]
    <3>1. local \in [Nodes -> Nat]
      BY DEF BasicInv, TypeOK
    <3>2. \/ local' = [local EXCEPT ![n] = @ + 1]
          \/ local[n] > 0 /\ local' = [local EXCEPT ![n] = @ - 1]
      BY <1>4 DEF LocalTraffic
    <3> QED
      BY <3>1, <3>2
  <2>2. TypeOK'
    BY <1>4, <2>1 DEF LocalTraffic, BasicInv, TypeOK, request, scheduler, registry
  <2>3. RequestInv'
    BY <1>4 DEF LocalTraffic, BasicInv, RequestInv, RequestPlaced, SeenByPoll, request
  <2> QED
    BY <2>2, <2>3 DEF BasicInv
<1>5. ASSUME NEW n \in Nodes, NodeRestarts(n)
      PROVE  BasicInv'
  <2>1. inst' \in [Nodes -> 1..MaxInstance]
    BY <1>5, FleetAssumption DEF NodeRestarts, BasicInv, TypeOK
  <2>2. place' \in [Requests -> Place]
    BY <1>5 DEF NodeRestarts, BasicInv, TypeOK, Place
  <2>3. TypeOK'
    BY <1>5, <2>1, <2>2 DEF NodeRestarts, BasicInv, TypeOK, request, scheduler, registry
  <2>4. RequestInv'
    BY <1>5 DEF NodeRestarts, BasicInv, TypeOK, RequestInv, RequestPlaced, SeenByPoll, request
  <2> QED
    BY <2>3, <2>4 DEF BasicInv
<1> QED
  BY <1>1, <1>2, <1>3, <1>4, <1>5 DEF NodeStep

\* Types and ties hold initially and are kept by every step.
LEMMA BasicHolds == Spec => []BasicInv
<1>1. Init => BasicInv
  BY FleetAssumption DEF Init, BasicInv, TypeOK, RequestInv, RequestPlaced, SeenByPoll,
                         RequestState, Place
<1>2. BasicInv /\ [Next]_vars => BasicInv'
  <2> SUFFICES ASSUME BasicInv, [Next]_vars
               PROVE  BasicInv'
    OBVIOUS
  <2>1. CASE UNCHANGED vars
    BY <2>1 DEF BasicInv, TypeOK, RequestInv, RequestPlaced, SeenByPoll, vars
  <2> QED
    BY <2>1, RequestBasic, PollBasic, NodeBasic DEF Next
<1> QED
  BY <1>1, <1>2, PTL DEF Spec

\* Every variable of the gateway and of its nodes keeps its type.
THEOREM DispatchTypeCorrect == Spec => []TypeOK
<1>1. BasicInv => TypeOK
  BY DEF BasicInv
<1> QED
  BY <1>1, BasicHolds, PTL

\* Failover never runs a request twice, whatever its attempts run into: ties forbid
\* a second attempt once the request has had a permit.
THEOREM ExecutedOnce == Spec => []AtMostOneExecution
<1>1. BasicInv => AtMostOneExecution
  <2> SUFFICES ASSUME BasicInv, NEW r \in Requests
               PROVE  Cardinality(executed[r]) <= 1
    BY DEF AtMostOneExecution
  <2>1. executed[r] = {} \/ \E n \in Nodes : executed[r] = {n}
    BY DEF BasicInv, RequestInv, RequestPlaced
  <2>2. CASE executed[r] = {}
    BY <2>2, FS_EmptySet
  <2>3. CASE \E n \in Nodes : executed[r] = {n}
    <3>1. PICK n \in Nodes : executed[r] = {n}
      BY <2>3
    <3>2. Cardinality({n}) = 1
      BY FS_Singleton
    <3> QED
      BY <3>1, <3>2
  <2> QED
    BY <2>1, <2>2, <2>3
<1> QED
  BY <1>1, BasicHolds, PTL

-----------------------------------------------------------------------------
(* FIFO admission                                                           *)

\* Only a request that finds its model's queue empty, or is its head, obtains a
\* reservation.
LEMMA ReservesInTurn ==
  ASSUME BasicInv, Next, NEW r \in Requests, ~Reserved(r), Reserved(r)'
  PROVE  queue[model[r]] = <<>> \/ (queue[model[r]] # <<>> /\ Head(queue[model[r]]) = r)
<1>0. pc \in [Requests -> RequestState] /\ pc[r] \notin {"sending", "streaming"}
  BY DEF BasicInv, TypeOK, Reserved
<1>1. ASSUME NEW q \in Requests, NEW v \in RequestState \ {"asleep"},
             q = r => v \notin {"sending", "streaming"},
             pc' = Notified([pc EXCEPT ![q] = v])
      PROVE  FALSE
  BY <1>0, <1>1, NotifiedExcept DEF Reserved
<1>2. ASSUME NEW q \in Requests, RequestStep(q)
      PROVE  queue[model[r]] = <<>> \/ (queue[model[r]] # <<>> /\ Head(queue[model[r]]) = r)
  <2>1. CASE Arrive(q)
    BY <1>0, <2>1 DEF Arrive, Acquire, MayBypass, Reserved
  <2>2. CASE NextAttempt(q)
    BY <1>0, <2>2 DEF NextAttempt, Acquire, MayBypass, Reserved
  <2>3. CASE Wake(q)
    <3>1. CASE q = r
      BY <1>0, <2>3, <3>1 DEF Wake, Reserved
    <3>2. CASE q # r
      <4>1. CASE pc' = Notified([pc EXCEPT ![q] = "sending"])
        BY <1>1, <3>2, <4>1 DEF RequestState
      <4>2. CASE pc' = [pc EXCEPT ![q] = "asleep"]
        BY <1>0, <3>2, <4>2 DEF Reserved
      <4> QED
        BY <2>3, <4>1, <4>2 DEF Wake
    <3> QED
      BY <3>1, <3>2
  <2>4. CASE LeaveQueue(q)
    BY <1>1, <2>4 DEF LeaveQueue, RequestState
  <2>5. CASE ConnectFails(q) \/ BusyArrives(q) \/ AttemptLost(q) \/ StreamEnds(q)
    BY <1>1, <2>5 DEF ConnectFails, BusyArrives, AttemptLost, StreamEnds, EndAttempt,
                      RequestState
  <2>6. CASE HeadersArrive(q)
    BY <1>0, <2>6 DEF HeadersArrive, Reserved
  <2> QED
    BY <1>2, <2>1, <2>2, <2>3, <2>4, <2>5, <2>6 DEF RequestStep, AttemptStep
<1>3. ASSUME NEW n \in Nodes, PollStep(n)
      PROVE  FALSE
  <2>1. CASE pc' = Notified(pc)
    BY <1>0, <2>1, NotifiedAll DEF Reserved
  <2>2. CASE pc' = pc
    BY <1>0, <2>2 DEF Reserved
  <2> QED
    BY <1>3, <2>1, <2>2 DEF PollStep, PollStarts, NodeAnswers, PollSucceeds, PollFails,
                            RecordExpires, request
<1>4. CASE NodeStep
  BY <1>0, <1>4 DEF NodeStep, NodeReceives, NodeGrants, NodeFinishes, LocalTraffic, NodeRestarts,
                    request, Reserved
<1> QED
  BY <1>2, <1>3, <1>4 DEF Next

\* Requests for one model are admitted in the order in which they queued.
THEOREM FifoPerModel == Spec => NoOvertaking
<1> DEFINE InTurn(r) == (Reserved(r)' /\ ~Reserved(r)) =>
              \A i \in 1..Len(queue[model[r]]) :
                 (\A j \in 1..i : queue[model[r]][j] # r)
                   => pc'[queue[model[r]][i]] \notin {"asleep", "awake"}
<1>1. ASSUME BasicInv, Next, NEW r \in Requests
      PROVE  InTurn(r)
  <2> SUFFICES ASSUME Reserved(r)', ~Reserved(r), NEW i \in 1..Len(queue[model[r]]),
                      \A j \in 1..i : queue[model[r]][j] # r
               PROVE  FALSE
    OBVIOUS
  <2>1. queue[model[r]] \in Seq(Requests)
    BY <1>1 DEF BasicInv, TypeOK
  <2>2. queue[model[r]] = <<>> \/ queue[model[r]][1] = r
    BY <1>1, <2>1, ReservesInTurn
  <2> QED
    BY <2>1, <2>2
<1>2. BasicInv /\ [Next]_vars => [\A r \in Requests : InTurn(r)]_vars
  BY <1>1
<1> QED
  BY <1>2, BasicHolds, PTL DEF Spec, NoOvertaking

-----------------------------------------------------------------------------
(* No lost wake-up                                                          *)

\* The node can take the model in some tier: there is queue room, or the model is
\* resident and has a permit left.
Placeable(n, m) ==
    /\ record[n] # None /\ live[n] /\ record[n].open /\ m \in Serves[n]
    /\ LET ours == Cardinality(Unaccounted(n, record[n])) IN
       \/ Cardinality(record[n].waiting) + ours < QueueLimit[n]
       \/ record[n].resident = m /\ ours < Available(n, record[n])

\* _select has a candidate in some tier exactly where a node can take the request.
LEMMA CandidatesPlaceable ==
  ASSUME TypeOK, NEW m \in Models, NEW out
  PROVE  Candidates(m, out) = {n \in Nodes \ out : Placeable(n, m)}
<1>1. ASSUME NEW n \in Nodes \ out, NEW t \in 1..4, n \in TierNodes(m, out, t)
      PROVE  Placeable(n, m)
  BY <1>1 DEF TierNodes, FitsTier, Placeable
<1>2. ASSUME NEW n \in Nodes \ out, Placeable(n, m)
      PROVE  \E t \in 1..4 : n \in TierNodes(m, out, t)
  <2> DEFINE ours == Cardinality(Unaccounted(n, record[n]))
             room == Cardinality(record[n].waiting) + ours < QueueLimit[n]
             permit == record[n].resident = m /\ ours < Available(n, record[n])
  <2>1. \A t \in 1..4 : FitsTier(n, record[n], m, t) => n \in TierNodes(m, out, t)
    BY <1>2 DEF Placeable, TierNodes
  <2>2. /\ permit => FitsTier(n, record[n], m, 1)
        /\ ~permit /\ record[n].resident = m /\ room => FitsTier(n, record[n], m, 2)
        /\ record[n].resident = None /\ room => FitsTier(n, record[n], m, 3)
        /\ record[n].resident \notin {m, None} /\ room => FitsTier(n, record[n], m, 4)
    BY DEF FitsTier
  <2>3. permit \/ room
    BY <1>2 DEF Placeable
  <2> HIDE DEF permit, room
  <2> QED
    BY <2>1, <2>2, <2>3
<1> QED
  BY <1>1, <1>2 DEF Candidates, TierNodes

\* More reservations never make a node placeable.
LEMMA PlaceableShrinks ==
  ASSUME TypeOK, TypeOK', NEW n \in Nodes, NEW m, UNCHANGED record, live'[n] => live[n],
         record[n] # None => Unaccounted(n, record[n]) \subseteq Unaccounted(n, record[n])',
         Placeable(n, m)'
  PROVE  Placeable(n, m)
<1> DEFINE old == Unaccounted(n, record[n])
           new == Unaccounted(n, record[n])'
<1>1. record[n] # None /\ record[n] \in Snapshots
  BY DEF Placeable, TypeOK
<1>2. IsFiniteSet(new) /\ old \subseteq new
  BY <1>1, FS_Subset, FleetAssumption DEF Unaccounted
<1>3. Cardinality(old) \in Nat /\ Cardinality(new) \in Nat /\ Cardinality(old) <= Cardinality(new)
  BY <1>2, FS_Subset, FS_CardinalityType
<1>4. IsFiniteSet(record[n].waiting) /\ IsFiniteSet(record[n].running)
  BY <1>1, FS_Subset, FleetAssumption DEF Snapshots
<1>5. Cardinality(record[n].waiting) \in Nat /\ Cardinality(record[n].running) \in Nat
  BY <1>4, FS_CardinalityType
<1>6. /\ QueueLimit[n] \in Nat /\ Slots[n] \in Nat /\ record[n].local \in Nat
      /\ Available(n, record[n]) \in Nat
  BY <1>1, <1>5, FleetAssumption DEF Snapshots, Available
<1>7. Available(n, record[n])' = Available(n, record[n])
  BY DEF Available
<1>8. Cardinality(Unaccounted(n, record[n]))' = Cardinality(new)
  OBVIOUS
<1> HIDE DEF old, new
<1> QED
  BY <1>3, <1>5, <1>6, <1>7, <1>8 DEF Placeable, old

\* A queue holds the waiters of its model, each once.
QueueInv ==
    \A m \in Models :
      /\ Distinct(queue[m])
      /\ \A i \in 1..Len(queue[m]) : /\ model[queue[m][i]] = m
                                     /\ pc[queue[m][i]] \in {"asleep", "awake"}

\* A new request rules no node out.
FreshInv == \A r \in Requests : pc[r] = "idle" => excluded[r] = {}

\* NoLostWakeup, node by node.
HeadInv ==
    \A m \in Models : (queue[m] # <<>> /\ pc[Head(queue[m])] = "asleep")
      => \A n \in Nodes \ excluded[Head(queue[m])] : ~Placeable(n, m)

WakeInv == QueueInv /\ FreshInv /\ HeadInv

\* Whoever notifies leaves no sleeper behind.
LEMMA NotifyWakes ==
  ASSUME BasicInv', \A q \in Requests : pc'[q] # "asleep"
  PROVE  HeadInv'
<1> SUFFICES ASSUME NEW m \in Models, queue'[m] # <<>>
             PROVE  pc'[Head(queue'[m])] # "asleep"
  BY DEF HeadInv
<1>1. queue'[m] \in Seq(Requests)
  BY DEF BasicInv, TypeOK
<1>2. Head(queue'[m]) \in Requests
  BY <1>1
<1> QED
  BY <1>2

\* Steps that move no waiter and end no reservation keep the invariant.
LEMMA QuietKeepsWake ==
  ASSUME BasicInv, BasicInv', WakeInv, UNCHANGED <<queue, model, record>>,
         \A q \in Requests : /\ pc[q] \in {"asleep", "awake"} => pc'[q] = pc[q]
                             /\ pc[q] \in {"asleep", "awake"} => excluded'[q] = excluded[q]
                             /\ pc'[q] = "idle" => pc[q] = "idle" /\ excluded'[q] = excluded[q],
         \A n \in Nodes : /\ live'[n] => live[n]
                          /\ record[n] # None =>
                               Unaccounted(n, record[n]) \subseteq Unaccounted(n, record[n])'
  PROVE  WakeInv'
<1>0. queue \in [Models -> Seq(Requests)] /\ queue' = queue
  BY DEF BasicInv, TypeOK
<1>1. ASSUME NEW m \in Models, NEW i \in 1..Len(queue[m])
      PROVE  queue[m][i] \in Requests /\ pc[queue[m][i]] \in {"asleep", "awake"}
  BY <1>0 DEF WakeInv, QueueInv
<1>2. QueueInv'
  BY <1>0, <1>1 DEF WakeInv, QueueInv, Distinct
<1>3. FreshInv'
  BY DEF WakeInv, FreshInv
<1>4. HeadInv'
  <2> SUFFICES ASSUME NEW m \in Models, queue[m] # <<>>, pc'[Head(queue[m])] = "asleep",
                      NEW n \in Nodes \ excluded'[Head(queue[m])], Placeable(n, m)'
               PROVE  FALSE
    BY <1>0 DEF HeadInv
  <2>1. Head(queue[m]) \in Requests /\ pc[Head(queue[m])] \in {"asleep", "awake"}
    BY <1>0, <1>1
  <2>2. Placeable(n, m)
    BY PlaceableShrinks DEF BasicInv
  <2> QED
    BY <2>1, <2>2 DEF WakeInv, HeadInv
<1> QED
  BY <1>2, <1>3, <1>4 DEF WakeInv

\* A request that was not reserved leaves the unaccounted ones of every node alone,
\* whatever it becomes.
LEMMA UnaccountedGrows ==
  ASSUME BasicInv, NEW r \in Requests, ~Reserved(r), UNCHANGED record,
         \A q \in Requests \ {r} : /\ dest'[q] = dest[q] /\ rinst'[q] = rinst[q]
                                   /\ counted'[q] = counted[q]
                                   /\ Reserved(q) => Reserved(q)',
         NEW n \in Nodes
  PROVE  Unaccounted(n, record[n]) \subseteq Unaccounted(n, record[n])'
BY DEF Unaccounted

\* Entering acquire keeps the invariant.
LEMMA AcquireWake ==
  ASSUME BasicInv, BasicInv', WakeInv, NEW r \in Requests, NEW out,
         pc[r] \in {"idle", "retry"}, Acquire(r, out),
         excluded'[r] = out, \A q \in Requests \ {r} : excluded'[q] = excluded[q],
         UNCHANGED <<model, registry, executed, inst, resident, local>>
  PROVE  WakeInv'
<1>0. /\ pc \in [Requests -> RequestState] /\ queue \in [Models -> Seq(Requests)]
      /\ model[r] \in Models /\ excluded \in [Requests -> SUBSET Nodes]
      /\ dest \in [Requests -> Nodes \cup {None}] /\ counted \in [Requests -> BOOLEAN]
      /\ rinst \in [Requests -> 0..MaxInstance]
      /\ ~Reserved(r) /\ UNCHANGED <<model, record, live>>
  BY DEF BasicInv, TypeOK, Reserved, registry
<1>1. PICK v \in {"sending", "asleep", "done"} : pc' = [pc EXCEPT ![r] = v]
  BY DEF Acquire
<1>2. \A n \in Nodes : Unaccounted(n, record[n]) \subseteq Unaccounted(n, record[n])'
  <2>1. \A q \in Requests \ {r} : /\ dest'[q] = dest[q] /\ rinst'[q] = rinst[q]
                                  /\ counted'[q] = counted[q]
    BY <1>0 DEF Acquire, Reserve
  <2>2. \A q \in Requests \ {r} : Reserved(q) => Reserved(q)'
    BY <1>0, <1>1 DEF Reserved
  <2> QED
    BY <1>0, <2>1, <2>2, UnaccountedGrows
<1>3. CASE UNCHANGED queue
  BY <1>0, <1>1, <1>2, <1>3, QuietKeepsWake
<1>4. CASE /\ queue[model[r]] # <<>> \/ Candidates(model[r], out) = {}
           /\ queue' = [queue EXCEPT ![model[r]] = Append(queue[model[r]], r)]
           /\ pc' = [pc EXCEPT ![r] = "asleep"]
  <2>1. PICK k \in Models : k = model[r]
    BY <1>0
  <2>2. /\ queue'[k] = Append(queue[k], r) /\ queue[k] \in Seq(Requests)
        /\ Len(queue'[k]) = Len(queue[k]) + 1 /\ queue'[k][Len(queue[k]) + 1] = r
        /\ \A i \in 1..Len(queue[k]) : queue'[k][i] = queue[k][i]
        /\ \A m \in Models \ {k} : queue'[m] = queue[m]
    BY <1>0, <1>4, <2>1
  <2>3. \A m \in Models : \A i \in 1..Len(queue[m]) :
          /\ queue[m][i] \in Requests /\ queue[m][i] # r
          /\ model[queue[m][i]] = m /\ pc[queue[m][i]] \in {"asleep", "awake"}
    BY <1>0 DEF WakeInv, QueueInv
  <2>4. QueueInv'
    <3> SUFFICES ASSUME NEW m \in Models
                 PROVE  /\ Distinct(queue'[m])
                        /\ \A i \in 1..Len(queue'[m]) : /\ model[queue'[m][i]] = m
                                                        /\ pc'[queue'[m][i]] \in {"asleep", "awake"}
      BY <1>0 DEF QueueInv, Distinct
    <3>1. Distinct(queue[m])
      BY DEF WakeInv, QueueInv
    <3>2. CASE m = k
      BY <1>0, <1>4, <2>1, <2>2, <2>3, <3>1, <3>2, SMTT(30) DEF Distinct
    <3>3. CASE m # k
      BY <1>0, <1>4, <2>2, <2>3, <3>1, <3>3, SMTT(30) DEF Distinct
    <3> QED
      BY <3>2, <3>3
  <2>5. FreshInv'
    BY <1>0, <1>4 DEF WakeInv, FreshInv
  <2>6. HeadInv'
    <3> SUFFICES ASSUME NEW m \in Models, queue'[m] # <<>>, pc'[Head(queue'[m])] = "asleep",
                        NEW n \in Nodes \ excluded'[Head(queue'[m])], Placeable(n, m)'
                 PROVE  FALSE
      BY DEF HeadInv
    <3>1. Placeable(n, m)
      BY <1>0, <1>2, PlaceableShrinks DEF BasicInv
    <3>2. CASE queue[m] # <<>>
      <4>1. Head(queue'[m]) = Head(queue[m]) /\ Head(queue[m]) \in Requests \ {r}
        <5>1. queue[m] \in Seq(Requests) /\ Len(queue[m]) > 0 /\ Head(queue[m]) = queue[m][1]
          BY <1>0, <3>2
        <5>2. queue'[m] \in Seq(Requests) /\ Head(queue'[m]) = queue'[m][1]
          BY <1>0, <1>4, <2>2, <5>1 DEF BasicInv, TypeOK
        <5>3. queue'[m][1] = queue[m][1]
          BY <2>2, <5>1
        <5> QED
          BY <2>3, <5>1, <5>2, <5>3
      <4> QED
        BY <1>0, <1>4, <3>1, <3>2, <4>1 DEF WakeInv, HeadInv
    <3>3. CASE queue[m] = <<>>
      <4>1. m = k
        BY <2>2, <3>3
      <4>3. Head(queue'[m]) = r
        BY <2>2, <3>3, <4>1
      <4>2. Candidates(m, out) = {}
        BY <1>4, <2>1, <3>3, <4>1
      <4> QED
        <5>1. n \in Nodes \ out
          BY <1>0, <4>3
        <5>2. Candidates(m, out) = {x \in Nodes \ out : Placeable(x, m)}
          BY CandidatesPlaceable DEF BasicInv
        <5> QED
          BY <3>1, <4>2, <5>1, <5>2
    <3> QED
      BY <3>2, <3>3
  <2> QED
    BY <2>4, <2>5, <2>6 DEF WakeInv
<1> QED
  BY <1>3, <1>4 DEF Acquire, scheduler

\* Every step of a request's coroutine keeps it.
LEMMA RequestWake ==
  ASSUME BasicInv, BasicInv', WakeInv, NEW r \in Requests, RequestStep(r)
  PROVE  WakeInv'
<1>0. /\ pc \in [Requests -> RequestState] /\ queue \in [Models -> Seq(Requests)]
      /\ model[r] \in Models /\ excluded \in [Requests -> SUBSET Nodes]
  BY DEF BasicInv, TypeOK
<1>1. CASE Arrive(r)
  <2>1. excluded'[r] = {} /\ \A q \in Requests \ {r} : excluded'[q] = excluded[q]
    BY <1>0, <1>1 DEF Arrive, WakeInv, FreshInv
  <2>2. /\ pc[r] \in {"idle", "retry"} /\ Acquire(r, {})
        /\ UNCHANGED <<model, registry, executed, inst, resident, local>>
    BY <1>1 DEF Arrive
  <2> QED
    BY <2>1, <2>2, AcquireWake
<1>2. CASE NextAttempt(r)
  <2>1. CASE Acquire(r, Exclude(r))
    <3>1. PICK out : out = Exclude(r)
      OBVIOUS
    <3>2. /\ pc[r] \in {"idle", "retry"} /\ Acquire(r, out)
          /\ excluded'[r] = out /\ \A q \in Requests \ {r} : excluded'[q] = excluded[q]
          /\ UNCHANGED <<model, registry, executed, inst, resident, local>>
      BY <1>0, <1>2, <2>1, <3>1 DEF NextAttempt
    <3> QED
      BY <3>2, AcquireWake
  <2>2. CASE /\ pc' = [pc EXCEPT ![r] = "done"]
             /\ UNCHANGED <<dest, rinst, before, counted, scheduler, place>>
    <3>1. UNCHANGED <<queue, model, record, live, dest, rinst, counted>>
      BY <1>2, <2>2 DEF NextAttempt, scheduler, registry
    <3>2. \A n \in Nodes : Unaccounted(n, record[n]) \subseteq Unaccounted(n, record[n])'
      BY <1>0, <1>2, <2>2, <3>1 DEF NextAttempt, Unaccounted, Reserved
    <3> QED
      BY <1>0, <1>2, <2>2, <3>1, <3>2, QuietKeepsWake DEF NextAttempt
  <2> QED
    BY <1>2, <2>1, <2>2 DEF NextAttempt
<1>3. CASE HeadersArrive(r)
  <2>1. UNCHANGED <<queue, model, record, live, dest, rinst, counted, excluded>>
    BY <1>3 DEF HeadersArrive, scheduler, registry
  <2>2. \A n \in Nodes : Unaccounted(n, record[n]) \subseteq Unaccounted(n, record[n])'
    BY <1>0, <1>3, <2>1 DEF HeadersArrive, Unaccounted, Reserved
  <2> QED
    BY <1>0, <1>3, <2>1, <2>2, QuietKeepsWake DEF HeadersArrive
\* Steps that notify: only the queue of the request's own model can change.
<1>4. ASSUME NEW v \in RequestState \ {"asleep", "awake", "idle"},
             pc' = Notified([pc EXCEPT ![r] = v]),
             UNCHANGED <<model, excluded>>,
             \A m \in Models : /\ Distinct(queue'[m])
                               /\ \A i \in 1..Len(queue'[m]) :
                                    /\ queue'[m][i] # r
                                    /\ \E j \in 1..Len(queue[m]) : queue'[m][i] = queue[m][j]
      PROVE  WakeInv'
  <2>1. /\ pc' \in [Requests -> RequestState] /\ pc'[r] = v
        /\ \A q \in Requests \ {r} : pc'[q] = pc[q] \/ (pc[q] = "asleep" /\ pc'[q] = "awake")
        /\ \A q \in Requests : pc'[q] # "asleep"
    BY <1>0, <1>4, NotifiedExcept
  <2>2. HeadInv'
    BY <2>1, NotifyWakes
  <2>3. FreshInv'
    BY <1>4, <2>1 DEF WakeInv, FreshInv
  <2>4. QueueInv'
    <3> SUFFICES ASSUME NEW m \in Models, NEW i \in 1..Len(queue'[m])
                 PROVE  model[queue'[m][i]] = m /\ pc'[queue'[m][i]] \in {"asleep", "awake"}
      BY <1>4 DEF QueueInv, Distinct
    <3>1. PICK j \in 1..Len(queue[m]) : queue'[m][i] = queue[m][j]
      BY <1>4
    <3>2. queue[m][j] \in Requests /\ queue[m][j] # r
      BY <1>0, <1>4, <3>1
    <3>3. model[queue[m][j]] = m /\ pc[queue[m][j]] \in {"asleep", "awake"}
      BY DEF WakeInv, QueueInv
    <3> QED
      BY <2>1, <3>1, <3>2, <3>3
  <2> QED
    BY <2>2, <2>3, <2>4 DEF WakeInv
<1>5. CASE LeaveQueue(r)
  <2>1. \A m \in Models : /\ Distinct(queue'[m])
                          /\ \A i \in 1..Len(queue'[m]) :
                               /\ queue'[m][i] # r
                               /\ \E j \in 1..Len(queue[m]) : queue'[m][i] = queue[m][j]
    <3> SUFFICES ASSUME NEW m \in Models
                 PROVE  /\ Distinct(queue'[m])
                        /\ \A i \in 1..Len(queue'[m]) :
                             /\ queue'[m][i] # r
                             /\ \E j \in 1..Len(queue[m]) : queue'[m][i] = queue[m][j]
      OBVIOUS
    <3>1. queue[m] \in Seq(Requests) /\ Distinct(queue[m])
          /\ \A i \in 1..Len(queue[m]) : model[queue[m][i]] = m
      BY <1>0 DEF WakeInv, QueueInv
    <3>2. CASE m = model[r]
      <4>1. queue'[m] = Removed(queue[m], r)
        BY <1>0, <1>5, <3>2 DEF LeaveQueue
      <4> QED
        BY <3>1, <4>1, RemovedType, RemovedDistinct
    <3>3. CASE m # model[r]
      BY <1>0, <1>5, <3>1, <3>3 DEF LeaveQueue
    <3> QED
      BY <3>2, <3>3
  <2> QED
    BY <1>4, <1>5, <2>1 DEF LeaveQueue, RequestState
<1>6. CASE ConnectFails(r) \/ BusyArrives(r) \/ AttemptLost(r) \/ StreamEnds(r)
  <2>1. PICK v \in {"retry", "done"} : pc' = Notified([pc EXCEPT ![r] = v])
    BY <1>6 DEF ConnectFails, BusyArrives, AttemptLost, StreamEnds, EndAttempt
  <2>2. UNCHANGED <<model, excluded, queue>> /\ Reserved(r)
    BY <1>6 DEF ConnectFails, BusyArrives, AttemptLost, StreamEnds, EndAttempt, scheduler, Reserved
  <2>3. \A m \in Models : /\ Distinct(queue'[m])
                          /\ \A i \in 1..Len(queue'[m]) :
                               /\ queue'[m][i] # r
                               /\ \E j \in 1..Len(queue[m]) : queue'[m][i] = queue[m][j]
    BY <2>2 DEF WakeInv, QueueInv, Reserved
  <2> QED
    BY <1>4, <2>1, <2>2, <2>3 DEF RequestState
<1>7. CASE Wake(r)
  <2> DEFINE k == model[r]
  <2>1. CASE \E n \in Nodes :
               /\ queue[k] # <<>> /\ Head(queue[k]) = r /\ Selects(k, excluded[r], n)
               /\ queue' = [queue EXCEPT ![k] = Tail(queue[k])]
               /\ Reserve(r, n)
               /\ pc' = Notified([pc EXCEPT ![r] = "sending"])
    <3>1. \A m \in Models : /\ Distinct(queue'[m])
                            /\ \A i \in 1..Len(queue'[m]) :
                                 /\ queue'[m][i] # r
                                 /\ \E j \in 1..Len(queue[m]) : queue'[m][i] = queue[m][j]
      <4> SUFFICES ASSUME NEW m \in Models
                   PROVE  /\ Distinct(queue'[m])
                          /\ \A i \in 1..Len(queue'[m]) :
                               /\ queue'[m][i] # r
                               /\ \E j \in 1..Len(queue[m]) : queue'[m][i] = queue[m][j]
        OBVIOUS
      <4>1. queue[m] \in Seq(Requests) /\ Distinct(queue[m])
            /\ \A i \in 1..Len(queue[m]) : model[queue[m][i]] = m
        BY <1>0 DEF WakeInv, QueueInv
      <4>2. CASE m = k
        <5>1. queue'[m] = Tail(queue[m]) /\ queue[m] # <<>> /\ queue[m][1] = r
          BY <1>0, <2>1, <4>1, <4>2
        <5>2. /\ Len(queue'[m]) = Len(queue[m]) - 1
              /\ \A i \in 1..Len(queue'[m]) : /\ queue'[m][i] = queue[m][i + 1]
                                              /\ i + 1 \in 1..Len(queue[m])
          BY <4>1, <5>1
        <5> QED
          BY <4>1, <5>1, <5>2 DEF Distinct
      <4>3. CASE m # k
        BY <1>0, <2>1, <4>1, <4>3
      <4> QED
        BY <4>2, <4>3
    <3> QED
      BY <1>4, <1>7, <2>1, <3>1 DEF Wake, RequestState
  <2>2. CASE /\ \/ queue[k] = <<>> \/ Head(queue[k]) # r
                \/ Candidates(k, excluded[r]) = {}
             /\ pc' = [pc EXCEPT ![r] = "asleep"]
             /\ UNCHANGED <<queue, dest, rinst, before, counted, recency, place>>
    <3>1. UNCHANGED <<queue, model, excluded, record, live, dest, rinst, counted>>
      BY <1>7, <2>2 DEF Wake, registry
    <3>2. \A m \in Models : \A i \in 1..Len(queue[m]) :
            /\ queue[m][i] \in Requests
            /\ model[queue[m][i]] = m /\ pc[queue[m][i]] \in {"asleep", "awake"}
      BY <1>0 DEF WakeInv, QueueInv
    <3>3. QueueInv'
      BY <1>0, <2>2, <3>1, <3>2 DEF WakeInv, QueueInv, Distinct
    <3>4. FreshInv'
      BY <1>0, <2>2, <3>1 DEF WakeInv, FreshInv
    <3>5. HeadInv'
      <4> SUFFICES ASSUME NEW m \in Models, queue[m] # <<>>, pc'[Head(queue[m])] = "asleep",
                          NEW n \in Nodes \ excluded[Head(queue[m])], Placeable(n, m)'
                   PROVE  FALSE
        BY <3>1 DEF HeadInv
      <4>1. Unaccounted(n, record[n]) \subseteq Unaccounted(n, record[n])'
        BY <1>0, <1>7, <2>2, <3>1 DEF Wake, Unaccounted, Reserved
      <4>2. Placeable(n, m)
        BY <3>1, <4>1, PlaceableShrinks DEF BasicInv
      <4>3. Head(queue[m]) = queue[m][1] /\ 1 \in 1..Len(queue[m])
        BY <1>0
      <4>4. Head(queue[m]) \in Requests /\ model[Head(queue[m])] = m
        BY <3>2, <4>3
      <4>5. CASE Head(queue[m]) # r
        BY <1>0, <2>2, <4>2, <4>4, <4>5 DEF WakeInv, HeadInv
      <4>6. CASE Head(queue[m]) = r
        <5>1. Candidates(m, excluded[r]) = {}
          BY <2>2, <4>4, <4>6
        <5>2. Candidates(m, excluded[r]) = {x \in Nodes \ excluded[r] : Placeable(x, m)}
          BY CandidatesPlaceable DEF BasicInv
        <5> QED
          BY <4>2, <4>6, <5>1, <5>2
      <4> QED
        BY <4>5, <4>6
    <3> QED
      BY <3>3, <3>4, <3>5 DEF WakeInv
  <2> QED
    BY <1>7, <2>1, <2>2 DEF Wake
<1> QED
  BY <1>1, <1>2, <1>3, <1>5, <1>6, <1>7 DEF RequestStep, AttemptStep

\* So do polls and nodes: a poll that changes a record notifies.
LEMMA OthersWake ==
  ASSUME BasicInv, BasicInv', WakeInv, (\E n \in Nodes : PollStep(n)) \/ NodeStep
  PROVE  WakeInv'
<1>0. /\ pc \in [Requests -> RequestState] /\ queue \in [Models -> Seq(Requests)]
  BY DEF BasicInv, TypeOK
<1>1. ASSUME NEW n \in Nodes, PollSucceeds(n) \/ PollFails(n)
      PROVE  WakeInv'
  <2>1. pc' = Notified(pc) /\ UNCHANGED <<model, excluded, queue>>
    BY <1>1 DEF PollSucceeds, PollFails, scheduler
  <2>2. /\ \A q \in Requests : pc'[q] = pc[q] \/ (pc[q] = "asleep" /\ pc'[q] = "awake")
        /\ \A q \in Requests : pc'[q] # "asleep"
    BY <1>0, <2>1, NotifiedAll
  <2>3. HeadInv'
    BY <2>2, NotifyWakes
  <2>4. FreshInv'
    BY <2>1, <2>2 DEF WakeInv, FreshInv
  <2>5. QueueInv'
    <3>1. \A m \in Models : \A i \in 1..Len(queue[m]) :
            /\ queue[m][i] \in Requests
            /\ model[queue[m][i]] = m /\ pc[queue[m][i]] \in {"asleep", "awake"}
      BY <1>0 DEF WakeInv, QueueInv
    <3> QED
      BY <2>1, <2>2, <3>1 DEF WakeInv, QueueInv, Distinct
  <2> QED
    BY <2>3, <2>4, <2>5 DEF WakeInv
<1>2. ASSUME UNCHANGED <<pc, model, excluded, dest, rinst, counted, queue, record>>,
             \A n \in Nodes : live'[n] => live[n]
      PROVE  WakeInv'
  <2>1. \A n \in Nodes : Unaccounted(n, record[n]) \subseteq Unaccounted(n, record[n])'
    BY <1>2 DEF Unaccounted, Reserved
  <2> QED
    BY <1>2, <2>1, QuietKeepsWake
<1>3. ASSUME NEW n \in Nodes, PollStarts(n) \/ NodeAnswers(n) \/ RecordExpires(n)
      PROVE  WakeInv'
  BY <1>2, <1>3 DEF PollStarts, NodeAnswers, RecordExpires, request, scheduler, BasicInv, TypeOK
<1>4. CASE NodeStep
  BY <1>2, <1>4 DEF NodeStep, NodeReceives, NodeGrants, NodeFinishes, LocalTraffic, NodeRestarts,
                    request, scheduler, registry
<1> QED
  BY <1>1, <1>3, <1>4 DEF PollStep

\* The head of a queue sleeps only while no node can take it: every step that makes
\* room notifies, and every other one takes room away.
THEOREM DispatchWakes == Spec => []NoLostWakeup
<1>1. Init => WakeInv
  BY FleetAssumption DEF Init, WakeInv, QueueInv, FreshInv, HeadInv, Distinct
<1>2. BasicInv /\ BasicInv' /\ WakeInv /\ [Next]_vars => WakeInv'
  <2> SUFFICES ASSUME BasicInv, BasicInv', WakeInv, [Next]_vars
               PROVE  WakeInv'
    OBVIOUS
  <2>1. CASE UNCHANGED vars
    BY <2>1 DEF vars, WakeInv, QueueInv, FreshInv, HeadInv, Distinct, Placeable, Unaccounted,
                Reserved, Available
  <2> QED
    BY <2>1, RequestWake, OthersWake DEF Next
<1>3. BasicInv /\ WakeInv => NoLostWakeup
  <2> SUFFICES ASSUME BasicInv, WakeInv, NEW m \in Models, queue[m] # <<>>,
                      pc[Head(queue[m])] = "asleep"
               PROVE  Candidates(m, excluded[Head(queue[m])]) = {}
    BY DEF NoLostWakeup
  <2>1. PICK out : out = excluded[Head(queue[m])]
    OBVIOUS
  <2>2. \A n \in Nodes \ out : ~Placeable(n, m)
    BY <2>1 DEF WakeInv, HeadInv
  <2>3. Candidates(m, out) = {n \in Nodes \ out : Placeable(n, m)}
    BY CandidatesPlaceable DEF BasicInv
  <2> QED
    BY <2>1, <2>2, <2>3
<1> QED
  BY <1>1, <1>2, <1>3, BasicHolds, PTL DEF Spec

-----------------------------------------------------------------------------
(* No over-commitment                                                       *)

\* A snapshot s of node n holds every request that is running there although its
\* headers had arrived before the poll started, and no more than n's permits.
SnapshotSound(n, s, seen) ==
    /\ s.inst <= inst[n]
    /\ Cardinality(s.running) <= Slots[n]
    /\ \A r \in Requests : (seen[r] /\ dest[r] = n /\ place[r] = "running") => r \in s.running

\* Reservations name the node's process of now or of before.
InstancesPast == \A r \in Requests : dest[r] \in Nodes => rinst[r] <= inst[dest[r]]

PermitsKept == \A n \in Nodes : Used(n) <= Slots[n]

SnapshotsSound ==
    \A n \in Nodes : /\ poll[n].stage = "answered" => SnapshotSound(n, poll[n], before)
                     /\ record[n] # None => SnapshotSound(n, record[n], counted)

CapacityInv == BasicInv /\ InstancesPast /\ PermitsKept /\ SnapshotsSound /\ NoOvercommit

\* Fewer requests take no more room.
LEMMA FewerRequests ==
  ASSUME NEW S \in SUBSET Requests, NEW T \in SUBSET S
  PROVE  /\ IsFiniteSet(S) /\ IsFiniteSet(T)
         /\ Cardinality(S) \in Nat /\ Cardinality(T) \in Nat
         /\ Cardinality(T) <= Cardinality(S)
<1>1. IsFiniteSet(S)
  BY FleetAssumption, FS_Subset
<1> QED
  BY <1>1, FS_Subset, FS_CardinalityType

\* Two sets and one more element are no more than their sizes and one.
LEMMA UnionPlusOne ==
  ASSUME NEW S \in SUBSET Requests, NEW T \in SUBSET Requests, NEW x \in Requests
  PROVE  Cardinality((S \cup T) \cup {x}) <= Cardinality(S) + Cardinality(T) + 1
<1>1. /\ IsFiniteSet(S) /\ IsFiniteSet(T) /\ IsFiniteSet(S \cap T) /\ IsFiniteSet(S \cup T)
  BY FewerRequests, S \cap T \in SUBSET S, S \cup T \in SUBSET Requests
<1>2. /\ Cardinality(S) \in Nat /\ Cardinality(T) \in Nat /\ Cardinality(S \cap T) \in Nat
      /\ Cardinality(S \cup T) \in Nat
  BY <1>1, FS_CardinalityType
<1>3. Cardinality(S \cup T) = Cardinality(S) + Cardinality(T) - Cardinality(S \cap T)
  BY <1>1, FS_Union
<1>4. Cardinality((S \cup T) \cup {x}) \in {Cardinality(S \cup T), Cardinality(S \cup T) + 1}
  BY <1>1, FS_AddElement
<1> QED
  BY <1>2, <1>3, <1>4

\* What a step does that neither reserves nor starts work at a node.
Recedes(r) ==
    /\ Reserved(r)' => Reserved(r)
    /\ dest'[r] = dest[r]
    /\ rinst'[r] = rinst[r] \/ rinst'[r] = 0
    /\ before'[r] => before[r]
    /\ counted'[r] => counted[r]
    /\ place'[r] = place[r] \/ place'[r] = "none"

\* Such a step keeps every bound.
LEMMA RecedingKeeps ==
  ASSUME CapacityInv, BasicInv', \A r \in Requests : Recedes(r),
         UNCHANGED <<poll, record, inst>>, \A n \in Nodes : local'[n] <= local[n]
  PROVE  CapacityInv'
<1>0. /\ inst \in [Nodes -> 1..MaxInstance] /\ rinst \in [Requests -> 0..MaxInstance]
      /\ local \in [Nodes -> Nat] /\ local' \in [Nodes -> Nat]
      /\ MaxInstance \in Nat /\ Slots \in [Nodes -> Nat] /\ QueueLimit \in [Nodes -> Nat]
  BY FleetAssumption DEF CapacityInv, BasicInv, TypeOK
<1>1. InstancesPast'
  <2> SUFFICES ASSUME NEW r \in Requests, dest'[r] \in Nodes
               PROVE  rinst'[r] <= inst[dest'[r]]
    BY DEF InstancesPast
  <2>1. dest'[r] = dest[r] /\ (rinst'[r] = rinst[r] \/ rinst'[r] = 0)
    BY DEF Recedes
  <2>2. rinst[r] <= inst[dest[r]]
    BY <2>1 DEF CapacityInv, InstancesPast
  <2>3. inst[dest[r]] \in 1..MaxInstance
    BY <1>0, <2>1
  <2> QED
    BY <1>0, <2>1, <2>2, <2>3
<1>2. PermitsKept'
  <2> SUFFICES ASSUME NEW n \in Nodes
               PROVE  Used(n)' <= Slots[n]
    BY DEF PermitsKept
  <2>1. Running(n)' \in SUBSET Running(n) /\ Running(n) \in SUBSET Requests
    BY DEF Running, Recedes
  <2>2. /\ Cardinality(Running(n)') <= Cardinality(Running(n))
        /\ Cardinality(Running(n)') \in Nat /\ Cardinality(Running(n)) \in Nat
    BY <2>1, FewerRequests
  <2>3. Used(n) <= Slots[n]
    BY DEF CapacityInv, PermitsKept
  <2>4. local'[n] \in Nat /\ local[n] \in Nat /\ Slots[n] \in Nat
    BY <1>0
  <2> QED
    BY <2>2, <2>3, <2>4 DEF Used
<1>3. SnapshotsSound'
  BY DEF CapacityInv, SnapshotsSound, SnapshotSound, Recedes
<1>4. NoOvercommit'
  <2> SUFFICES ASSUME NEW n \in Nodes
               PROVE  Cardinality(Load(n)') <= Slots[n] + QueueLimit[n]
    BY DEF NoOvercommit
  <2>1. Load(n)' \in SUBSET Load(n) /\ Load(n) \in SUBSET Requests
    <3>1. inst[n] # 0
      BY <1>0
    <3> QED
      BY <3>1 DEF Load, Recedes
  <2>2. /\ Cardinality(Load(n)') <= Cardinality(Load(n))
        /\ Cardinality(Load(n)') \in Nat /\ Cardinality(Load(n)) \in Nat
    BY <2>1, FewerRequests
  <2>3. Cardinality(Load(n)) <= Slots[n] + QueueLimit[n]
    BY DEF CapacityInv, NoOvercommit
  <2>4. Slots[n] \in Nat /\ QueueLimit[n] \in Nat
    BY <1>0
  <2> QED
    BY <2>2, <2>3, <2>4
<1> QED
  BY <1>1, <1>2, <1>3, <1>4 DEF CapacityInv

\* Whatever tier a node is chosen in, its permits and queue have room for one more
\* than the record and the reservations it cannot have seen account for.
LEMMA RoomForOne ==
  ASSUME BasicInv, NEW m, NEW n \in Nodes, record[n] # None,
         Cardinality(record[n].running) <= Slots[n],
         \E t \in 1..4 : FitsTier(n, record[n], m, t)
  PROVE  Cardinality(record[n].running) + Cardinality(Unaccounted(n, record[n])) + 1
           <= Slots[n] + QueueLimit[n]
<1> DEFINE ours == Cardinality(Unaccounted(n, record[n]))
           busy == Cardinality(record[n].running)
           wait == Cardinality(record[n].waiting)
<1>1. record[n] \in Snapshots
  BY DEF BasicInv, TypeOK
<1>2. /\ record[n].running \in SUBSET Requests /\ record[n].waiting \in SUBSET Requests
      /\ record[n].local \in Nat /\ Unaccounted(n, record[n]) \in SUBSET Requests
  BY <1>1 DEF Snapshots, Unaccounted
<1>3. ours \in Nat /\ busy \in Nat /\ wait \in Nat
  BY <1>2, FewerRequests
<1>4. Slots[n] \in Nat /\ QueueLimit[n] \in Nat
  BY FleetAssumption
<1>5. ours < Available(n, record[n]) \/ wait + ours < QueueLimit[n]
  BY DEF FitsTier
<1>6. ours < Available(n, record[n]) => busy + ours + 1 <= Slots[n]
  <2> HIDE DEF ours
  <2> QED
    BY <1>2, <1>3, <1>4 DEF Available
<1> HIDE DEF ours, busy, wait
<1>7. busy + ours + 1 <= Slots[n] + QueueLimit[n]
  <2>1. busy <= Slots[n]
    BY DEF busy
  <2> QED
    BY <1>3, <1>4, <1>5, <1>6, <2>1
<1> QED
  BY <1>7 DEF ours, busy

\* Reserving keeps every bound.
LEMMA ReserveKeeps ==
  ASSUME CapacityInv, BasicInv', NEW r \in Requests, NEW n \in Nodes, NEW m,
         pc[r] \in {"idle", "awake", "retry"},
         record[n] # None, \E t \in 1..4 : FitsTier(n, record[n], m, t),
         Reserve(r, n),
         \A q \in Requests \ {r} : Reserved(q)' => Reserved(q),
         UNCHANGED <<poll, record, inst, local>>
  PROVE  CapacityInv'
<1>0. /\ inst \in [Nodes -> 1..MaxInstance] /\ Slots \in [Nodes -> Nat]
      /\ QueueLimit \in [Nodes -> Nat]
      /\ record[n] \in Snapshots
  BY FleetAssumption DEF CapacityInv, BasicInv, TypeOK
<1>1. /\ place[r] = "none" /\ ~Reserved(r)
      /\ dest'[r] = n /\ rinst'[r] = record[n].inst
      /\ ~before'[r] /\ ~counted'[r] /\ place'[r] = "outbound"
  BY DEF CapacityInv, BasicInv, TypeOK, RequestInv, RequestPlaced, Reserve, Reserved
<1>2. \A q \in Requests \ {r} : /\ dest'[q] = dest[q] /\ rinst'[q] = rinst[q]
                                /\ before'[q] = before[q] /\ counted'[q] = counted[q]
                                /\ place'[q] = place[q]
  BY DEF CapacityInv, BasicInv, TypeOK, Reserve
<1>3. InstancesPast'
  BY <1>1, <1>2 DEF CapacityInv, InstancesPast, SnapshotsSound, SnapshotSound
<1>4. PermitsKept'
  <2>1. ASSUME NEW o \in Nodes
        PROVE  Running(o)' = Running(o)
    BY <1>1, <1>2 DEF Running
  <2> QED
    BY <2>1 DEF CapacityInv, PermitsKept, Used
<1>5. SnapshotsSound'
  BY <1>1, <1>2 DEF CapacityInv, SnapshotsSound, SnapshotSound
<1>6. ASSUME NEW o \in Nodes
      PROVE  Cardinality(Load(o)') <= Slots[o] + QueueLimit[o]
  <2>0. Load(o) \in SUBSET Requests /\ Slots[o] \in Nat /\ QueueLimit[o] \in Nat
    BY <1>0 DEF Load
  <2>1. CASE o # n \/ record[n].inst # inst[n]
    <3>1. Load(o)' \in SUBSET Load(o)
      BY <1>1, <1>2, <2>1 DEF Load
    <3>2. /\ Cardinality(Load(o)') <= Cardinality(Load(o))
          /\ Cardinality(Load(o)') \in Nat /\ Cardinality(Load(o)) \in Nat
      BY <2>0, <3>1, FewerRequests
    <3>3. Cardinality(Load(o)) <= Slots[o] + QueueLimit[o]
      BY DEF CapacityInv, NoOvercommit
    <3> QED
      BY <2>0, <3>2, <3>3
  <2>2. CASE o = n /\ record[n].inst = inst[n]
    <3> DEFINE seen == record[n].running
               ours == Unaccounted(n, record[n])
    <3>1. seen \in SUBSET Requests /\ ours \in SUBSET Requests
      BY <1>0 DEF Snapshots, Unaccounted
    <3>2. Load(o)' \in SUBSET ((seen \cup ours) \cup {r})
      <4> SUFFICES ASSUME NEW q \in Requests \ {r}, q \in Load(o)'
                   PROVE  q \in seen \cup ours
        BY DEF Load
      <4>1. /\ Reserved(q) /\ dest[q] = n /\ rinst[q] = record[n].inst
            /\ place[q] \in {"outbound", "waiting", "running"}
        BY <1>2, <2>2 DEF Load
      <4>2. CASE counted[q]
        <5>1. place[q] = "running"
          BY <4>1, <4>2 DEF CapacityInv, BasicInv, RequestInv, RequestPlaced, SeenByPoll
        <5> QED
          BY <4>1, <4>2, <5>1 DEF CapacityInv, SnapshotsSound, SnapshotSound
      <4>3. CASE ~counted[q]
        BY <4>1, <4>3 DEF Unaccounted
      <4> QED
        BY <4>2, <4>3
    <3>3. Cardinality(seen) + Cardinality(ours) + 1 <= Slots[n] + QueueLimit[n]
      BY RoomForOne DEF CapacityInv, SnapshotsSound, SnapshotSound
    <3> HIDE DEF seen, ours
    <3>4. Cardinality((seen \cup ours) \cup {r}) <= Cardinality(seen) + Cardinality(ours) + 1
      BY <3>1, UnionPlusOne
    <3>5. (seen \cup ours) \cup {r} \in SUBSET Requests
      BY <3>1
    <3>6. /\ Cardinality(Load(o)') <= Cardinality((seen \cup ours) \cup {r})
          /\ Cardinality(Load(o)') \in Nat
          /\ Cardinality((seen \cup ours) \cup {r}) \in Nat
      BY <3>2, <3>5, FewerRequests
    <3>7. Cardinality(seen) \in Nat /\ Cardinality(ours) \in Nat
      BY <3>1, FewerRequests
    <3> QED
      BY <2>0, <2>2, <3>3, <3>4, <3>6, <3>7
  <2> QED
    BY <2>1, <2>2
<1>7. NoOvercommit'
  BY <1>6 DEF NoOvercommit
<1> QED
  BY <1>3, <1>4, <1>5, <1>7 DEF CapacityInv

\* A node that has room for a model fits it in some tier; the rest of acquire does
\* not touch what the bounds are about.
LEMMA AcquireKeeps ==
  ASSUME CapacityInv, BasicInv', NEW r \in Requests, NEW out, pc[r] \in {"idle", "retry"},
         Acquire(r, out), UNCHANGED <<registry, inst, local>>
  PROVE  CapacityInv'
<1> DEFINE m == model[r]
<1>0. pc \in [Requests -> RequestState]
  BY DEF CapacityInv, BasicInv, TypeOK
<1>1. CASE \E n \in Nodes : /\ Selects(m, out, n) /\ Reserve(r, n)
                             /\ pc' = [pc EXCEPT ![r] = "sending"]
  <2>1. PICK n \in Nodes : /\ Selects(m, out, n) /\ Reserve(r, n)
                           /\ pc' = [pc EXCEPT ![r] = "sending"]
    BY <1>1
  <2>2. record[n] # None /\ \E t \in 1..4 : FitsTier(n, record[n], m, t)
    BY <2>1, SelectedNode
  <2>3. \A q \in Requests \ {r} : Reserved(q)' => Reserved(q)
    BY <1>0, <2>1 DEF Reserved
  <2> QED
    BY <2>1, <2>2, <2>3, ReserveKeeps DEF registry
<1>2. CASE /\ pc' = [pc EXCEPT ![r] = "asleep"] \/ pc' = [pc EXCEPT ![r] = "done"]
           /\ UNCHANGED <<dest, rinst, before, counted, place>>
  <2>1. \A q \in Requests : Recedes(q)
    BY <1>0, <1>2 DEF Recedes, Reserved
  <2>2. \A n \in Nodes : local'[n] <= local[n]
    BY DEF CapacityInv, BasicInv, TypeOK
  <2> QED
    BY <2>1, <2>2, RecedingKeeps DEF registry
<1> QED
  BY <1>1, <1>2 DEF Acquire

\* Every step of a request's coroutine keeps the bounds.
LEMMA RequestKeeps ==
  ASSUME CapacityInv, BasicInv', NEW r \in Requests, RequestStep(r)
  PROVE  CapacityInv'
<1>0. /\ pc \in [Requests -> RequestState] /\ local \in [Nodes -> Nat]
      /\ before \in [Requests -> BOOLEAN] /\ counted \in [Requests -> BOOLEAN]
      /\ place \in [Requests -> Place] /\ rinst \in [Requests -> 0..MaxInstance]
  BY DEF CapacityInv, BasicInv, TypeOK
<1>1. ASSUME \A q \in Requests : Recedes(q), UNCHANGED <<poll, record, inst, local>>
      PROVE  CapacityInv'
  <2>1. \A n \in Nodes : local'[n] <= local[n]
    BY <1>0, <1>1
  <2> QED
    BY <1>1, <2>1, RecedingKeeps
<1>2. CASE Arrive(r)
  BY <1>2, AcquireKeeps DEF Arrive
<1>3. CASE NextAttempt(r)
  <2>1. CASE Acquire(r, Exclude(r))
    BY <1>3, <2>1, AcquireKeeps DEF NextAttempt
  <2>2. CASE /\ pc' = [pc EXCEPT ![r] = "done"]
             /\ UNCHANGED <<dest, rinst, before, counted, scheduler, place>>
    <3>1. \A q \in Requests : Recedes(q)
      BY <1>0, <2>2 DEF Recedes, Reserved
    <3> QED
      BY <1>1, <1>3, <3>1 DEF NextAttempt, registry
  <2> QED
    BY <1>3, <2>1, <2>2 DEF NextAttempt
<1>4. CASE Wake(r)
  <2> DEFINE m == model[r]
  <2>1. CASE \E n \in Nodes : /\ Selects(m, excluded[r], n) /\ Reserve(r, n)
                               /\ pc' = Notified([pc EXCEPT ![r] = "sending"])
    <3>1. PICK n \in Nodes : /\ Selects(m, excluded[r], n) /\ Reserve(r, n)
                             /\ pc' = Notified([pc EXCEPT ![r] = "sending"])
      BY <2>1
    <3>2. record[n] # None /\ \E t \in 1..4 : FitsTier(n, record[n], m, t)
      BY <3>1, SelectedNode
    <3>3. \A q \in Requests \ {r} : Reserved(q)' => Reserved(q)
      BY <1>0, <3>1, NotifiedExcept DEF Reserved, RequestState
    <3> QED
      BY <1>4, <3>1, <3>2, <3>3, ReserveKeeps DEF Wake, registry
  <2>2. CASE /\ pc' = [pc EXCEPT ![r] = "asleep"]
             /\ UNCHANGED <<queue, dest, rinst, before, counted, recency, place>>
    <3>1. \A q \in Requests : Recedes(q)
      BY <1>0, <2>2 DEF Recedes, Reserved
    <3> QED
      BY <1>1, <1>4, <3>1 DEF Wake, registry
  <2> QED
    BY <1>4, <2>1, <2>2 DEF Wake
<1>5. CASE LeaveQueue(r)
  <2>0. pc' = Notified([pc EXCEPT ![r] = "done"])
    BY <1>5 DEF LeaveQueue
  <2>1. \A q \in Requests : Reserved(q)' => Reserved(q)
    <3>1. pc'[r] = "done" /\ \A q \in Requests \ {r} : \/ pc'[q] = pc[q]
                                                       \/ (pc[q] = "asleep" /\ pc'[q] = "awake")
      BY <1>0, <2>0, NotifiedExcept DEF RequestState
    <3> QED
      BY <3>1 DEF Reserved
  <2>2. \A q \in Requests : Recedes(q)
    BY <1>5, <2>1 DEF LeaveQueue, Recedes, node
  <2> QED
    BY <1>1, <1>5, <2>2 DEF LeaveQueue, registry, node
<1>6. ASSUME NEW outcome, EndAttempt(r, outcome), UNCHANGED <<inst, local>>,
             place' = place \/ place' = [place EXCEPT ![r] = "none"]
      PROVE  CapacityInv'
  <2>1. pc' = Notified([pc EXCEPT ![r] = "retry"]) \/ pc' = Notified([pc EXCEPT ![r] = "done"])
    BY <1>6 DEF EndAttempt
  <2>2. \A q \in Requests : Reserved(q)' => Reserved(q)
    BY <1>0, <2>1, NotifiedExcept, ZenonT(60) DEF Reserved, RequestState
  <2>3. \A q \in Requests : /\ dest'[q] = dest[q]
                            /\ rinst'[q] = rinst[q] \/ rinst'[q] = 0
                            /\ before'[q] => before[q]
                            /\ counted'[q] => counted[q]
    BY <1>0, <1>6 DEF EndAttempt
  <2>4. \A q \in Requests : place'[q] = place[q] \/ place'[q] = "none"
    BY <1>0, <1>6
  <2>5. \A q \in Requests : Recedes(q)
    BY <2>2, <2>3, <2>4 DEF Recedes
  <2> QED
    BY <1>1, <1>6, <2>5 DEF EndAttempt, registry
<1>7. CASE AttemptStep(r) /\ ~HeadersArrive(r)
  BY <1>6, <1>7 DEF AttemptStep, ConnectFails, BusyArrives, AttemptLost, StreamEnds, node
<1>8. CASE HeadersArrive(r)
  <2>1. \A q \in Requests : Recedes(q)
    BY <1>0, <1>8 DEF HeadersArrive, Recedes, Reserved, node
  <2> QED
    BY <1>1, <1>8, <2>1 DEF HeadersArrive, registry, node
<1> QED
  BY <1>2, <1>3, <1>4, <1>5, <1>7, <1>8 DEF RequestStep

\* Every step of a poll keeps the bounds.
LEMMA PollKeeps ==
  ASSUME CapacityInv, BasicInv', NEW n \in Nodes, PollStep(n)
  PROVE  CapacityInv'
<1>0. /\ pc \in [Requests -> RequestState] /\ local \in [Nodes -> Nat]
      /\ before \in [Requests -> BOOLEAN] /\ counted \in [Requests -> BOOLEAN]
      /\ poll \in [Nodes -> [stage : {"idle", "asked"}] \cup Snapshots]
      /\ record \in [Nodes -> Snapshots \cup {None}] /\ inst \in [Nodes -> 1..MaxInstance]
  BY DEF CapacityInv, BasicInv, TypeOK
<1>1. /\ UNCHANGED <<dest, rinst, inst, local, place>>
      /\ \A q \in Requests : Reserved(q)' = Reserved(q)
  <2>1. UNCHANGED <<dest, rinst, inst, local, place>>
    BY DEF PollStep, PollStarts, NodeAnswers, PollSucceeds, PollFails, RecordExpires, request, node
  <2>2. pc' = pc \/ pc' = Notified(pc)
    BY DEF PollStep, PollStarts, NodeAnswers, PollSucceeds, PollFails, RecordExpires, request
  <2> QED
    BY <1>0, <2>1, <2>2, NotifiedAll DEF Reserved
<1>2. InstancesPast'
  BY <1>1 DEF CapacityInv, InstancesPast
<1>3. PermitsKept'
  BY <1>1 DEF CapacityInv, PermitsKept, Used, Running
<1>4. NoOvercommit'
  <2>1. ASSUME NEW o \in Nodes
        PROVE  Load(o)' = Load(o)
    BY <1>1 DEF Load
  <2> QED
    BY <2>1 DEF CapacityInv, NoOvercommit
<1>5. SnapshotsSound'
  <2>1. CASE PollStarts(n)
    <3>1. /\ poll'[n].stage = "asked" /\ record' = record /\ counted' = counted
          /\ \A o \in Nodes \ {n} : poll'[o] = poll[o]
          /\ \A r \in Requests : dest[r] # n => before'[r] = before[r]
      BY <1>0, <2>1 DEF PollStarts
    <3> QED
      BY <1>1, <3>1 DEF CapacityInv, SnapshotsSound, SnapshotSound
  <2>2. CASE NodeAnswers(n)
    <3>1. /\ poll'[n].inst = inst[n] /\ poll'[n].running = Running(n)
          /\ record' = record /\ counted' = counted /\ before' = before
          /\ \A o \in Nodes \ {n} : poll'[o] = poll[o]
      BY <1>0, <2>2 DEF NodeAnswers, request
    <3>2. Cardinality(Running(n)) <= Slots[n]
      <4>1. Running(n) \in SUBSET Requests
        BY DEF Running
      <4>2. Cardinality(Running(n)) \in Nat /\ local[n] \in Nat /\ Slots[n] \in Nat
        BY <1>0, <4>1, FewerRequests, FleetAssumption
      <4>3. Cardinality(Running(n)) + local[n] <= Slots[n]
        BY DEF CapacityInv, PermitsKept, Used
      <4> QED
        BY <4>2, <4>3
    <3>3. \A r \in Requests : (dest[r] = n /\ place[r] = "running") => r \in Running(n)
      BY DEF Running
    <3>4. inst[n] <= inst[n]
      BY <1>0
    <3>5. SnapshotSound(n, poll[n], before)'
      BY <1>1, <3>1, <3>2, <3>3, <3>4 DEF SnapshotSound
    <3> QED
      BY <1>1, <3>1, <3>5 DEF CapacityInv, SnapshotsSound, SnapshotSound
  <2>3. CASE PollSucceeds(n)
    <3>1. /\ poll[n].stage = "answered" /\ record'[n] = poll[n] /\ before' = before
          /\ \A o \in Nodes \ {n} : record'[o] = record[o] /\ poll'[o] = poll[o]
          /\ poll'[n].stage = "idle"
          /\ \A r \in Requests : counted'[r] = IF dest[r] = n THEN before[r] ELSE counted[r]
      BY <1>0, <2>3 DEF PollSucceeds
    <3> QED
      BY <1>1, <3>1 DEF CapacityInv, SnapshotsSound, SnapshotSound
  <2>4. CASE PollFails(n)
    <3>1. /\ poll'[n].stage = "idle" /\ record' = record /\ before' = before
          /\ counted' = counted /\ \A o \in Nodes \ {n} : poll'[o] = poll[o]
      BY <1>0, <2>4 DEF PollFails
    <3> QED
      BY <1>1, <3>1 DEF CapacityInv, SnapshotsSound, SnapshotSound
  <2>5. CASE RecordExpires(n)
    BY <1>1, <2>5 DEF RecordExpires, request, CapacityInv, SnapshotsSound, SnapshotSound
  <2> QED
    BY <2>1, <2>2, <2>3, <2>4, <2>5 DEF PollStep
<1> QED
  BY <1>2, <1>3, <1>4, <1>5 DEF CapacityInv

\* A request starts to run at a node with a free permit.
LEMMA StartKeeps ==
  ASSUME CapacityInv, BasicInv', NEW r \in Requests, dest[r] \in Nodes,
         place[r] \in {"outbound", "waiting"}, Used(dest[r]) < Slots[dest[r]],
         place' = [place EXCEPT ![r] = "running"],
         UNCHANGED <<pc, dest, rinst, before, counted, poll, record, inst, local>>
  PROVE  CapacityInv'
<1>0. place \in [Requests -> Place]
  BY DEF CapacityInv, BasicInv, TypeOK
<1>1. /\ place'[r] = "running" /\ \A q \in Requests \ {r} : place'[q] = place[q]
      /\ ~before[r] /\ ~counted[r]
  BY <1>0 DEF CapacityInv, BasicInv, RequestInv, RequestPlaced, SeenByPoll
<1>2. InstancesPast'
  BY DEF CapacityInv, InstancesPast
<1>3. PermitsKept'
  <2> SUFFICES ASSUME NEW n \in Nodes
               PROVE  Used(n)' <= Slots[n]
    BY DEF PermitsKept
  <2>1. CASE n = dest[r]
    <3>1. Running(n)' = Running(n) \cup {r} /\ Running(n) \in SUBSET Requests
      BY <1>1, <2>1 DEF Running
    <3>2. IsFiniteSet(Running(n)) /\ Cardinality(Running(n)) \in Nat
      BY <3>1, FewerRequests
    <3>3. Cardinality(Running(n)') \in {Cardinality(Running(n)), Cardinality(Running(n)) + 1}
      BY <3>1, <3>2, FS_AddElement
    <3>4. local[n] \in Nat /\ Slots[n] \in Nat
      BY FleetAssumption DEF CapacityInv, BasicInv, TypeOK
    <3> QED
      BY <2>1, <3>2, <3>3, <3>4 DEF Used
  <2>2. CASE n # dest[r]
    <3>1. Running(n)' = Running(n)
      BY <1>1, <2>2 DEF Running
    <3> QED
      BY <3>1 DEF CapacityInv, PermitsKept, Used
  <2> QED
    BY <2>1, <2>2
<1>4. SnapshotsSound'
  BY <1>1 DEF CapacityInv, SnapshotsSound, SnapshotSound
<1>5. NoOvercommit'
  <2>1. ASSUME NEW n \in Nodes
        PROVE  Load(n)' = Load(n)
    BY <1>1 DEF Load, Reserved
  <2> QED
    BY <2>1 DEF CapacityInv, NoOvercommit
<1> QED
  BY <1>2, <1>3, <1>4, <1>5 DEF CapacityInv

\* Every step of a node keeps the bounds: a restart forgets all of the node's work
\* and no reservation names the new process yet.
LEMMA NodeKeeps ==
  ASSUME CapacityInv, BasicInv', NodeStep
  PROVE  CapacityInv'
<1>0. /\ place \in [Requests -> Place] /\ local \in [Nodes -> Nat]
      /\ inst \in [Nodes -> 1..MaxInstance] /\ rinst \in [Requests -> 0..MaxInstance]
      /\ Slots \in [Nodes -> Nat \ {0}] /\ QueueLimit \in [Nodes -> Nat]
  BY FleetAssumption DEF CapacityInv, BasicInv, TypeOK
<1>1. ASSUME NEW r \in Requests, NodeReceives(r)
      PROVE  CapacityInv'
  <2>1. dest[r] \in Nodes /\ UNCHANGED <<pc, dest, rinst, before, counted, poll, record, inst, local>>
    BY <1>1 DEF NodeReceives, request, registry, CapacityInv, BasicInv, RequestInv, RequestPlaced
  <2>2. CASE Permit(dest[r], model[r]) /\ place' = [place EXCEPT ![r] = "running"]
    BY <1>1, <2>1, <2>2, StartKeeps DEF NodeReceives, Permit
  <2>3. CASE place' = [place EXCEPT ![r] = "waiting"] \/ place' = [place EXCEPT ![r] = "refused"]
    <3>1. \A n \in Nodes : Load(n)' \in SUBSET Load(n) /\ Running(n)' = Running(n)
      BY <1>0, <1>1, <2>1, <2>3 DEF NodeReceives, Load, Running, Reserved
    <3>2. InstancesPast' /\ PermitsKept'
      BY <2>1, <3>1 DEF CapacityInv, InstancesPast, PermitsKept, Used
    <3>3. \A q \in Requests : place'[q] = "running" => place[q] = "running"
      BY <1>0, <2>3
    <3>4. SnapshotsSound'
      BY <2>1, <3>3 DEF CapacityInv, SnapshotsSound, SnapshotSound
    <3>5. NoOvercommit'
      <4> SUFFICES ASSUME NEW n \in Nodes
                   PROVE  Cardinality(Load(n)') <= Slots[n] + QueueLimit[n]
        BY DEF NoOvercommit
      <4>1. Load(n) \in SUBSET Requests
        BY DEF Load
      <4>2. /\ Cardinality(Load(n)') <= Cardinality(Load(n))
            /\ Cardinality(Load(n)') \in Nat /\ Cardinality(Load(n)) \in Nat
        BY <3>1, <4>1, FewerRequests
      <4>3. Cardinality(Load(n)) <= Slots[n] + QueueLimit[n]
        BY DEF CapacityInv, NoOvercommit
      <4>4. Slots[n] \in Nat /\ QueueLimit[n] \in Nat
        BY <1>0
      <4> QED
        BY <4>2, <4>3, <4>4
    <3> QED
      BY <3>2, <3>4, <3>5 DEF CapacityInv
  <2> QED
    BY <1>1, <2>2, <2>3 DEF NodeReceives
<1>2. ASSUME NEW r \in Requests, NodeGrants(r)
      PROVE  CapacityInv'
  <2>1. dest[r] \in Nodes /\ UNCHANGED <<pc, dest, rinst, before, counted, poll, record, inst, local>>
    BY <1>2 DEF NodeGrants, request, registry, CapacityInv, BasicInv, RequestInv, RequestPlaced
  <2>2. Used(dest[r]) < Slots[dest[r]]
    <3>1. Slots[dest[r]] \in Nat \ {0}
      BY <1>0, <2>1
    <3> QED
      BY <1>2, <3>1 DEF NodeGrants
  <2> QED
    BY <1>2, <2>1, <2>2, StartKeeps DEF NodeGrants
<1>3. ASSUME NEW r \in Requests, NodeFinishes(r)
      PROVE  CapacityInv'
  <2>1. \A q \in Requests : Recedes(q)
    BY <1>0, <1>3 DEF NodeFinishes, Recedes, Reserved, request
  <2>2. \A n \in Nodes : local'[n] <= local[n]
    BY <1>0, <1>3 DEF NodeFinishes
  <2> QED
    BY <1>3, <2>1, <2>2, RecedingKeeps DEF NodeFinishes, registry
<1>4. ASSUME NEW n \in Nodes, LocalTraffic(n)
      PROVE  CapacityInv'
  <2>0. UNCHANGED <<pc, dest, rinst, before, counted, poll, record, inst, place>>
    BY <1>4 DEF LocalTraffic, request, registry
  <2>1. InstancesPast' /\ SnapshotsSound'
    BY <2>0 DEF CapacityInv, InstancesPast, SnapshotsSound, SnapshotSound
  <2>2. NoOvercommit'
    BY <2>0 DEF CapacityInv, NoOvercommit, Load, Reserved
  <2>3. PermitsKept'
    <3> SUFFICES ASSUME NEW o \in Nodes
                 PROVE  Used(o)' <= Slots[o]
      BY DEF PermitsKept
    <3>1. Running(o)' = Running(o) /\ Running(o) \in SUBSET Requests
      BY <2>0 DEF Running
    <3>2. Cardinality(Running(o)) \in Nat /\ local[o] \in Nat /\ Slots[o] \in Nat
      BY <1>0, <3>1, FewerRequests
    <3>3. Used(o) <= Slots[o]
      BY DEF CapacityInv, PermitsKept
    <3>4. \/ local'[o] = local[o]
          \/ local'[o] = local[o] - 1
          \/ Used(o) < Slots[o] /\ local'[o] = local[o] + 1
      BY <1>0, <1>4 DEF LocalTraffic
    <3> QED
      BY <3>1, <3>2, <3>3, <3>4 DEF Used
  <2> QED
    BY <2>1, <2>2, <2>3 DEF CapacityInv
<1>5. ASSUME NEW n \in Nodes, NodeRestarts(n)
      PROVE  CapacityInv'
  <2>0. /\ UNCHANGED <<pc, dest, rinst, before, counted, poll, record>>
        /\ inst'[n] = inst[n] + 1 /\ local'[n] = 0
        /\ \A o \in Nodes \ {n} : inst'[o] = inst[o] /\ local'[o] = local[o]
        /\ \A q \in Requests : dest[q] = n => place'[q] # "running"
        /\ \A q \in Requests : dest[q] # n => place'[q] = place[q]
    BY <1>0, <1>5 DEF NodeRestarts, request, registry, Running, Waiting
  <2>1. inst[n] \in Nat /\ inst[n] <= inst'[n]
    BY <1>0, <2>0
  <2>2. InstancesPast'
    <3> SUFFICES ASSUME NEW q \in Requests, dest[q] \in Nodes
                 PROVE  rinst[q] <= inst'[dest[q]]
      BY <2>0 DEF InstancesPast
    <3>1. rinst[q] <= inst[dest[q]]
      BY DEF CapacityInv, InstancesPast
    <3>2. rinst[q] \in Nat /\ inst[dest[q]] \in Nat
      BY <1>0
    <3> QED
      BY <2>0, <3>1, <3>2
  <2>3. PermitsKept'
    <3> SUFFICES ASSUME NEW o \in Nodes
                 PROVE  Used(o)' <= Slots[o]
      BY DEF PermitsKept
    <3>1. CASE o = n
      <4>1. Running(o)' = {}
        BY <2>0, <3>1 DEF Running
      <4>2. Used(o)' = 0
        BY <2>0, <3>1, <4>1, FS_EmptySet DEF Used
      <4> QED
        BY <1>0, <4>2
    <3>2. CASE o # n
      <4>1. Running(o)' = Running(o)
        BY <2>0, <3>2 DEF Running
      <4> QED
        BY <2>0, <3>2, <4>1 DEF CapacityInv, PermitsKept, Used
    <3> QED
      BY <3>1, <3>2
  <2>4. SnapshotsSound'
    <3>1. ASSUME NEW o \in Nodes, NEW s, s \in Snapshots, NEW seen, SnapshotSound(o, s, seen)
          PROVE  SnapshotSound(o, s, seen)'
      <4>1. s.inst <= inst'[o]
        <5>1. s.inst \in Nat /\ inst[o] \in Nat /\ s.inst <= inst[o]
          BY <1>0, <3>1 DEF Snapshots, SnapshotSound
        <5> QED
          BY <2>0, <5>1
      <4>2. \A q \in Requests : (seen'[q] /\ dest[q] = o /\ place'[q] = "running") => q \in s.running
        BY <2>0, <3>1 DEF SnapshotSound
      <4> QED
        BY <2>0, <3>1, <4>1, <4>2 DEF SnapshotSound
    <3> QED
      BY <2>0, <3>1 DEF CapacityInv, BasicInv, TypeOK, SnapshotsSound
  <2>5. NoOvercommit'
    <3> SUFFICES ASSUME NEW o \in Nodes
                 PROVE  Cardinality(Load(o)') <= Slots[o] + QueueLimit[o]
      BY DEF NoOvercommit
    <3>1. CASE o = n
      <4>1. ASSUME NEW q \in Load(o)'
            PROVE  FALSE
        <5>1. q \in Requests /\ dest[q] = n /\ rinst[q] = inst[n] + 1
          BY <2>0, <3>1, <4>1 DEF Load
        <5>2. rinst[q] <= inst[n]
          BY <5>1 DEF CapacityInv, InstancesPast
        <5> QED
          BY <2>1, <5>1, <5>2
      <4>2. Cardinality(Load(o)') = 0
        BY <4>1, FS_EmptySet
      <4> QED
        BY <1>0, <4>2
    <3>2. CASE o # n
      <4>1. Load(o)' = Load(o)
        BY <2>0, <3>2 DEF Load, Reserved
      <4> QED
        BY <4>1 DEF CapacityInv, NoOvercommit
    <3> QED
      BY <3>1, <3>2
  <2> QED
    BY <2>2, <2>3, <2>4, <2>5 DEF CapacityInv
<1> QED
  BY <1>1, <1>2, <1>3, <1>4, <1>5 DEF NodeStep

\* The gateway never commits more requests to a node process than its permits and
\* its queue can take, however polls, arrivals, admissions and restarts interleave
\* (Scheduler._select over _unaccounted_reservations and the last snapshot).
THEOREM NodesNotOvercommitted == Spec => []NoOvercommit
<1>1. Init /\ BasicInv => CapacityInv
  <2> SUFFICES ASSUME Init, BasicInv
               PROVE  CapacityInv
    OBVIOUS
  <2>1. /\ \A n \in Nodes : Running(n) = {} /\ Load(n) = {} /\ local[n] = 0
        /\ \A n \in Nodes : Slots[n] \in Nat /\ QueueLimit[n] \in Nat
    BY FleetAssumption DEF Init, Running, Load
  <2>2. PermitsKept /\ NoOvercommit
    <3>1. \A n \in Nodes : Used(n) = 0 /\ Cardinality(Load(n)) = 0
      BY <2>1, FS_EmptySet DEF Used
    <3> QED
      BY <2>1, <3>1 DEF PermitsKept, NoOvercommit
  <2>3. InstancesPast /\ SnapshotsSound
    <3>1. /\ \A r \in Requests : dest[r] = None /\ None \notin Nodes
          /\ \A n \in Nodes : record[n] = None /\ poll[n].stage = "idle"
      BY FleetAssumption DEF Init
    <3> QED
      BY <3>1 DEF InstancesPast, SnapshotsSound
  <2> QED
    BY <2>2, <2>3 DEF CapacityInv
<1>2. CapacityInv /\ BasicInv' /\ [Next]_vars => CapacityInv'
  <2> SUFFICES ASSUME CapacityInv, BasicInv', [Next]_vars
               PROVE  CapacityInv'
    OBVIOUS
  <2>1. CASE UNCHANGED vars
    BY <2>1 DEF CapacityInv, InstancesPast, PermitsKept, SnapshotsSound, SnapshotSound,
                NoOvercommit, Load, Reserved, Used, Running, vars
  <2>2. CASE Next
    BY <2>2, RequestKeeps, PollKeeps, NodeKeeps DEF Next
  <2> QED
    BY <2>1, <2>2
<1>3. CapacityInv => NoOvercommit
  BY DEF CapacityInv
<1> QED
  BY <1>1, <1>2, <1>3, BasicHolds, PTL DEF Spec
=============================================================================
