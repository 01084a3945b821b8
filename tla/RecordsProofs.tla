--------------------------- MODULE RecordsProofs ---------------------------
(***************************************************************************)
(* Proofs about the three state machines that keep account of requests:    *)
(* the gateway's routes, the manager's responses and its usage ledger, for *)
(* any number of requests, models and events, any limits, and any number   *)
(* of failures and exits.                                                  *)
(***************************************************************************)
EXTENDS FleetRoutes, CudaResponses, CudaUsage, FiniteSetTheorems, TLAPS

-----------------------------------------------------------------------------
(* The ownership of a routed attempt (FleetRoutes)                         *)

Owning == {"starting", "sending", "streaming"}

\* What the request task and the cleanup task hold between them.
Ownership(r) ==
    /\ held[r] => (task[r] \in Owning /\ finish[r] = "none") \/ finish[r] = "release"
    /\ open[r] => \/ task[r] = "streaming" /\ finish[r] = "none"
                  \/ finish[r] \in {"release", "close"}
    /\ task[r] \in Owning => finish[r] = "none"
    /\ task[r] = "cleanup" => finish[r] # "none"

\* What the insert task and the cleanup task have done to the row.
RowHistory(r) ==
    /\ ~up => start[r] = "none"
    /\ task[r] = "new" => start[r] = "none" /\ row[r] = "absent" /\ finish[r] = "none"
    /\ (task[r] \in Owning \/ finish[r] # "none") => start[r] # "none"
    /\ (start[r] # "none" /\ finish[r] = "none") => task[r] \in Owning
    /\ start[r] = "pending" => row[r] = "absent" /\ finish[r] \notin {"done", "failed"}
    /\ (start[r] # "none" /\ finish[r] # "done") => row[r] \in {"absent", "open"}

\* An open row of the running process is still going to be completed.
RowOwned(r) ==
    (up /\ row[r] = "open") => start[r] = "inserted" /\ finish[r] # "done"

RouteInv == /\ RoutesTypeOK
            /\ \A r \in Routes : Ownership(r) /\ RowHistory(r) /\ RowOwned(r)

\* The initial state satisfies the invariant.
LEMMA RouteInit == RoutesInit => RouteInv
<1> SUFFICES ASSUME RoutesInit PROVE RouteInv OBVIOUS
<1>1. RoutesTypeOK
  BY RoutesAssumption DEF RoutesInit, RoutesTypeOK, TaskState, StartState, FinishState, Results,
     Failures, RowState
<1>2. \A r \in Routes : Ownership(r) /\ RowHistory(r) /\ RowOwned(r)
  BY DEF RoutesInit, Ownership, RowHistory, RowOwned, Owning
<1> QED BY <1>1, <1>2 DEF RouteInv

\* Pruning only deletes rows.
LEMMA PrunedRows ==
    ASSUME NEW table \in [Routes -> RowState]
    PROVE  /\ Pruned(table) \in [Routes -> RowState]
           /\ \A q \in Routes : Pruned(table)[q] \in {table[q], "absent"}
BY DEF Pruned, RowState

\* Every step keeps the types.
LEMMA RouteTypeNext == RoutesTypeOK /\ [RoutesNext]_routesVars => RoutesTypeOK'
<1> SUFFICES ASSUME RoutesTypeOK, [RoutesNext]_routesVars PROVE RoutesTypeOK' OBVIOUS
<1> USE DEF RoutesTypeOK, TaskState, StartState, FinishState, Results, Failures, RowState
<1>1. ASSUME NEW r \in Routes, Begin(r) PROVE RoutesTypeOK'
  BY <1>1 DEF Begin
<1>2. ASSUME NEW r \in Routes, Send(r) PROVE RoutesTypeOK'
  BY <1>2 DEF Send
<1>3. ASSUME NEW r \in Routes, SendFails(r) PROVE RoutesTypeOK'
  BY <1>3 DEF SendFails, Complete
<1>4. ASSUME NEW r \in Routes, Headers(r) PROVE RoutesTypeOK'
  BY <1>4, SMTT(40) DEF Headers, Complete
<1>5. ASSUME NEW r \in Routes, StreamEnds(r) PROVE RoutesTypeOK'
  BY <1>5 DEF StreamEnds, Complete
<1>6. ASSUME NEW r \in Routes, Cancelled(r) PROVE RoutesTypeOK'
  BY <1>6 DEF Cancelled, Complete
<1>7. ASSUME NEW r \in Routes, CleanupAwaited(r) PROVE RoutesTypeOK'
  BY <1>7 DEF CleanupAwaited
<1>8. ASSUME NEW r \in Routes, InsertRow(r) PROVE RoutesTypeOK'
  <2>1. [row EXCEPT ![r] = "open"] \in [Routes -> RowState]
    OBVIOUS
  <2>3. Pruned([row EXCEPT ![r] = "open"]) \in [Routes -> RowState]
    BY ONLY <2>1, PrunedRows
  <2>2. row' \in [Routes -> RowState]
    BY <1>8, <2>3 DEF InsertRow
  <2> QED BY <1>8, <2>2 DEF InsertRow
<1>9. ASSUME NEW r \in Routes, CleanupStep(r) PROVE RoutesTypeOK'
  BY <1>9, ZenonT(60) DEF CleanupStep, ReleaseReservation, CloseResponse, FinishRow
<1>10. CASE Crash
  <2>1. crashes' \in 0..MaxCrashes
    BY <1>10, RoutesAssumption DEF Crash
  <2> QED BY <1>10, <2>1 DEF Crash
<1>11. CASE Restart
  BY <1>11 DEF Restart
<1>12. CASE UNCHANGED routesVars
  BY <1>12 DEF routesVars
<1> QED BY <1>1, <1>2, <1>3, <1>4, <1>5, <1>6, <1>7, <1>8, <1>9, <1>10, <1>11, <1>12
    DEF RoutesNext, TaskStep

\* Every step keeps the ownership and row invariants of every attempt.
LEMMA RouteNext == RouteInv /\ [RoutesNext]_routesVars => RouteInv'
<1> SUFFICES ASSUME RouteInv, [RoutesNext]_routesVars PROVE RouteInv' OBVIOUS
<1>0. RoutesTypeOK'
  BY RouteTypeNext DEF RouteInv
<1> SUFFICES ASSUME NEW q \in Routes PROVE (Ownership(q) /\ RowHistory(q) /\ RowOwned(q))'
  BY <1>0 DEF RouteInv
<1> DEFINE P == Ownership(q) /\ RowHistory(q) /\ RowOwned(q)
<1>p. P /\ RoutesTypeOK
  BY DEF RouteInv
<1> USE <1>p DEF Ownership, RowHistory, RowOwned, Owning, RoutesTypeOK, TaskState, StartState,
                 FinishState
<1>1. ASSUME NEW r \in Routes, Begin(r) PROVE P'
  BY <1>1 DEF Begin
<1>2. ASSUME NEW r \in Routes, Send(r) PROVE P'
  BY <1>2 DEF Send
<1>3. ASSUME NEW r \in Routes, SendFails(r) PROVE P'
  BY <1>3 DEF SendFails, Complete, FirstCompletion
<1>4. ASSUME NEW r \in Routes, Headers(r) PROVE P'
  BY <1>4 DEF Headers, Complete, FirstCompletion
<1>5. ASSUME NEW r \in Routes, StreamEnds(r) PROVE P'
  BY <1>5 DEF StreamEnds, Complete, FirstCompletion
<1>6. ASSUME NEW r \in Routes, Cancelled(r) PROVE P'
  BY <1>6 DEF Cancelled, Complete, FirstCompletion
<1>7. ASSUME NEW r \in Routes, CleanupAwaited(r) PROVE P'
  BY <1>7 DEF CleanupAwaited
<1>8. ASSUME NEW r \in Routes, InsertRow(r) PROVE P'
  <2>1. CASE UNCHANGED row
    BY <1>8, <2>1 DEF InsertRow
  <2>2. CASE row' = Pruned([row EXCEPT ![r] = "open"]) /\ start' = [start EXCEPT ![r] = "inserted"]
    <3>1. [row EXCEPT ![r] = "open"] \in [Routes -> RowState]
      BY DEF RowState
    <3>2. row'[q] \in {[row EXCEPT ![r] = "open"][q], "absent"}
      BY <2>2, <3>1, PrunedRows
    <3> QED BY <1>8, <2>2, <3>2 DEF InsertRow
  <2> QED BY <1>8, <2>1, <2>2 DEF InsertRow
<1>9. ASSUME NEW r \in Routes, ReleaseReservation(r) PROVE P'
  BY <1>9 DEF ReleaseReservation
<1>10. ASSUME NEW r \in Routes, CloseResponse(r) PROVE P'
  BY <1>10 DEF CloseResponse
<1>11. ASSUME NEW r \in Routes, FinishRow(r) PROVE P'
  <2>1. CASE q # r
    BY <1>11, <2>1 DEF FinishRow
  <2>2. CASE q = r
    <3>1. /\ finish[q] = "row" /\ start'[q] = start[q] /\ start[q] # "pending"
          /\ task'[q] = task[q] /\ held'[q] = held[q] /\ open'[q] = open[q] /\ up' = up
      BY <1>11, <2>2 DEF FinishRow, InsertEnded
    <3>2. result[q] # "open"
      BY DEF Results, Failures
    <3>3. row[q] \in {"absent", "open"}
      BY <3>1
    <3>4. \/ finish'[q] = "failed" /\ row'[q] = row[q]
          \/ finish'[q] = "done" /\ (row[q] = "open" /\ start[q] = "inserted" => row'[q] # "open")
                                 /\ (row[q] = "absent" => row'[q] = "absent")
      BY <1>11, <2>2, <3>2 DEF FinishRow, NothingToFinish
    <3> QED BY <3>1, <3>3, <3>4
  <2> QED BY <2>1, <2>2
<1>12. CASE Crash
  BY <1>12 DEF Crash
<1>13. CASE Restart
  BY <1>13 DEF Restart, LeftOpen
<1>14. CASE UNCHANGED routesVars
  BY <1>14 DEF routesVars
<1> HIDE <1>p DEF Ownership, RowHistory, RowOwned, Owning, RoutesTypeOK, TaskState, StartState,
                  FinishState
<1> QED BY <1>1, <1>2, <1>3, <1>4, <1>5, <1>6, <1>7, <1>8, <1>9, <1>10, <1>11, <1>12, <1>13,
           <1>14 DEF RoutesNext, TaskStep, CleanupStep

\* The inductive invariant holds in every reachable state.
LEMMA RouteInvariant == RoutesSpec => []RouteInv
BY RouteInit, RouteNext, PTL DEF RoutesSpec

\* The type invariant holds in every reachable state.
THEOREM RoutesTypeCorrect == RoutesSpec => []RoutesTypeOK
<1>1. RouteInv => RoutesTypeOK
  BY DEF RouteInv
<1> QED BY <1>1, RouteInvariant, PTL

\* No cancellation, at whatever suspension and however often, strands a scheduler
\* reservation or an upstream response.
THEOREM OwnershipSafe == RoutesSpec => []NothingStranded
<1>1. RouteInv => NothingStranded
  BY DEF RouteInv, NothingStranded, Ownership, Owning
<1> QED BY <1>1, RouteInvariant, PTL

\* An open row of the running gateway has a live attempt or cleanup task behind it, or
\* the store has refused its completion.
THEOREM OpenRowsSafe == RoutesSpec => []OpenRowOwned
<1>1. RouteInv => OpenRowOwned
  BY DEF RouteInv, OpenRowOwned, RowOwned, RowHistory, Owning
<1> QED BY <1>1, RouteInvariant, PTL

\* A step rewrites no completed row.
LEMMA RowFinalStep ==
    RouteInv /\ [RoutesNext]_routesVars =>
      \A r \in Routes : row[r] \notin {"absent", "open"} => row'[r] \in {row[r], "absent"}
<1> SUFFICES ASSUME RouteInv, [RoutesNext]_routesVars, NEW q \in Routes, row[q] \notin {"absent", "open"}
             PROVE  row'[q] \in {row[q], "absent"}
  OBVIOUS
<1>1. RoutesTypeOK /\ RowHistory(q)
  BY DEF RouteInv
<1>2. CASE row' = row
  BY <1>2
<1>3. ASSUME NEW r \in Routes, InsertRow(r), row' = Pruned([row EXCEPT ![r] = "open"])
      PROVE  row'[q] \in {row[q], "absent"}
  <2>1. q # r
    BY <1>1, <1>3 DEF InsertRow, RowHistory
  <2>2. [row EXCEPT ![r] = "open"] \in [Routes -> RowState]
    BY <1>1 DEF RowState, RoutesTypeOK
  <2>3. [row EXCEPT ![r] = "open"][q] = row[q]
    BY <1>1, <2>1 DEF RoutesTypeOK
  <2> QED BY <1>3, <2>2, <2>3, PrunedRows
<1>4. ASSUME NEW r \in Routes, FinishRow(r) PROVE row'[q] \in {row[q], "absent"}
  BY <1>1, <1>4 DEF FinishRow, RowHistory, RoutesTypeOK, StartState, FinishState
<1>5. CASE Restart
  BY <1>1, <1>5 DEF Restart, LeftOpen
<1>6. row' = row \/ Restart \/ (\E r \in Routes : FinishRow(r))
        \/ (\E r \in Routes : InsertRow(r) /\ row' = Pruned([row EXCEPT ![r] = "open"]))
  BY DEF RoutesNext, TaskStep, CleanupStep, Begin, Send, SendFails, Headers, StreamEnds, Cancelled,
         CleanupAwaited, InsertRow, ReleaseReservation, CloseResponse, Crash, routesVars
<1> QED BY <1>2, <1>3, <1>4, <1>5, <1>6

\* The first completion of a route is final, across later completions and restarts.
THEOREM RowsFinal == RoutesSpec => RowFinal
<1>1. RouteInv /\ [RoutesNext]_routesVars =>
        [\A r \in Routes : row[r] \notin {"absent", "open"} => row'[r] \in {row[r], "absent"}]_routesVars
  BY RowFinalStep
<1> QED BY <1>1, RouteInvariant, PTL DEF RoutesSpec, RowFinal

-----------------------------------------------------------------------------
(* Requests counted for the model that served them (CudaResponses)         *)

\* The phases in which a response has its lease for certain.
LeasedPhase == {"opening", "streaming", "reading", "recording"}

\* A response that is under way has its lease; a lease is on the resident, since no
\* engine is stopped beneath one.
LeaseInv ==
    \A r \in Requests :
        /\ phase[r] \in LeasedPhase => "lease" \in holds[r]
        /\ "lease" \in holds[r] => alias[r] = resident /\ resident # NoModel
        /\ phase[r] = "opening" => holds[r] = {"lease"}
        /\ holds[r] = {} <=> phase[r] \in {"idle", "done"}

\* The buffered requests are the resident's, so that counting them for it is right;
\* a request that was not made yet is counted nowhere.
CountInv ==
    /\ \A r \in delta : alias[r] = resident /\ resident # NoModel
    /\ \A r \in Requests : phase[r] = "idle" => r \notin delta
    /\ \A r \in Requests : \A a \in Aliases : phase[r] = "idle" => r \notin credited[a]

\* The types alone
AnswerTypes ==
    /\ phase \in [Requests -> Phase]
    /\ after \in [Requests -> {"streaming", "finishing"}]
    /\ alias \in [Requests -> Aliases \cup {NoModel}]
    /\ total \in [Requests -> 0..MaxTotals]
    /\ recorded \in [Requests -> 0..MaxTotals]
    /\ holds \in [Requests -> SUBSET {"lease", "upstream"}]
    /\ resident \in Aliases \cup {NoModel}
    /\ delta \in SUBSET Requests
    /\ credited \in [Aliases -> SUBSET Requests]
    /\ admits \in BOOLEAN

AnswerInv == AnswerTypes /\ LeaseInv /\ CountInv /\ CreditedToServer

-----------------------------------------------------------------------------
\* The initial state satisfies the invariant.
LEMMA AnswerInit == ResponsesInit => AnswerInv
  <1> SUFFICES ASSUME ResponsesInit PROVE AnswerInv
    OBVIOUS
  <1>1. AnswerTypes
    BY ResponsesAssumption DEF ResponsesInit, AnswerTypes, Phase
  <1>2. LeaseInv /\ CountInv /\ CreditedToServer
    BY DEF ResponsesInit, LeaseInv, CountInv, CreditedToServer, LeasedPhase
  <1> QED
    BY <1>1, <1>2 DEF AnswerInv

\* A step that leaves alias, resident and credited alone, takes a request r out of a
\* phase with a lease and keeps its lease, and counts r if anything, is harmless:
\* every step of a response between its admission and its cleanup is of this kind.
LEMMA ResponseGoesOn ==
  ASSUME AnswerInv, AnswerTypes', NEW r \in Requests, NEW p \in Phase \ {"idle", "opening", "done"},
         phase[r] \in LeasedPhase,
         phase' = [phase EXCEPT ![r] = p],
         \/ UNCHANGED holds
         \/ holds' = [holds EXCEPT ![r] = {"lease", "upstream"}],
         delta' = delta \/ delta' = delta \cup {r},
         UNCHANGED <<alias, resident, credited>>
  PROVE  AnswerInv'
  <1> USE DEF AnswerInv, AnswerTypes
  <1>1. "lease" \in holds[r] /\ alias[r] = resident /\ resident # NoModel
    BY DEF LeaseInv
  <1>2. LeaseInv'
    <2> SUFFICES ASSUME NEW q \in Requests
                 PROVE  /\ phase'[q] \in LeasedPhase => "lease" \in holds'[q]
                        /\ "lease" \in holds'[q] => alias'[q] = resident' /\ resident' # NoModel
                        /\ phase'[q] = "opening" => holds'[q] = {"lease"}
                        /\ holds'[q] = {} <=> phase'[q] \in {"idle", "done"}
      BY DEF LeaseInv
    <2>1. CASE q = r
      <3>1. phase'[q] = p /\ "lease" \in holds'[q]
        BY <1>1, <2>1
      <3> QED
        BY <1>1, <2>1, <3>1
    <2>2. CASE q # r
      <3>1. phase'[q] = phase[q] /\ holds'[q] = holds[q] /\ alias'[q] = alias[q]
        BY <2>2
      <3> QED
        BY <3>1 DEF LeaseInv
    <2> QED
      BY <2>1, <2>2
  <1>3. CountInv'
    BY <1>1 DEF CountInv, LeasedPhase
  <1>4. CreditedToServer'
    BY DEF CreditedToServer
  <1> QED
    BY <1>2, <1>3, <1>4

\* The steps of a response after its admission.
LEMMA ResponseInv == ASSUME AnswerInv, NEW r \in Requests, ResponseStep(r) \/ ResponseCancelled(r)
                     PROVE  AnswerInv'
  <1> USE ResponsesAssumption DEF AnswerInv, AnswerTypes
  <1>1. CASE Opened(r)
    <2>1. PICK p \in {"streaming", "reading"} : phase' = [phase EXCEPT ![r] = p]
      BY <1>1 DEF Opened
    <2>2. AnswerTypes'
      BY <1>1, <2>1 DEF Opened, usage, counting, Phase
    <2> QED
      BY <1>1, <2>1, <2>2, ResponseGoesOn DEF Opened, usage, counting, LeasedPhase, Phase
  <1>2. CASE OpenFails(r)
    <2>1. AnswerTypes'
      BY <1>2 DEF OpenFails, usage, counting, Phase
    <2> QED
      BY <1>2, <2>1, ResponseGoesOn DEF OpenFails, usage, counting, LeasedPhase, Phase
  <1>3. CASE StreamUsage(r)
    <2>1. AnswerTypes' /\ (phase' = [phase EXCEPT ![r] = "recording"] \/ UNCHANGED phase)
      BY <1>3 DEF StreamUsage, Record, Phase
    <2>2. phase' = [phase EXCEPT ![r] = "recording"] \/ phase' = [phase EXCEPT ![r] = "streaming"]
      BY <1>3, <2>1 DEF StreamUsage
    <2>3. delta' = delta
      BY <1>3 DEF StreamUsage, Record
    <2> QED
      BY <1>3, <2>1, <2>2, <2>3, ResponseGoesOn DEF StreamUsage, LeasedPhase, Phase
  <1>4. CASE ResponseEnds(r)
    <2>1. AnswerTypes'
      BY <1>4 DEF ResponseEnds, Record, GoOn, FinalTotals, Phase
    <2>2. /\ phase' = [phase EXCEPT ![r] = "recording"] \/ phase' = [phase EXCEPT ![r] = "finishing"]
          /\ delta' = delta \/ delta' = delta \cup {r}
      BY <1>4 DEF ResponseEnds, Record, GoOn
    <2> QED
      BY <1>4, <2>1, <2>2, ResponseGoesOn DEF ResponseEnds, LeasedPhase, Phase
  <1>5. CASE BodyRead(r)
    <2>1. AnswerTypes'
      BY <1>5 DEF BodyRead, Record, GoOn, usage, Phase
    <2>2. /\ phase' = [phase EXCEPT ![r] = "recording"] \/ phase' = [phase EXCEPT ![r] = "finishing"]
          /\ delta' = delta \/ delta' = delta \cup {r}
      BY <1>5 DEF BodyRead, Record, GoOn
    <2> QED
      BY <1>5, <2>1, <2>2, ResponseGoesOn DEF BodyRead, LeasedPhase, Phase
  <1>6. CASE Broken(r)
    <2>1. AnswerTypes'
      BY <1>6 DEF Broken, GoOn, usage, Phase
    <2> QED
      BY <1>6, <2>1, ResponseGoesOn DEF Broken, GoOn, LeasedPhase, Phase
  <1>7. CASE Persisted(r)
    <2>1. after[r] \in {"streaming", "finishing"}
      OBVIOUS
    <2>2. AnswerTypes'
      BY <1>7, <2>1 DEF Persisted, GoOn, usage, Phase
    <2>3. /\ phase' = [phase EXCEPT ![r] = after[r]]
          /\ delta' = delta \/ delta' = delta \cup {r}
      BY <1>7 DEF Persisted, GoOn
    <2>4. after[r] \in Phase \ {"idle", "opening", "done"}
      BY <2>1 DEF Phase
    <2> QED
      BY <1>7, <2>2, <2>3, <2>4, ResponseGoesOn DEF Persisted, LeasedPhase
  <1>8. CASE ResponseCancelled(r)
    <2>1. AnswerTypes'
      BY <1>8 DEF ResponseCancelled, usage, counting
    <2> QED
      BY <1>8, <2>1 DEF ResponseCancelled, usage, counting, LeaseInv, CountInv, CreditedToServer
  <1>9. ASSUME NEW x \in {"lease", "upstream"}, CleanUp(r, x)
        PROVE  AnswerInv'
    <2>1. AnswerTypes'
      BY <1>9 DEF CleanUp, usage, counting, Phase
    <2>2. LeaseInv'
      BY <1>9 DEF CleanUp, usage, counting, LeaseInv, LeasedPhase
    <2>3. CountInv' /\ CreditedToServer'
      BY <1>9 DEF CleanUp, usage, counting, CountInv, CreditedToServer
    <2> QED
      BY <2>1, <2>2, <2>3
  <1> QED
    BY <1>1, <1>2, <1>3, <1>4, <1>5, <1>6, <1>7, <1>8, <1>9 DEF ResponseStep

\* An admission gives a fresh request a lease on the resident.
LEMMA AdmitInv == ASSUME AnswerInv, NEW r \in Requests, Admit(r) PROVE AnswerInv'
  <1> USE DEF AnswerInv, AnswerTypes
  <1>1. AnswerTypes'
    BY DEF Admit, usage, counting, Phase
  <1>2. LeaseInv'
    BY DEF Admit, usage, counting, LeaseInv, LeasedPhase
  <1>3. CountInv' /\ CreditedToServer'
    BY DEF Admit, usage, counting, CountInv, CreditedToServer
  <1> QED
    BY <1>1, <1>2, <1>3

\* A flush counts the buffered requests for the resident, which served them, and
\* leaves in the buffer none that was not there.
LEMMA FlushCountInv ==
  ASSUME AnswerInv, NEW d \in {delta, {}}, FlushCount(d)
  PROVE  /\ credited' \in [Aliases -> SUBSET Requests]
         /\ \A a \in Aliases : \A r \in credited'[a] :
                alias[r] = a /\ phase[r] # "idle" /\ r \in Requests
  <1> USE DEF AnswerInv, AnswerTypes
  <1>1. CASE UNCHANGED credited
    BY <1>1 DEF CountInv, CreditedToServer
  <1>2. CASE resident # NoModel /\ Bump
    BY <1>2 DEF Bump, CountInv, CreditedToServer
  <1> QED
    BY <1>1, <1>2 DEF FlushCount

\* Flushing, engines and the exit
LEMMA EngineInv ==
  ASSUME AnswerInv, \/ FlushDelta \/ KillEngine \/ StopsAdmitting
              \/ \E a \in Aliases : StartEngine(a)
  PROVE  AnswerInv'
  <1> USE DEF AnswerInv, AnswerTypes
  <1>1. CASE FlushDelta
    <2>1. PICK d \in {delta, {}} : FlushCount(d) /\ delta' = d
      BY <1>1 DEF FlushDelta
    <2>2. /\ credited' \in [Aliases -> SUBSET Requests]
          /\ \A a \in Aliases : \A r \in credited'[a] :
                 alias[r] = a /\ phase[r] # "idle" /\ r \in Requests
      BY <2>1, FlushCountInv
    <2> QED
      BY <1>1, <2>1, <2>2 DEF FlushDelta, usage, LeaseInv, CountInv, CreditedToServer
  <1>2. CASE KillEngine
    <2>1. PICK d \in {delta, {}} : FlushCount(d) /\ delta' = {}
      BY <1>2 DEF KillEngine, CountAfterKill
    <2>2. /\ credited' \in [Aliases -> SUBSET Requests]
          /\ \A a \in Aliases : \A r \in credited'[a] :
                 alias[r] = a /\ phase[r] # "idle" /\ r \in Requests
      BY <2>1, FlushCountInv
    <2>3. LeaseInv'
      BY <1>2 DEF KillEngine, Leases, LeaseInv, usage
    <2> QED
      BY <1>2, <2>1, <2>2, <2>3 DEF KillEngine, usage, CountInv, CreditedToServer
  <1>3. CASE StopsAdmitting
    BY <1>3 DEF StopsAdmitting, usage, counting, LeaseInv, CountInv, CreditedToServer
  <1>4. ASSUME NEW a \in Aliases, StartEngine(a) PROVE AnswerInv'
    <2> QED
      BY <1>4 DEF StartEngine, usage, LeaseInv, CountInv, CreditedToServer
  <1> QED
    BY <1>1, <1>2, <1>3, <1>4

-----------------------------------------------------------------------------
\* AnswerInv is an invariant.
LEMMA AnswerInvariance == ResponsesSpec => []AnswerInv
  <1>1. ASSUME AnswerInv, [ResponsesNext]_responsesVars PROVE AnswerInv'
    <2>1. CASE ResponsesNext
      BY <1>1, <2>1, AdmitInv, ResponseInv, EngineInv DEF ResponsesNext
    <2>2. CASE UNCHANGED responsesVars
      BY <1>1, <2>2 DEF responsesVars, AnswerInv, AnswerTypes, LeaseInv, CountInv, CreditedToServer
    <2> QED
      BY <1>1, <2>1, <2>2
  <1> QED
    BY <1>1, AnswerInit, PTL DEF ResponsesSpec

\* Every variable keeps its type, and a response holds something exactly while it is
\* under way: its cleanup never ends it with a lease or a connection left.
THEOREM ResponsesTypeCorrect == ResponsesSpec => []ResponsesTypeOK
  <1>1. AnswerInv => ResponsesTypeOK
    BY DEF AnswerInv, AnswerTypes, ResponsesTypeOK, LeaseInv
  <1> QED
    BY <1>1, AnswerInvariance, PTL

\* Requests are counted for the model that served them, whatever flush fails and
\* whichever engine comes next (_kill_engine drops a count it could not flush).
THEOREM CreditSafe == ResponsesSpec => []CreditedToServer
  <1>1. AnswerInv => CreditedToServer
    BY DEF AnswerInv
  <1> QED
    BY <1>1, AnswerInvariance, PTL

-----------------------------------------------------------------------------
(* Usage events kept, and each summed once (CudaUsage)                     *)

\* The types of what these proofs are about; the outbox plays no part.
LedgerTypes ==
    /\ event \in [Events -> {"none", "recording", "settled"}]
    /\ retry \in Seq(Events)
    /\ life \in Life
    /\ rows \in SUBSET Events
    /\ lost \in SUBSET Events
    /\ totals \in Nat

LedgerInv == LedgerTypes /\ UsageKept /\ CountedOnce

-----------------------------------------------------------------------------
\* The members of a sequence of events are events.
LEMMA MembersType == ASSUME NEW q \in Seq(Events) PROVE Members(q) \in SUBSET Events
  BY DEF Members

\* Appending adds a member and keeps the others.
LEMMA MembersAppend ==
  ASSUME NEW q \in Seq(Events), NEW e \in Events
  PROVE  Members(q) \cup {e} \subseteq Members(Append(q, e))
  <1>1. /\ Len(Append(q, e)) = Len(q) + 1 /\ Len(q) \in Nat
        /\ Append(q, e)[Len(q) + 1] = e
        /\ \A i \in 1..Len(q) : Append(q, e)[i] = q[i]
    OBVIOUS
  <1>2. e \in Members(Append(q, e))
    BY <1>1 DEF Members
  <1>3. ASSUME NEW i \in 1..Len(q) PROVE q[i] \in Members(Append(q, e))
    BY <1>1 DEF Members
  <1> QED
    BY <1>2, <1>3 DEF Members

\* A committed transaction adds its events to the table and sums each new one once:
\* what the table already has is not summed again (ON CONFLICT DO NOTHING).
LEMMA CommitCounts ==
  ASSUME LedgerInv, NEW q \in Seq(Events), Commit(q)
  PROVE  /\ rows' = rows \cup Members(q) /\ rows' \in SUBSET Events
         /\ totals' \in Nat /\ CountedOnce'
  <1> DEFINE new == Members(q) \ rows
  <1>1. rows' = rows \cup Members(q) /\ rows' \in SUBSET Events
    BY MembersType DEF Commit, LedgerInv, LedgerTypes
  <1>2. IsFiniteSet(rows) /\ IsFiniteSet(new)
    <2>1. rows \subseteq Events /\ new \subseteq Events
      BY MembersType DEF LedgerInv, LedgerTypes
    <2> QED
      BY ONLY <2>1, UsageAssumption, FS_Subset
  <1>3. Cardinality(rows \cup new)
          = Cardinality(rows) + Cardinality(new) - Cardinality(rows \cap new)
    BY <1>2, FS_Union
  <1>4. rows \cap new = {} /\ rows \cup new = rows'
    BY <1>1
  <1>5. Cardinality(rows \cap new) = 0
    BY <1>4, FS_EmptySet
  <1>6. Cardinality(rows) \in Nat /\ Cardinality(new) \in Nat
    BY <1>2, FS_CardinalityType
  <1>7. totals' = totals + Cardinality(new)
    BY DEF Commit, Inserted
  <1>8. totals = Cardinality(rows)
    BY DEF LedgerInv, CountedOnce
  <1> HIDE DEF new
  <1>9. totals' = Cardinality(rows') /\ totals' \in Nat
    <2>1. Cardinality(rows') = Cardinality(rows) + Cardinality(new)
      <3> DEFINE all == Cardinality(rows \cup new)
                 both == Cardinality(rows \cap new)
                 old == Cardinality(rows)
                 fresh == Cardinality(new)
      <3>1. all = old + fresh - both /\ both = 0 /\ old \in Nat /\ fresh \in Nat
        BY <1>3, <1>5, <1>6
      <3>2. all = Cardinality(rows')
        BY <1>4, Zenon
      <3> HIDE DEF all, both, old, fresh
      <3>3. all = old + fresh
        BY ONLY <3>1
      <3> QED
        BY <3>2, <3>3, Zenon DEF old, fresh
    <2> QED
      BY ONLY <2>1, <1>6, <1>7, <1>8
  <1> QED
    BY <1>1, <1>9 DEF CountedOnce

\* A transaction that raised was committed or was not.
LEMMA FailCounts ==
  ASSUME LedgerInv, NEW q \in Seq(Events), Fail(q)
  PROVE  rows \subseteq rows' /\ rows' \in SUBSET Events /\ totals' \in Nat /\ CountedOnce'
  <1>1. CASE Commit(q)
    BY <1>1, CommitCounts
  <1>2. CASE UNCHANGED store
    BY <1>2 DEF store, LedgerInv, LedgerTypes, CountedOnce
  <1> QED
    BY <1>1, <1>2 DEF Fail

\* A flush keeps every event of the table and every event of the retry buffer.
LEMMA FlushKeeps ==
  ASSUME LedgerInv, Flush
  PROVE  /\ rows \cup Members(retry) \subseteq rows' \cup Members(retry')
         /\ rows' \in SUBSET Events /\ totals' \in Nat /\ CountedOnce'
         /\ retry' \in Seq(Events)
  <1> retry \in Seq(Events)
    BY DEF LedgerInv, LedgerTypes
  <1>1. CASE UNCHANGED <<retry, store>>
    BY <1>1 DEF store, LedgerInv, LedgerTypes, CountedOnce
  <1>2. CASE Commit(retry) /\ retry' = <<>>
    BY <1>2, CommitCounts
  <1>3. CASE Fail(retry) /\ retry' = retry
    BY <1>3, FailCounts
  <1> QED
    BY <1>1, <1>2, <1>3 DEF Flush, RetryAfterFailure

-----------------------------------------------------------------------------
\* The initial state satisfies the invariant.
LEMMA LedgerInit == UsageInit => LedgerInv
  <1> SUFFICES ASSUME UsageInit PROVE LedgerInv
    OBVIOUS
  <1>1. LedgerTypes /\ UsageKept
    BY DEF UsageInit, LedgerTypes, Life, UsageKept
  <1>2. CountedOnce
    BY FS_EmptySet DEF UsageInit, CountedOnce
  <1> QED
    BY <1>1, <1>2 DEF LedgerInv

\* A step that changes neither the events nor what keeps them
LEMMA Harmless ==
  ASSUME LedgerInv, life' \in Life, UNCHANGED <<event, retry, rows, totals, lost>>
  PROVE  LedgerInv'
  BY DEF LedgerInv, LedgerTypes, UsageKept, CountedOnce, Members

\* Flushing at whatever stage
LEMMA FlushInv ==
  ASSUME LedgerInv, life' \in Life, Flush, UNCHANGED <<event, lost>>
  PROVE  LedgerInv'
  <1>1. /\ rows \cup Members(retry) \subseteq rows' \cup Members(retry')
        /\ rows' \in SUBSET Events /\ totals' \in Nat /\ CountedOnce'
        /\ retry' \in Seq(Events)
    BY FlushKeeps
  <1>2. UsageKept'
    BY <1>1 DEF LedgerInv, UsageKept
  <1> QED
    BY <1>1, <1>2 DEF LedgerInv, LedgerTypes

\* The first write of an event ends with the event in the table or in the buffer.
LEMMA PersistInv ==
  ASSUME LedgerInv, NEW e \in Events, RecordUsage(e) \/ PersistCommits(e) \/ PersistFails(e)
  PROVE  LedgerInv'
  <1> <<e>> \in Seq(Events) /\ Members(<<e>>) = {e}
    BY DEF Members
  <1>1. CASE RecordUsage(e)
    BY <1>1 DEF RecordUsage, store, history, LedgerInv, LedgerTypes, UsageKept, CountedOnce, Members
  <1>2. CASE PersistCommits(e)
    <2>1. /\ rows' = rows \cup {e} /\ rows' \in SUBSET Events
          /\ totals' \in Nat /\ CountedOnce'
      BY <1>2, CommitCounts DEF PersistCommits
    <2>2. UsageKept'
      BY <1>2, <2>1 DEF PersistCommits, history, LedgerInv, LedgerTypes, UsageKept, Members
    <2> QED
      BY <1>2, <2>1, <2>2 DEF PersistCommits, history, LedgerInv, LedgerTypes
  <1>3. CASE PersistFails(e)
    <2>1. rows \subseteq rows' /\ rows' \in SUBSET Events /\ totals' \in Nat /\ CountedOnce'
      <3>1. CASE Fail(<<e>>)
        BY <3>1, FailCounts
      <3>2. CASE UNCHANGED store
        BY <3>2 DEF store, LedgerInv, LedgerTypes, CountedOnce
      <3> QED
        BY <1>3, <3>1, <3>2 DEF PersistFails
    <2>2. Members(retry) \cup {e} \subseteq Members(retry') /\ retry' \in Seq(Events)
      <3>1. CASE e \in Members(retry) /\ retry' = retry
        BY <3>1 DEF LedgerInv, LedgerTypes
      <3>2. CASE retry' = Append(retry, e)
        BY <3>2, MembersAppend DEF LedgerInv, LedgerTypes
      <3> QED
        BY <1>3, <3>1, <3>2 DEF PersistFails
    <2>3. UsageKept'
      BY <1>3, <2>1, <2>2 DEF PersistFails, history, LedgerInv, LedgerTypes, UsageKept
    <2> QED
      BY <1>3, <2>1, <2>2, <2>3 DEF PersistFails, history, LedgerInv, LedgerTypes
  <1> QED
    BY <1>1, <1>2, <1>3

\* A process that ends takes its retry buffer along: those events are lost, and no
\* others.
LEMMA ExitInv == ASSUME LedgerInv, Exit PROVE LedgerInv'
  <1>1. LedgerTypes'
    BY DEF Exit, store, LedgerInv, LedgerTypes, Life
  <1>2. UsageKept' /\ CountedOnce'
    BY DEF Exit, store, LedgerInv, LedgerTypes, UsageKept, CountedOnce
  <1> QED
    BY <1>1, <1>2 DEF LedgerInv

\* LedgerInv is an invariant.
LEMMA LedgerInvariance == UsageSpec => []LedgerInv
  <1>1. ASSUME LedgerInv, [UsageNext]_usageVars PROVE LedgerInv'
    <2>1. ASSUME NEW e \in Events, RecordUsage(e) \/ PersistCommits(e) \/ PersistFails(e)
          PROVE  LedgerInv'
      BY <1>1, <2>1, PersistInv
    <2>2. CASE FlushUsage \/ FinalFlush
      BY <1>1, <2>2, FlushInv DEF FlushUsage, FinalFlush, history, LedgerInv, LedgerTypes, Life
    <2>3. CASE CloseCatalog
      <3>1. CASE Flush
        BY <1>1, <2>3, <3>1, FlushInv DEF CloseCatalog, history, Life
      <3>2. CASE UNCHANGED <<retry, store>>
        BY <1>1, <2>3, <3>2, Harmless DEF CloseCatalog, history, store, Life
      <3> QED
        BY <2>3, <3>1, <3>2 DEF CloseCatalog
    <2>4. CASE PgFlushStarts \/ PgDelivered \/ PgFails
      BY <1>1, <2>4, Harmless DEF PgFlushStarts, PgDelivered, PgFails, history, LedgerInv, LedgerTypes, Life
    <2>5. CASE ShutdownBegins \/ ManagerRestarts
      BY <1>1, <2>5, Harmless DEF ShutdownBegins, ManagerRestarts, history, store, Life
    <2>6. CASE Exit
      BY <1>1, <2>6, ExitInv
    <2>7. CASE UNCHANGED usageVars
      BY <1>1, <2>7, Harmless DEF usageVars, LedgerInv, LedgerTypes
    <2> QED
      BY <1>1, <2>1, <2>2, <2>3, <2>4, <2>5, <2>6, <2>7 DEF UsageNext
  <1> QED
    BY <1>1, LedgerInit, PTL DEF UsageSpec

\* A usage event whose first write has ended is in SQLite or in the retry buffer until
\* the process that holds the buffer is gone, whatever transactions fail.
THEOREM UsageSafe == UsageSpec => []UsageKept
  <1>1. LedgerInv => UsageKept
    BY DEF LedgerInv
  <1> QED
    BY <1>1, LedgerInvariance, PTL

\* Each event is summed into the totals once, however often it is retried.
THEOREM TotalsExact == UsageSpec => []CountedOnce
  <1>1. LedgerInv => CountedOnce
    BY DEF LedgerInv
  <1> QED
    BY <1>1, LedgerInvariance, PTL
=============================================================================
