--------------------------- MODULE CudaResponses ---------------------------
(***************************************************************************)
(* The life of a proxied response in the CUDA manager (vllm_manager.py):   *)
(* the lease and the upstream connection it owns, the one usage event it   *)
(* records before it ends, cancellation at every suspension, the request   *)
(* count that is flushed for the resident model, and the engine's          *)
(* teardown.  CudaUsage takes the usage event from here.                   *)
(*                                                                         *)
(* A SQLite transaction that raises may nevertheless have been committed.  *)
(***************************************************************************)
EXTENDS Naturals, FiniteSets

CONSTANTS Requests,   \* inference requests, each made once
          Aliases,    \* models
          NoModel,       \* no model is resident
          MaxTotals   \* usage blocks an event stream may carry

ASSUME ResponsesAssumption ==
    /\ NoModel \notin Aliases
    /\ MaxTotals \in Nat \ {0}

VARIABLES
    phase,      \* [Requests -> Phase]: where a request is suspended
    after,      \* [Requests -> Phase]: where it goes on once its usage is persisted
    alias,      \* wire_profile.alias: the resident its lease is on
    total,      \* the latest totals the usage parser has seen, 0 for none
    recorded,   \* the totals of its usage event, 0 before _usage_recorded
    holds,       \* what it still holds of {"lease", "upstream"}
    resident,   \* _runtime.resident_alias
    delta,      \* the requests counted in _runtime.request_count_delta
    credited,   \* [Aliases -> SUBSET Requests]: counted in models.request_count
    admits        \* whether the coordinator admits: FALSE once the manager is going down

usage    == <<total, recorded>>
counting == <<resident, delta, credited>>
responsesVars == <<phase, after, alias, total, recorded, holds, resident, delta, credited, admits>>

Phase == {"idle", "opening", "streaming", "reading", "recording", "finishing", "done"}

Leases == {r \in Requests : "lease" \in holds[r]}

ResponsesInit ==
    /\ phase = [r \in Requests |-> "idle"]
    /\ after = [r \in Requests |-> "finishing"]
    /\ alias = [r \in Requests |-> NoModel]
    /\ total = [r \in Requests |-> 0]
    /\ recorded = [r \in Requests |-> 0]
    /\ holds = [r \in Requests |-> {}]
    /\ resident = NoModel
    /\ delta = {}
    /\ credited = [a \in Aliases |-> {}]
    /\ admits = TRUE

\* Plausible bugs, each one changing a single definition below.
BugKeepsCount(d) == d
BugCancelledRecording(r) ==
    /\ phase[r] = "recording"
    /\ phase' = [phase EXCEPT ![r] = "done"]
    /\ UNCHANGED <<after, alias, usage, holds, counting, admits>>

-----------------------------------------------------------------------------
(* A response                                                               *)

\* One lease covers the whole response.  The residency coordinator grants it on
\* the resident model while it admits.
Admit(r) ==
    /\ admits /\ resident # NoModel
    /\ phase[r] = "idle"
    /\ phase' = [phase EXCEPT ![r] = "opening"]
    /\ alias' = [alias EXCEPT ![r] = resident]
    /\ holds' = [holds EXCEPT ![r] = {"lease"}]
    /\ UNCHANGED <<after, usage, counting, admits>>

\* _open_upstream returns the engine's headers: an event stream or a body.
Opened(r) ==
    /\ phase[r] = "opening"
    /\ \E p \in {"streaming", "reading"} : phase' = [phase EXCEPT ![r] = p]
    /\ holds' = [holds EXCEPT ![r] = {"lease", "upstream"}]
    /\ UNCHANGED <<after, alias, usage, counting, admits>>

\* The request is refused after admission, the engine does not answer, or the
\* client goes away: cleanup without counting the request.
OpenFails(r) ==
    /\ phase[r] = "opening"
    /\ phase' = [phase EXCEPT ![r] = "finishing"]
    /\ UNCHANGED <<after, alias, usage, holds, counting, admits>>

\* The request goes on at p; _finish and _proxy's finally count it as they start.
GoOn(r, p) ==
    /\ phase' = [phase EXCEPT ![r] = p]
    /\ delta' = IF p = "finishing" THEN delta \cup {r} ELSE delta

\* record_usage: the response's usage event is created and persisted in a thread.
Record(r, n, p) ==
    /\ recorded' = [recorded EXCEPT ![r] = n]
    /\ phase' = [phase EXCEPT ![r] = "recording"]
    /\ after' = [after EXCEPT ![r] = p]
    /\ UNCHANGED delta

\* _wrap_stream meets a usage block.  Not every block completes the route's usage;
\* one that does is recorded before it is forwarded, unless one was before.
StreamUsage(r) ==
    /\ phase[r] = "streaming" /\ total[r] < MaxTotals
    /\ total' = [total EXCEPT ![r] = @ + 1]
    /\ \/ recorded[r] = 0 /\ Record(r, total[r] + 1, "streaming")
       \/ UNCHANGED <<phase, after, recorded, delta>>
    /\ UNCHANGED <<alias, holds, resident, credited, admits>>

\* What the parser's finish() returns at the end of the stream.
FinalTotals(r) == total[r]

\* The stream is over: usage that is not recorded yet is, before the tail goes out.
ResponseEnds(r) ==
    /\ phase[r] = "streaming"
    /\ IF FinalTotals(r) # 0 /\ recorded[r] = 0
         THEN Record(r, FinalTotals(r), "finishing")
         ELSE GoOn(r, "finishing") /\ UNCHANGED <<after, recorded>>
    /\ UNCHANGED <<alias, total, holds, resident, credited, admits>>

\* A complete body arrived, with or without a recognised usage block.
BodyRead(r) ==
    /\ phase[r] = "reading"
    /\ \/ /\ total' = [total EXCEPT ![r] = 1]
          /\ Record(r, 1, "finishing")
       \/ GoOn(r, "finishing") /\ UNCHANGED <<after, usage>>
    /\ UNCHANGED <<alias, holds, resident, credited, admits>>

\* The client disconnects or the upstream breaks off in the middle.
Broken(r) ==
    /\ phase[r] \in {"streaming", "reading"}
    /\ GoOn(r, "finishing")
    /\ UNCHANGED <<after, alias, usage, holds, resident, credited, admits>>

\* Cancellation while the usage is being persisted, however often, is remembered
\* and takes effect once SQLite has committed or failed.
ResponseCancelled(r) ==
    /\ phase[r] = "recording"
    /\ after' = [after EXCEPT ![r] = "finishing"]
    /\ UNCHANGED <<phase, alias, usage, holds, counting, admits>>

\* The persistence task has ended, either way.
Persisted(r) ==
    /\ phase[r] = "recording"
    /\ GoOn(r, after[r])
    /\ after' = [after EXCEPT ![r] = "finishing"]
    /\ UNCHANGED <<alias, usage, holds, resident, credited, admits>>

\* _cleanup_proxy_resources: independent tasks close the upstream response (which
\* may raise) and release the lease; the request ends when all are done.
CleanUp(r, x) ==
    /\ phase[r] = "finishing" /\ x \in holds[r]
    /\ holds' = [holds EXCEPT ![r] = @ \ {x}]
    /\ phase' = IF holds[r] = {x} THEN [phase EXCEPT ![r] = "done"] ELSE phase
    /\ UNCHANGED <<after, alias, usage, counting, admits>>

-----------------------------------------------------------------------------
(* The request count and the engine                                         *)

\* bump_usage counts the buffered requests for the resident model.
Bump == credited' = [credited EXCEPT ![resident] = @ \cup delta]

\* _flush_usage as far as it concerns the count; d are the requests still in
\* request_count_delta after it.
FlushCount(d) ==
    \/ (resident = NoModel \/ delta = {}) /\ d = delta /\ UNCHANGED credited
    \/ resident # NoModel /\ delta # {} /\ d = {} /\ Bump
    \/ resident # NoModel /\ delta # {} /\ d = delta /\ (Bump \/ UNCHANGED credited)

\* _flush_loop, and the last flush of manager_lifespan
FlushDelta ==
    /\ resident # NoModel /\ delta # {}
    /\ \E d \in {delta, {}} : FlushCount(d) /\ delta' = d
    /\ UNCHANGED <<phase, after, alias, usage, holds, resident, admits>>

StartEngine(a) ==
    /\ admits /\ resident = NoModel
    /\ resident' = a
    /\ UNCHANGED <<phase, after, alias, usage, holds, delta, credited, admits>>

\* A count that could not be flushed is dropped with its engine.
CountAfterKill(d) == {}

\* _kill_engine, which the coordinator calls with no lease out.
KillEngine ==
    /\ resident # NoModel /\ Leases = {}
    /\ \E d \in {delta, {}} : FlushCount(d) /\ delta' = CountAfterKill(d)
    /\ resident' = NoModel
    /\ UNCHANGED <<phase, after, alias, usage, holds, admits>>

\* manager_lifespan begins to exit.
StopsAdmitting ==
    /\ admits
    /\ admits' = FALSE
    /\ UNCHANGED <<phase, after, alias, usage, holds, counting>>

-----------------------------------------------------------------------------
ResponseStep(r) ==
    \/ Opened(r) \/ OpenFails(r)
    \/ StreamUsage(r) \/ ResponseEnds(r) \/ BodyRead(r) \/ Broken(r) \/ Persisted(r)
    \/ \E x \in {"lease", "upstream"} : CleanUp(r, x)

ResponsesNext ==
    \/ \E r \in Requests : Admit(r) \/ ResponseStep(r) \/ ResponseCancelled(r)
    \/ FlushDelta
    \/ \E a \in Aliases : StartEngine(a)
    \/ KillEngine
    \/ StopsAdmitting

ResponsesSpec == ResponsesInit /\ [][ResponsesNext]_responsesVars

\* An engine's answer, a SQLite call and a cleanup task end.  Nothing else is fair.
ResponsesFairness == \A r \in Requests : WF_responsesVars(ResponseStep(r))

ResponsesFairSpec == ResponsesSpec /\ ResponsesFairness

-----------------------------------------------------------------------------
(* Properties                                                               *)

\* Every variable keeps its type, and a response holds something from its admission
\* until it is over.
ResponsesTypeOK ==
    /\ phase \in [Requests -> Phase]
    /\ after \in [Requests -> {"streaming", "finishing"}]
    /\ alias \in [Requests -> Aliases \cup {NoModel}]
    /\ total \in [Requests -> 0..MaxTotals]
    /\ recorded \in [Requests -> 0..MaxTotals]
    /\ holds \in [Requests -> SUBSET {"lease", "upstream"}]
    /\ resident \in Aliases \cup {NoModel}
    /\ delta \subseteq Requests
    /\ credited \in [Aliases -> SUBSET Requests]
    /\ admits \in BOOLEAN
    /\ \A r \in Requests : holds[r] = {} <=> phase[r] \in {"idle", "done"}

\* A request is counted for the model that served it, never for the next resident,
\* also when the flush before a teardown fails.
CreditedToServer ==
    \A a \in Aliases : \A r \in credited[a] : alias[r] = a

\* Whatever is cancelled, disconnected or fails, a response gives back its lease
\* and its upstream connection.
ResourcesReturned == \A r \in Requests : holds[r] # {} ~> holds[r] = {}
=============================================================================
