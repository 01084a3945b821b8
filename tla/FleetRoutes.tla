---------------------------- MODULE FleetRoutes ----------------------------
(***************************************************************************)
(* Who gives back what one routed attempt holds: the scheduler             *)
(* reservation, the upstream response and the open row of the route        *)
(* history (proxy.py: _attempt, _RouteOwnership, _finish_owned,            *)
(* _OwnedStreamingResponse; store.py).  The request task may be cancelled  *)
(* at every suspension, also while it waits for its own cleanup; the row   *)
(* is written and completed by separate, shielded tasks; the gateway may   *)
(* be killed at any time and started again.                                *)
(***************************************************************************)
EXTENDS Naturals, Sequences, FiniteSets

CONSTANTS Routes,          \* attempts, each with its own route_id
          HistoryLimit,    \* route_history_limit
          MaxCrashes       \* bound: times the gateway is killed

ASSUME RoutesAssumption ==
    /\ IsFiniteSet(Routes)
    /\ HistoryLimit \in Nat /\ MaxCrashes \in Nat

VARIABLES
    up,         \* the gateway process runs
    crashes,    \* how often it was killed
    task,       \* the request task of the attempt
    start,      \* _start_task: the task that inserts the row
    finish,     \* _completion_task: the next thing it does
    result,     \* failure_code the completion task was created with
    held,       \* the reservation is in the scheduler
    open,       \* the upstream response is open
    begun,      \* attempts in order of started_at
    row         \* the row in the routes table

routesVars == <<up, crashes, task, start, finish, result, held, open, begun, row>>

TaskState   == {"new", "starting", "sending", "streaming", "cleanup", "ended"}
StartState  == {"none", "pending", "inserted", "raised"}
FinishState == {"none", "release", "close", "row", "done", "failed"}
Failures    == {"client_cancelled", "connect_before_headers", "ambiguous_upstream_failure",
                "node_busy", "upstream_stream_error"}
Results     == Failures \cup {"ok"}
RowState    == Results \cup {"absent", "open", "gateway_restarted"}

RoutesInit ==
    /\ up = TRUE /\ crashes = 0
    /\ task = [r \in Routes |-> "new"]
    /\ start = [r \in Routes |-> "none"]
    /\ finish = [r \in Routes |-> "none"]
    /\ result = [r \in Routes |-> "ok"]
    /\ held = [r \in Routes |-> FALSE]
    /\ open = [r \in Routes |-> FALSE]
    /\ begun = <<>>
    /\ row = [r \in Routes |-> "absent"]

\* Plausible bugs.
BugDoesNotWait(r) == TRUE

-----------------------------------------------------------------------------
(* _RouteOwnership.complete: the first call creates the cleanup task.       *)

FirstCompletion(r) == finish[r] = "none"

Complete(r, code) ==
    IF FirstCompletion(r)
      THEN /\ finish' = [finish EXCEPT ![r] = "release"]
           /\ result' = [result EXCEPT ![r] = code]
      ELSE UNCHANGED <<finish, result>>

-----------------------------------------------------------------------------
(* The request task                                                         *)

\* _attempt with a fresh reservation: owner.start() creates the insert task.
Begin(r) ==
    /\ up /\ task[r] = "new"
    /\ task' = [task EXCEPT ![r] = "starting"]
    /\ start' = [start EXCEPT ![r] = "pending"]
    /\ held' = [held EXCEPT ![r] = TRUE]
    /\ begun' = Append(begun, r)
    /\ UNCHANGED <<up, crashes, finish, result, open, row>>

\* The insert ended, well or not (a failure is only logged); the request is sent.
Send(r) ==
    /\ task[r] = "starting" /\ start[r] \in {"inserted", "raised"}
    /\ task' = [task EXCEPT ![r] = "sending"]
    /\ UNCHANGED <<up, crashes, start, finish, result, held, open, begun, row>>

\* No response: connect failure or ambiguous failure
SendFails(r) ==
    /\ task[r] = "sending"
    /\ \E code \in {"connect_before_headers", "ambiguous_upstream_failure"} :
         Complete(r, code)
    /\ task' = [task EXCEPT ![r] = "cleanup"]
    /\ UNCHANGED <<up, crashes, start, held, open, begun, row>>

\* Response headers: a proven node_busy ends the attempt, anything else is handed
\* to the ASGI server as a streaming response that owns the route.
Headers(r) ==
    /\ task[r] = "sending"
    /\ open' = [open EXCEPT ![r] = TRUE]
    /\ \/ /\ Complete(r, "node_busy")
          /\ task' = [task EXCEPT ![r] = "cleanup"]
       \/ /\ task' = [task EXCEPT ![r] = "streaming"]
          /\ UNCHANGED <<finish, result>>
    /\ UNCHANGED <<up, crashes, start, held, begun, row>>

\* The streaming response ends; its finally block completes the route with the
\* first failure noted.
StreamEnds(r) ==
    /\ task[r] = "streaming"
    /\ \E code \in {"ok", "upstream_stream_error"} : Complete(r, code)
    /\ task' = [task EXCEPT ![r] = "cleanup"]
    /\ UNCHANGED <<up, crashes, start, held, open, begun, row>>

BugCancelledAtStart(r) ==
    /\ task[r] \in {"starting", "sending", "streaming", "cleanup"}
    /\ IF task[r] = "starting" THEN UNCHANGED <<finish, result>>
                               ELSE Complete(r, "client_cancelled")
    /\ task' = [task EXCEPT ![r] = IF task[r] \in {"starting", "cleanup"}
                                     THEN "ended" ELSE "cleanup"]
    /\ UNCHANGED <<up, crashes, start, held, open, begun, row>>

\* The client goes away.  Outside its own cleanup the task completes the route
\* and waits for it; during the cleanup the wait alone is cancelled.
Cancelled(r) ==
    /\ task[r] \in {"starting", "sending", "streaming", "cleanup"}
    /\ Complete(r, "client_cancelled")
    /\ task' = [task EXCEPT ![r] = IF task[r] = "cleanup" THEN "ended" ELSE "cleanup"]
    /\ UNCHANGED <<up, crashes, start, held, open, begun, row>>

\* The shielded wait for the cleanup task is over.
CleanupAwaited(r) ==
    /\ task[r] = "cleanup" /\ finish[r] \in {"done", "failed"}
    /\ task' = [task EXCEPT ![r] = "ended"]
    /\ UNCHANGED <<up, crashes, start, finish, result, held, open, begun, row>>

-----------------------------------------------------------------------------
(* FleetStore.start_route, in the insert task                               *)

Position(r) == CHOOSE i \in 1..Len(begun) : begun[i] = r

\* Rows beyond the newest HistoryLimit, by started_at, are deleted.
Pruned(rows) ==
    [r \in Routes |->
       IF /\ rows[r] # "absent"
          /\ Cardinality({q \in Routes : /\ rows[q] # "absent"
                                         /\ Position(q) > Position(r)}) >= HistoryLimit
         THEN "absent" ELSE rows[r]]

InsertRow(r) ==
    /\ start[r] = "pending"
    /\ \/ /\ start' = [start EXCEPT ![r] = "inserted"]
          /\ row' = Pruned([row EXCEPT ![r] = "open"])
       \/ /\ start' = [start EXCEPT ![r] = "raised"]
          /\ UNCHANGED row
    /\ UNCHANGED <<up, crashes, task, finish, result, held, open, begun>>

-----------------------------------------------------------------------------
(* _finish_owned, in the cleanup task: capacity first, then the socket,     *)
(* then the row, once the insert is known to have ended.                    *)

ReleaseReservation(r) ==
    /\ finish[r] = "release"
    /\ held' = [held EXCEPT ![r] = FALSE]
    /\ finish' = [finish EXCEPT ![r] = "close"]
    /\ UNCHANGED <<up, crashes, task, start, result, open, begun, row>>

CloseResponse(r) ==
    /\ finish[r] = "close"
    /\ open' = [open EXCEPT ![r] = FALSE]
    /\ finish' = [finish EXCEPT ![r] = "row"]
    /\ UNCHANGED <<up, crashes, task, start, result, held, begun, row>>

\* route_started awaits the insert task ...
InsertEnded(r) == start[r] # "pending"

\* ... and says whether there is a row.
NothingToFinish(r) == start[r] = "raised"

\* finish_route: an update, so a row that was pruned stays absent; SQLite may fail.
FinishRow(r) ==
    /\ finish[r] = "row"
    /\ InsertEnded(r)
    /\ \/ /\ ~NothingToFinish(r)
          /\ row' = [row EXCEPT ![r] = IF @ = "absent" THEN "absent" ELSE result[r]]
          /\ finish' = [finish EXCEPT ![r] = "done"]
       \/ /\ ~NothingToFinish(r)
          /\ finish' = [finish EXCEPT ![r] = "failed"]
          /\ UNCHANGED row
       \/ /\ NothingToFinish(r)
          /\ finish' = [finish EXCEPT ![r] = "done"]
          /\ UNCHANGED row
    /\ UNCHANGED <<up, crashes, task, start, result, held, open, begun>>

-----------------------------------------------------------------------------
(* The gateway process                                                      *)

\* Everything but the database is lost; attempts in flight are over.
Crash ==
    /\ up /\ crashes < MaxCrashes
    /\ up' = FALSE /\ crashes' = crashes + 1
    /\ task' = [r \in Routes |-> IF task[r] = "new" THEN "new" ELSE "ended"]
    /\ start' = [r \in Routes |-> "none"]
    /\ finish' = [r \in Routes |-> "none"]
    /\ held' = [r \in Routes |-> FALSE]
    /\ open' = [r \in Routes |-> FALSE]
    /\ UNCHANGED <<result, begun, row>>

\* Rows left open by the previous process
LeftOpen(r) == row[r] = "open"

\* FleetStore.initialize closes them.
Restart ==
    /\ ~up
    /\ up' = TRUE
    /\ row' = [r \in Routes |-> IF LeftOpen(r) THEN "gateway_restarted" ELSE row[r]]
    /\ UNCHANGED <<crashes, task, start, finish, result, held, open, begun>>

-----------------------------------------------------------------------------
TaskStep(r)    == Send(r) \/ SendFails(r) \/ Headers(r) \/ StreamEnds(r) \/ CleanupAwaited(r)
CleanupStep(r) == ReleaseReservation(r) \/ CloseResponse(r) \/ FinishRow(r)

RoutesNext ==
    \/ \E r \in Routes : \/ Begin(r) \/ TaskStep(r) \/ Cancelled(r)
                         \/ InsertRow(r) \/ CleanupStep(r)
    \/ Crash \/ Restart

RoutesSpec == RoutesInit /\ [][RoutesNext]_routesVars

-----------------------------------------------------------------------------
(* Properties                                                               *)

\* Every variable keeps its type.
RoutesTypeOK ==
    /\ up \in BOOLEAN /\ crashes \in 0..MaxCrashes
    /\ task \in [Routes -> TaskState]
    /\ start \in [Routes -> StartState]
    /\ finish \in [Routes -> FinishState]
    /\ result \in [Routes -> Results]
    /\ held \in [Routes -> BOOLEAN] /\ open \in [Routes -> BOOLEAN]
    /\ begun \in Seq(Routes)
    /\ row \in [Routes -> RowState]

\* Nothing is stranded: once the request task has ended, however and however often
\* it was cancelled, a reservation or an upstream response it still holds is about
\* to be given back by a cleanup task.
NothingStranded ==
    \A r \in Routes : task[r] \in {"new", "ended"} =>
      /\ held[r] => finish[r] = "release"
      /\ open[r] => finish[r] \in {"release", "close"}

\* An open row of the running process always has an attempt or a cleanup behind it
\* that will complete it, or its completion was tried and the store failed.
OpenRowOwned ==
    up => \A r \in Routes : row[r] = "open" =>
            /\ start[r] = "inserted"
            /\ finish[r] = "none" => task[r] \in {"starting", "sending", "streaming"}
            /\ finish[r] # "done"

\* A completed row is final: the first completion's outcome is never rewritten, by
\* a later completion of the same route or by a restart.
RowFinal ==
    [][\A r \in Routes : row[r] \notin {"absent", "open"} =>
         row'[r] \in {row[r], "absent"}]_routesVars
=============================================================================
