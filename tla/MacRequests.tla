---------------------------- MODULE MacRequests -----------------------------
(***************************************************************************)
(* Requests through the macOS service (app.py), from admission to the      *)
(* return of the lease, and what becomes of the usage they report: the     *)
(* SQLite store and outbox (usage_store.py), the delivery to PostgreSQL    *)
(* (usage_delivery.py) and the order in which the service stops            *)
(* (runtime.py, cli.py).  The coordinator appears by the lease it grants.  *)
(***************************************************************************)
EXTENDS Naturals, Sequences, FiniteSets, SequencesExt

CONSTANTS Reqs,        \* requests
          OutboxRows,  \* max_outbox_rows
          BatchRows,   \* batch_size
          MaxTroubles  \* crashes, failed writes and expired graces

ASSUME ReqAssumption == OutboxRows \in Nat /\ BatchRows \in Nat \ {0} /\ MaxTroubles \in Nat

VARIABLES req,         \* the state of each request
          automatic,   \* the benchmark evidence that selects the alternative
          analytics,   \* request_usage: events of the requests in it
          outbox,      \* pg_usage_outbox, oldest row first
          pg,          \* public.token_usage, keyed by event_id
          pruned,      \* events dropped from a full outbox
          flush,       \* flush_once in progress
          node,        \* the service: up, stopping, closing, down
          troubles,
          excused      \* events a failure lost before they were stored

reqVars == <<req, automatic, analytics, outbox, pg, pruned, flush, node, troubles, excused>>
storeVars == <<analytics, outbox, pg, pruned, flush, node, troubles, excused>>

NewReq == [at |-> "idle", lease |-> FALSE, upstream |-> FALSE, image |-> FALSE,
           alternative |-> FALSE, usage |-> FALSE, failed |-> FALSE, cleanup |-> "none",
           cut |-> FALSE, thread |-> "none"]
NoFlush == [at |-> "none", rows |-> <<>>]

ReqInit ==
    /\ req = [r \in Reqs |-> NewReq] /\ automatic = TRUE
    /\ analytics = {} /\ outbox = <<>> /\ pg = {} /\ pruned = {}
    /\ flush = NoFlush /\ node = "up" /\ troubles = 0 /\ excused = {}

Changed(r, new) == req' = [req EXCEPT ![r] = new]
Trouble == troubles < MaxTroubles /\ troubles' = troubles + 1
StoreOpen == node # "down"

\* invalidate_automatic_selection, when it was the alternative that failed
EvidenceAfter(r, failed) == automatic /\ ~(failed /\ req[r].alternative)

-----------------------------------------------------------------------------
(* proxy                                                                   *)

\* resolve_target: the alternative engine while its evidence stands
ReqArrives(r, image) ==
    /\ node # "down" /\ req[r].at = "idle"
    /\ \E alternative \in {FALSE, automatic /\ ~image} :
          Changed(r, [NewReq EXCEPT !.at = "admit", !.image = image,
                                    !.alternative = alternative])
    /\ UNCHANGED <<automatic, storeVars>>

\* coordinator.acquire: no grant once shutdown has begun
Admitted(r) ==
    /\ req[r].at = "admit" /\ node = "up"
    /\ Changed(r, [req[r] EXCEPT !.at = "send", !.lease = TRUE])
    /\ UNCHANGED <<automatic, storeVars>>

\* A load failed and left no resident: the fixed target is tried once
FallsBack(r) ==
    /\ req[r].at = "admit" /\ req[r].alternative
    /\ automatic' = EvidenceAfter(r, TRUE)
    /\ Changed(r, [req[r] EXCEPT !.alternative = FALSE])
    /\ UNCHANGED storeVars

\* The request fails or its client leaves before there is a response.  The
\* clean-up is a task of its own that cancellations only delay.
GivesUp(r) ==
    /\ req[r].at \in {"admit", "send"}
    /\ automatic' = EvidenceAfter(r, req[r].at = "send")
    /\ Changed(r, [req[r] EXCEPT !.at = "ending", !.alternative = FALSE, !.failed = TRUE,
                              !.cleanup = "close"])
    /\ UNCHANGED storeVars

\* The engine answers; a status outside 2xx carries no usage
Headers(r, streamed) ==
    /\ req[r].at = "send"
    /\ automatic' \in {automatic, EvidenceAfter(r, TRUE)}
    /\ Changed(r, [req[r] EXCEPT !.at = IF streamed THEN "stream" ELSE "body",
                                 !.upstream = TRUE])
    /\ UNCHANGED storeVars

\* StreamingUsageParser.feed meets a usage block
UsageSeen(r) ==
    /\ req[r].at = "stream" /\ ~req[r].image /\ ~req[r].usage
    /\ Changed(r, [req[r] EXCEPT !.usage = TRUE])
    /\ UNCHANGED <<automatic, storeVars>>

\* _OwnedStreamingResponse: the body ended, the upstream broke or the client
\* left; the first of them starts the only completion task.
StreamEnds(r, upstreamFailed) ==
    /\ req[r].at = "stream"
    /\ \E failed \in {upstreamFailed, TRUE} :
          Changed(r, [req[r] EXCEPT !.at = "ending", !.alternative = FALSE,
                                    !.failed = failed, !.cleanup = "record"])
    /\ automatic' = EvidenceAfter(r, upstreamFailed)
    /\ UNCHANGED storeVars

\* The whole body was read, and its usage is recorded within the handler's try block.
BodyRead(r) ==
    /\ req[r].at = "body" /\ req[r].cleanup = "none"
    /\ \E usage \in {FALSE, ~req[r].image} :
          Changed(r, [req[r] EXCEPT !.usage = usage, !.alternative = FALSE,
                                    !.cleanup = "record"])
    /\ UNCHANGED <<automatic, storeVars>>

BodyFails(r, upstreamFailed) ==
    /\ req[r].at = "body" /\ req[r].cleanup = "none"
    /\ Changed(r, [req[r] EXCEPT !.at = "ending", !.alternative = FALSE, !.failed = TRUE,
                              !.cleanup = "close"])
    /\ automatic' = EvidenceAfter(r, upstreamFailed)
    /\ UNCHANGED storeVars

\* The request is cancelled while it awaits the thread that records: it goes on to
\* return its lease.  A call still queued is cancelled with it, one that runs goes on
\* by itself, and nothing is called after it.
BodyCancelled(r) ==
    /\ req[r].at = "body" /\ req[r].usage /\ req[r].cleanup \in {"record", "prune"}
    /\ \E call \in {"none", req[r].cleanup} :
          Changed(r, [req[r] EXCEPT !.at = "ending", !.alternative = FALSE,
                                    !.failed = TRUE, !.cleanup = "close",
                                    !.cut = (@ \/ req[r].cleanup = "record"), !.thread = call])
    /\ UNCHANGED <<automatic, storeVars>>

-----------------------------------------------------------------------------
(* The clean-up: usage first, then the upstream response, then the lease.  *)

\* record_batch: both tables in one transaction
Stores(r) ==
    /\ StoreOpen
    /\ analytics' = analytics \union {r}
    /\ outbox' = IF r \in ToSet(outbox) THEN outbox ELSE Append(outbox, r)
    /\ UNCHANGED <<automatic, pg, pruned, flush, node, troubles, excused>>
RecordUsage(r) ==
    /\ req[r].cleanup = "record"
    /\ IF req[r].usage THEN Stores(r) ELSE StoreOpen /\ UNCHANGED <<automatic, storeVars>>
    /\ Changed(r, [req[r] EXCEPT !.cleanup = IF req[r].usage THEN "prune" ELSE "close"])

\* The database refuses, or is closed already; the failure is logged
RecordFails(r) ==
    /\ req[r].cleanup = "record" /\ req[r].usage
    /\ \/ /\ ~StoreOpen /\ UNCHANGED <<troubles, excused>>
       \/ StoreOpen /\ Trouble /\ excused' = excused \union {r}
    /\ Changed(r, [req[r] EXCEPT !.cleanup = "close"])
    /\ UNCHANGED <<automatic, analytics, outbox, pg, pruned, flush, node>>

\* prune_outbox, in a call of its own; a cancelled request may skip it
PrunesOutbox ==
    LET drop == IF Len(outbox) > OutboxRows THEN Len(outbox) - OutboxRows ELSE 0
    IN  /\ StoreOpen
        /\ outbox' = SubSeq(outbox, drop + 1, Len(outbox))
        /\ pruned' = pruned \union {outbox[i] : i \in 1..drop}
        /\ UNCHANGED <<automatic, analytics, pg, flush, node, troubles, excused>>
Prune(r) ==
    /\ req[r].cleanup = "prune" /\ PrunesOutbox
    /\ Changed(r, [req[r] EXCEPT !.cleanup = "close"])
PruneSkipped(r) ==
    /\ req[r].cleanup = "prune"
    /\ Changed(r, [req[r] EXCEPT !.cleanup = "close"])
    /\ UNCHANGED <<automatic, storeVars>>

\* The thread of a cancelled request ends its call, beside whatever else goes on, or
\* fails at it: the database refuses or is closed.
LateCall(r) ==
    /\ \/ req[r].thread = "record" /\ Stores(r)
       \/ req[r].thread = "prune" /\ PrunesOutbox
       \/ req[r].thread # "none" /\ UNCHANGED <<automatic, storeVars>>
    /\ Changed(r, [req[r] EXCEPT !.thread = "none"])

\* _close_proxy_resources, or _abort_image_request: the two in either order,
\* and neither failure stops the other.
ClosesUpstream(r) ==
    /\ req[r].cleanup = "close" /\ req[r].upstream
    /\ req[r].image /\ req[r].failed => ~req[r].lease
    /\ Changed(r, [req[r] EXCEPT !.upstream = FALSE])
    /\ UNCHANGED <<automatic, storeVars>>
BugReturnsLease(r) ==
    /\ req[r].cleanup \in {"record", "prune", "close"} /\ req[r].lease
    /\ Changed(r, [req[r] EXCEPT !.lease = FALSE])
    /\ UNCHANGED <<automatic, storeVars>>
ReturnsLease(r) ==
    /\ req[r].cleanup = "close" /\ req[r].lease
    /\ ~req[r].upstream \/ (req[r].image /\ req[r].failed)
    /\ Changed(r, [req[r] EXCEPT !.lease = FALSE])
    /\ UNCHANGED <<automatic, storeVars>>
CleanedUp(r) ==
    /\ req[r].cleanup = "close" /\ ~req[r].lease /\ ~req[r].upstream
    /\ Changed(r, [req[r] EXCEPT !.cleanup = "done"])
    /\ UNCHANGED <<automatic, storeVars>>

\* _await_task_to_known_outcome: the handler outlasts its clean-up; only an
\* aborted image request lets a second cancellation through.
HandlerReturns(r) ==
    /\ req[r].at \in {"ending", "body"}
    /\ req[r].cleanup = "done" \/ (req[r].image /\ req[r].failed /\ req[r].cleanup = "close")
    /\ Changed(r, [req[r] EXCEPT !.at = "over"])
    /\ UNCHANGED <<automatic, storeVars>>

-----------------------------------------------------------------------------
(* flush_once, under its lock.                                             *)

Peek ==
    /\ node \in {"up", "stopping", "closing"} /\ flush.at = "none" /\ outbox # <<>>
    /\ flush' = [at |-> "write",
                 rows |-> SubSeq(outbox, 1, IF Len(outbox) < BatchRows THEN Len(outbox)
                                            ELSE BatchRows)]
    /\ UNCHANGED <<req, automatic, analytics, outbox, pg, pruned, node, troubles, excused>>

\* write_batch: ON CONFLICT (event_id) DO NOTHING
WriteBatch ==
    /\ flush.at = "write"
    /\ pg' = pg \union ToSet(flush.rows)
    /\ flush' = [flush EXCEPT !.at = "ack"]
    /\ UNCHANGED <<req, automatic, analytics, outbox, pruned, node, troubles, excused>>

\* The answer is lost, with any part of the batch committed; or the loop is
\* cancelled by close between the two calls.
FlushBreaks ==
    /\ flush.at # "none"
    /\ flush' = NoFlush
    /\ IF flush.at = "ack" THEN UNCHANGED pg
       ELSE \E part \in SUBSET ToSet(flush.rows) : pg' = pg \union part
    /\ UNCHANGED <<req, automatic, analytics, outbox, pruned, node, troubles, excused>>

BugAck ==
    /\ flush.at = "ack"
    /\ outbox' = SubSeq(outbox, Len(flush.rows) + 1, Len(outbox))
    /\ flush' = NoFlush
    /\ UNCHANGED <<req, automatic, analytics, pg, pruned, node, troubles, excused>>
\* The rows that are left when those of S are deleted, in their order
Without(rows, S) ==
    LET kept     == {i \in DOMAIN rows : rows[i] \notin S}
        Place(i) == Cardinality({k \in kept : k <= i})
    IN  [j \in 1..Cardinality(kept) |-> rows[CHOOSE i \in kept : Place(i) = j]]

\* ack_outbox, by row id: rows pruned or added meanwhile do not matter
Ack ==
    /\ flush.at = "ack"
    /\ outbox' = Without(outbox, ToSet(flush.rows))
    /\ flush' = NoFlush
    /\ UNCHANGED <<req, automatic, analytics, pg, pruned, node, troubles, excused>>

-----------------------------------------------------------------------------
(* The end of the service.                                                 *)

\* NativeRuntime.stop: the coordinator closes admission and drains, ...
StopBegins ==
    /\ node = "up" /\ node' = "stopping"
    /\ UNCHANGED <<req, automatic, analytics, outbox, pg, pruned, flush, troubles, excused>>

\* ... for as long as its grace lasts, ...
Drained ==
    /\ node = "stopping"
    /\ \/ (\A r \in Reqs : ~req[r].lease) /\ UNCHANGED <<troubles, excused>>
       \/ /\ Trouble
          /\ excused' = excused \union {r \in Reqs : req[r].lease}
    /\ node' = "closing"
    /\ UNCHANGED <<req, automatic, analytics, outbox, pg, pruned, flush>>

\* ... then the outbox is flushed once more and the store closed.
StoreCloses ==
    /\ node = "closing" /\ flush = NoFlush
    /\ node' = "down"
    /\ UNCHANGED <<req, automatic, analytics, outbox, pg, pruned, flush, troubles, excused>>

\* The process is gone, with its requests; the database and PostgreSQL stay
ProcessEnds ==
    /\ \/ node = "down" /\ UNCHANGED <<troubles, excused>>
       \/ node # "down" /\ Trouble
          /\ excused' = excused \union {r \in Reqs : req[r].at # "idle"}
    /\ req' = [r \in Reqs |-> IF req[r].at = "idle" THEN NewReq
                              ELSE [NewReq EXCEPT !.at = "over", !.cleanup = "done",
                                                  !.usage = req[r].usage, !.cut = req[r].cut]]
    /\ flush' = NoFlush /\ node' = "up"
    /\ UNCHANGED <<automatic, analytics, outbox, pg, pruned>>

ReqNext ==
    \/ \E r \in Reqs :
          \/ \E b \in BOOLEAN : \/ ReqArrives(r, b) \/ Headers(r, b)
                                \/ StreamEnds(r, b) \/ BodyFails(r, b)
          \/ Admitted(r) \/ FallsBack(r) \/ GivesUp(r) \/ UsageSeen(r) \/ BodyRead(r)
          \/ BodyCancelled(r) \/ LateCall(r)
          \/ RecordUsage(r) \/ RecordFails(r) \/ Prune(r) \/ PruneSkipped(r)
          \/ ClosesUpstream(r) \/ ReturnsLease(r) \/ CleanedUp(r) \/ HandlerReturns(r)
    \/ Peek \/ WriteBatch \/ FlushBreaks \/ Ack
    \/ StopBegins \/ Drained \/ StoreCloses \/ ProcessEnds

ReqSpec == ReqInit /\ [][ReqNext]_reqVars

-----------------------------------------------------------------------------
\* A service that stops in good order loses no usage: once the leases are drained and
\* the store is closed, every response that reported usage has it stored, unless its
\* own write failed, the grace ran out first, or its request was not streamed and was
\* cancelled in the middle of that write, which returns the lease before the thread
\* has ended (app.py:473 records before it releases and app.py:968 need not,
\* runtime.py:699 drains before it closes).
StopKeepsUsage ==
    node = "down" =>
        \A r \in Reqs : req[r].usage /\ ~req[r].cut => r \in analytics \union excused

\* An event leaves the outbox only delivered or pruned as one of the oldest
\* of a full outbox, whatever is added or pruned between the read of a batch
\* and its acknowledgement (usage_delivery.py:195).
EventAccounted ==
    analytics \subseteq ToSet(outbox) \union pg \union pruned
=============================================================================
