----------------------------- MODULE CudaUsage -----------------------------
(***************************************************************************)
(* Where the CUDA manager's usage events go (vllm_manager.py, catalog.py,  *)
(* pg_writer.py): into SQLite before the response ends, into an in-memory  *)
(* retry buffer when that fails, from the delivery outbox to PostgreSQL;   *)
(* with the exit of manager_lifespan and a crash anywhere.  The responses  *)
(* that create the events are CudaResponses.                               *)
(*                                                                         *)
(* A SQLite transaction that raises may nevertheless have been committed.  *)
(***************************************************************************)
EXTENDS Naturals, Sequences, FiniteSets

CONSTANTS Events,         \* usage events, by event id
          MaxOutboxRows,  \* token_sidecar.max_outbox_rows
          BatchSize,      \* token_sidecar.batch_size
          MaxExits        \* bound: how often the manager's process ends

ASSUME UsageAssumption ==
    /\ IsFiniteSet(Events)
    /\ MaxOutboxRows \in Nat
    /\ BatchSize \in Nat \ {0}
    /\ MaxExits \in Nat

VARIABLES
    \* the manager's process
    event,      \* [Events -> {"none", "recording", "settled"}]: _record_usage_entry
    retry,      \* _runtime.usage_rows, the retry buffer
    batch,      \* the rows write_batch is writing, <<>> without one
    life,       \* "up", the stages of manager_lifespan's exit, "down"
    exits,      \* how often it ended
    \* SQLite
    rows,       \* request_usage
    totals,     \* how many events are summed into the models' token totals
    outbox,     \* pg_usage_outbox in id order
    \* PostgreSQL
    ledger,     \* public.token_usage
    \* history
    dropped,    \* events pruned from the outbox
    lost        \* events that existed only in a process that ended

store   == <<rows, totals, outbox>>
history == <<dropped, lost>>
usageVars == <<event, retry, batch, life, exits, rows, totals, outbox, ledger, dropped, lost>>

Life == {"up", "draining", "flushing", "closing", "closed", "down"}

Members(q) == {q[i] : i \in 1..Len(q)}

UsageInit ==
    /\ event = [e \in Events |-> "none"]
    /\ retry = <<>> /\ batch = <<>>
    /\ life = "up" /\ exits = 0
    /\ rows = {} /\ totals = 0 /\ outbox = <<>>
    /\ ledger = {}
    /\ dropped = {} /\ lost = {}

-----------------------------------------------------------------------------
(* The SQLite transaction of a list of usage events                         *)

\* Plausible bugs, each one changing a single definition below.
BugCountsConflicts(q) == Members(q)
BugDeletesUnsent == SelectSeq(outbox, LAMBDA e : e \notin Members(batch))
BugForgetsBeforeCommit == <<>>

\* record_usage_batch: events the table already has add nothing to the totals.
Inserted(q) == Members(q) \ rows

\* The outbox keeps one row per event id.
Enqueued(q) == outbox \o SelectSeq(q, LAMBDA e : e \notin Members(outbox))

Commit(q) ==
    /\ rows' = rows \cup Members(q)
    /\ totals' = totals + Cardinality(Inserted(q))
    /\ outbox' = Enqueued(q)

\* A transaction that raises
Fail(q) == Commit(q) \/ UNCHANGED store

-----------------------------------------------------------------------------
(* Recording and retrying                                                   *)

\* A response creates its event; responses go on while the manager drains, and
\* after a drain that timed out.
RecordUsage(e) ==
    /\ life # "down" /\ event[e] = "none"
    /\ event' = [event EXCEPT ![e] = "recording"]
    /\ UNCHANGED <<retry, batch, life, exits, store, ledger, history>>

\* The write in a thread commits.
PersistCommits(e) ==
    /\ event[e] = "recording" /\ life # "closed"
    /\ Commit(<<e>>)
    /\ event' = [event EXCEPT ![e] = "settled"]
    /\ UNCHANGED <<retry, batch, life, exits, ledger, history>>

\* It raises (after the catalog is closed it always does): the event joins the
\* retry buffer before any cancellation is let through.
PersistFails(e) ==
    /\ event[e] = "recording"
    /\ IF life = "closed" THEN UNCHANGED store ELSE Fail(<<e>>)
    /\ retry' = IF e \in Members(retry) THEN retry ELSE Append(retry, e)
    /\ event' = [event EXCEPT ![e] = "settled"]
    /\ UNCHANGED <<batch, life, exits, ledger, history>>

\* What an error leaves of the retry buffer.
RetryAfterFailure == retry

\* _flush_usage: the buffer is emptied after the commit.  An error, also one in
\* counting requests, ends it.
Flush ==
    \/ retry = <<>> /\ UNCHANGED <<retry, store>>
    \/ retry # <<>> /\ Commit(retry) /\ retry' = <<>>
    \/ retry # <<>> /\ Fail(retry) /\ retry' = RetryAfterFailure

\* _flush_loop, and _kill_engine at every engine teardown
FlushUsage ==
    /\ life \in {"up", "draining"} /\ retry # <<>>
    /\ Flush
    /\ UNCHANGED <<event, batch, life, exits, ledger, history>>

-----------------------------------------------------------------------------
(* Delivery to PostgreSQL                                                   *)

\* prune_pg_outbox keeps the newest rows, peek_pg_outbox takes the oldest of them.
Kept == IF Len(outbox) <= MaxOutboxRows THEN outbox
        ELSE SubSeq(outbox, Len(outbox) - MaxOutboxRows + 1, Len(outbox))
Peeked == IF Len(Kept) <= BatchSize THEN Kept ELSE SubSeq(Kept, 1, BatchSize)

\* _pg_flush_once up to its await, in its loop and once more on the way out.
PgFlushStarts ==
    /\ life \in {"up", "flushing"}
    /\ batch = <<>> /\ outbox # <<>>
    /\ batch' = Peeked
    /\ outbox' = Kept
    /\ dropped' = dropped \cup (Members(outbox) \ Members(Kept))
    /\ life' = IF life = "flushing" THEN "closing" ELSE life
    /\ UNCHANGED <<event, retry, exits, rows, totals, ledger, lost>>

\* The rows that were written are deleted by their ids, and no others.
AfterDelete == SelectSeq(outbox, LAMBDA e : e \notin Members(batch))
AfterFailedWrite == outbox

\* The batch is in the ledger (ON CONFLICT DO NOTHING) and leaves the outbox.
PgDelivered ==
    /\ batch # <<>>
    /\ ledger' = ledger \cup Members(batch)
    /\ outbox' = AfterDelete
    /\ batch' = <<>>
    /\ UNCHANGED <<event, retry, life, exits, rows, totals, history>>

\* Of a batch that is interrupted any prefix may have been written.
Interrupted ==
    /\ \E n \in 0..Len(batch) : ledger' = ledger \cup {batch[i] : i \in 1..n}
    /\ batch' = <<>>

\* PostgreSQL fails, or the rows are written and SQLite fails to delete them.
PgFails ==
    /\ batch # <<>>
    /\ Interrupted
    /\ outbox' = AfterFailedWrite
    /\ UNCHANGED <<event, retry, life, exits, rows, totals, history>>

-----------------------------------------------------------------------------
(* The process                                                              *)

\* manager_lifespan's exit cancels the loops and drains the coordinator.
ShutdownBegins ==
    /\ life = "up" /\ exits < MaxExits
    /\ life' = "draining"
    /\ Interrupted
    /\ UNCHANGED <<event, retry, exits, store, history>>

\* The drain has ended or timed out: the last flush into SQLite.
FinalFlush ==
    /\ life = "draining"
    /\ life' = "flushing"
    /\ Flush
    /\ UNCHANGED <<event, batch, exits, ledger, history>>

\* After the last delivery the engine is torn down, if it was drained, and the
\* catalog is closed.
CloseCatalog ==
    /\ life \in {"flushing", "closing"} /\ batch = <<>>
    /\ life' = "closed"
    /\ Flush \/ UNCHANGED <<retry, store>>
    /\ UNCHANGED <<event, batch, exits, ledger, history>>

\* The process ends, in order or killed.
Exit ==
    /\ life = "closed" \/ (life # "down" /\ exits < MaxExits)
    /\ life' = "down" /\ exits' = exits + 1
    /\ Interrupted
    /\ event' = [e \in Events |-> IF event[e] = "none" THEN "none" ELSE "settled"]
    /\ retry' = <<>>
    /\ lost' = lost \cup {e \in Events : event[e] # "none" /\ e \notin rows}
    /\ UNCHANGED <<store, dropped>>

ManagerRestarts ==
    /\ life = "down"
    /\ life' = "up"
    /\ UNCHANGED <<event, retry, batch, exits, store, ledger, history>>

-----------------------------------------------------------------------------
UsageNext ==
    \/ \E e \in Events : RecordUsage(e) \/ PersistCommits(e) \/ PersistFails(e)
    \/ FlushUsage
    \/ PgFlushStarts \/ PgDelivered \/ PgFails
    \/ ShutdownBegins \/ FinalFlush \/ CloseCatalog
    \/ Exit \/ ManagerRestarts

UsageSpec == UsageInit /\ [][UsageNext]_usageVars

\* The stages of an exit are run and a stopped manager is started again; the
\* delivery loop runs, and PostgreSQL is reachable again and again.  The retry loop
\* runs too, and SQLite does not fail for ever.
UsageFairness ==
    /\ WF_usageVars(FinalFlush) /\ WF_usageVars(CloseCatalog)
    /\ WF_usageVars(life = "closed" /\ Exit) /\ WF_usageVars(ManagerRestarts)
    /\ SF_usageVars(PgFlushStarts) /\ SF_usageVars(PgDelivered)
    /\ \A e \in Events : WF_usageVars(PersistCommits(e) \/ PersistFails(e))
    /\ SF_usageVars(FlushUsage /\ retry' = <<>>)

UsageFairSpec == UsageSpec /\ UsageFairness

-----------------------------------------------------------------------------
(* Properties                                                               *)

\* No event is twice in q.
OnceEach(q) == \A i, j \in 1..Len(q) : q[i] = q[j] => i = j

\* Every variable keeps its type; the retry buffer, the outbox and a batch hold an
\* event once (the unique index on event_id), also when a transaction is repeated.
UsageTypeOK ==
    /\ event \in [Events -> {"none", "recording", "settled"}]
    /\ \A q \in {retry, batch, outbox} : q \in Seq(Events) /\ OnceEach(q)
    /\ life \in Life /\ exits \in 0..MaxExits
    /\ rows \subseteq Events /\ totals \in Nat
    /\ ledger \subseteq Events
    /\ dropped \subseteq Events /\ lost \subseteq Events

\* "Rows leave the retry deque only after that commit": a usage event whose first
\* write has ended is in SQLite or in the retry buffer, through failing
\* transactions, engine teardowns and an orderly exit, until the process that holds
\* the buffer is gone.
UsageKept ==
    \A e \in Events :
        event[e] = "settled" => e \in rows \cup Members(retry) \cup lost

\* A model's token totals sum every event exactly once, however often its
\* transaction was retried after an ambiguous commit.
CountedOnce == totals = Cardinality(rows)

\* An event that was created reaches the ledger, is pruned past the cap, or is lost
\* with the process, across failing writes, exits and restarts.
EventuallyDelivered ==
    \A e \in Events : event[e] # "none" ~> e \in ledger \cup dropped \cup lost
=============================================================================
