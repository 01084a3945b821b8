# Formal model of mnemosyne-inference

TLA+ specifications of the parts of mnemosyne-inference whose correctness depends
on interleavings, failures and restarts, the TLC configurations that check them on
small instances, and TLAPS proofs of the properties that matter most.
`PROJECT.json` lists components, runs, mutants, source ranges, hazards, findings
and theorems.

## 1. The system

mnemosyne-inference serves language, embedding and image models from workstations
and combines them into a fleet.

* **CUDA manager** (repository root). A FastAPI process per node. It owns one
  inference engine process at a time (vLLM, llama.cpp or SGLang), lets requests in
  through `cuda_residency.py`, forwards them, meters usage, installs models.
* **Fleet gateway** (`fleet/`). One process that polls the nodes' snapshots,
  chooses a node per request, forwards it, fails over, and keeps a route history.
* **macOS service** (`macos/service`). The Apple counterpart of the manager, with
  several engine adapters, a model library and self-updating runtimes; plus a Swift
  menu application and an image worker.

### Inventory

| component | state | operations | interacts with | hard behaviour | what makes it correct |
|---|---|---|---|---|---|
| CUDA residency coordinator (`cuda_residency.py`) | FIFO queue, lease count, epoch, resident, limits, gates, driver task, operation lock | acquire, acquire_current, release, cancel, reconfigure, unload, evict_if_idle, shutdown; the driver's switch | engine callbacks, proxy, eviction loop, reload, snapshot | deadlines racing grants, loads failing beside an unload, late releases, missed notifications | leases only on a live engine; exact count; barrier drains; FIFO; progress |
| CUDA fleet snapshot (`vllm_manager.py`, `fleet_protocol.py`) | sequence, process identity | fleet_snapshot | coordinator status, engine process, gateway validator | engine dies on its own, sampled mid-transition | every reachable state is publishable |
| CUDA proxy, response ownership (`vllm_manager.py`) | lease, upstream response, usage entry per request | _proxy, _wrap_stream, _cleanup_proxy_resources | coordinator, engine | cancellation inside cleanup | lease and socket given back; requests counted for their server |
| CUDA usage outbox (`catalog.py`, `pg_writer.py`) | buffer, SQLite outbox | record, flush, deliver | PostgreSQL | crash between write and trim | each event kept, summed once, delivered |
| CUDA catalog and installs (`catalog.py`, `downloader.py`, `download_worker.py`, `profiles.py`) | model rows, download rows, worker processes, reader threads, cache directories | install, retry, cancel, delete, clear, reload, resolve a name, recover | workers, file system, engine loads | worker death, restart, cancel racing completion, two names for one directory | one writer per directory; a row says what is on disk; no orphaned download |
| Fleet registry (`registry.py`) | last record per node, retired identities | poll_once, live_records | nodes, scheduler.wake | delayed and repeated documents, restarts | no rollback, TTL not extended |
| Fleet scheduler (`scheduler.py`) | queues, reservations, selection order | acquire, release, wake | registry, proxy | snapshot older than a reservation | never over-commits, FIFO, no lost wake-up |
| Fleet proxy (`proxy.py`) | excluded nodes, route ownership | handle, _attempt, _finish_owned | scheduler, store, nodes | ambiguous failures, cancellation anywhere | at most one execution; everything given back |
| Fleet store (`store.py`) | `routes` table | initialize, start_route, finish_route | proxy | crash with open rows, pruning | rows completed once, by their owner |
| macOS coordinator (`coordinator.py`) | like CUDA's, over several engines | acquire, release, abort, unload, evict_if_idle, reconcile, run_empty_maintenance, audit, shutdown | adapters, maintenance loop | engines changing behind its back, operations overlapping | leases on the deployment asked for, engines kept for them, reopens by itself |
| macOS runtime updates (`runtime_updates.py`, `runtime.py`) | staged and active versions, pointer file, journal, oMLX's state | check, prepare, stage, activate, roll back, upgrade oMLX | coordinator's empty barrier, file system, Homebrew | crash at any step, failure after the pointer moved, damaged directories | a working runtime is never taken away; the engine runs what is active; the journal is true |
| macOS engine processes (`engines/ds4.py`, `engines/llamacpp.py`, `engines/base.py`) | handle and record of the owned process | load, health, unload, recover | kernel, record file | service dies around spawn and record; pids reused; probes that fail | only own processes are signalled; no running engine is forgotten |
| macOS oMLX adapter (`engines/omlx.py`, `engines/http.py`) | the handle it reports | load, unload, rescan, await | external service | lost answers, loads that finish late, preloading | what it reports stays true |
| macOS library and installs (`installer.py`, `install_store.py`, `runtime.py`) | install ledger, jobs, configuration file | install, retry, cancel, dismiss, register, save, import, delete | file-system helpers | restart in a download, concurrent retries, writers of one file | rows have an owner; no writer undoes another |
| macOS requests and usage (`app.py`, `usage_store.py`, `usage_delivery.py`) | lease, usage entry, outbox, stop stage | proxy, record, peek, write, acknowledge, stop | coordinator, SQLite, PostgreSQL | disconnects in the clean-up, stop racing a response, pruning during a flush | an orderly stop loses nothing; nothing leaves the outbox unsent and uncounted |
| macOS benchmarks (`benchmarking.py`, `runtime.py`) | records, cached fingerprints, context windows | benchmark, context profile, choose, reject | runtime versions, coordinator | rejection while a run is under way, restart, drift | discarded evidence does not come back |

Parsing, configuration validation, HTML, search, packaging and the user interfaces
keep no state whose interleavings matter and are not modelled (section 6).

## 2. Modules

| module | models | extends or uses |
|---|---|---|
| `ModelLeaseService` | abstract: what a residency coordinator promises | |
| `CudaResidency` | `cuda_residency.py`, whole | refines `ModelLeaseService` |
| `CudaResidencyProofs` | proofs: types, no lost wake-up, FIFO, the published document | `CudaSnapshot` |
| `CudaResidencySafety` | proofs: lease safety | `CudaResidencyProofs` |
| `CudaResidencyRefinement` | proofs: the coordinator implements the service; the barrier | `CudaResidencySafety`, `ModelLeaseService` |
| `CudaSnapshot` | the document of `fleet_snapshot` and its validation | `CudaResidency` |
| `CudaResponses` | `_proxy` from admission on: ownership, usage event, request count | |
| `CudaUsage` | where usage events go: SQLite, retry buffer, outbox, PostgreSQL | |
| `FleetRegistry` | the replay fence of `poll_once` | |
| `FleetDispatch` | registry polls, scheduler, attempts and failover against nodes | |
| `FleetRoutes` | route ownership and route history | |
| `CudaInstalls` | catalog rows, download workers, reader threads, reloads, deletes | |
| `MacResidency` | `coordinator.py`, whole | |
| `MacUpdates` | versions, pointer, journal, oMLX upgrades | |
| `MacProcess` | an engine process the service owns, and its record | |
| `MacOmlx` | the adapter of the external oMLX service | |
| `MacLibrary` | download jobs, ledger, configuration writers, deletion | |
| `MacRequests` | a request's life, its usage, the outbox, the stop | |
| `MacBenchmarks` | evidence for choosing an engine | |
| `FleetDispatchProofs` | proofs: dispatch to the nodes | `FleetDispatch` |
| `RecordsProofs` | proofs: route rows, responses, usage ledger | `FleetRoutes`, `CudaResponses`, `CudaUsage` |
| `CatalogsProofs` | proofs: replay fence, installs | `FleetRegistry`, `CudaInstalls` |
| `MacResidencyProofs` | proofs: leases, engines and maintenance of the macOS coordinator | `MacResidency` |
| `MacServiceProofs` | proofs: the parts of the macOS service beside it | the six other `Mac*` modules |
| `MCCudaResidency`, `MCCudaSnapshot`, `MCFleetDispatch`, `MCCudaInstalls`, `MCMacResidency` | constants for TLC | the module named |
| `MCRecords` | checks the three accounts of requests together | `FleetRoutes`, `CudaResponses`, `CudaUsage` |
| `MCCatalogs` | checks the two catalogs together | `CudaInstalls`, `FleetRegistry` |
| `MCMacService` | checks the parts of the macOS service beside the coordinator | the six other `Mac*` modules |

`MCRecords`, `MCCatalogs` and `MCMacService` put modules that share no variable into
one run. A variable `part`, chosen initially and never changed, says which of them
moves; the others stay in their initial states, where none of their fair actions is
enabled, so each behaviour is a behaviour of one part and nothing is lost by not
interleaving them. Their interactions are assumptions of the parts, named below.

### CudaResidency

Everything in `cuda_residency.py` runs on one asyncio loop and never awaits with
its condition held other than in `Condition.wait`. A step of the model is therefore
the code between two suspension points of one task, and a suspended task is a
program counter: `client[c]` for callers of `acquire`, `driver` for `_drive`,
`maint` for `_drain_and_unload`. `Turn` is one pass through the top of `_drive`'s
loop; it also runs at the end of a successful and of a failed transition, because
the code does not suspend there. Granting and failing a prefix of the queue is
stated as the number of waiters it concerns (`IsGrantCount`, `IsFailCount`).
Deadlines are choices. `engine` is what the engine process really serves, which
callbacks change and the coordinator can only believe (`resident`). A callback that
raises leaves either outcome behind.

Left out: callback durations, diagnostics, the status sequence number. A caller
whose `acquire` fails at once (full queue, closed gate) changes nothing and is no
action.

### CudaSnapshot

A state function on `CudaResidency`: what `fleet_snapshot` returns in that state
with the engine process alive or dead, the relations the gateway's validators demand of
queue, health, residency, transition and capacity (`Admission.admission_is_consistent`,
`Capacity.capacity_is_consistent` and `Snapshot`'s own), and one more: free permits are
advertised for a resident only while its engine lives (`AdvertisesTheLiving`). The
configured profiles are fixed, and the queue limit is claimed as long as no reload
changes it; a reload can break both (section 5, observations). Aliases, identities,
digests, saturation and counts copied from one field to another are left out.

### CudaResponses

A request runs through admission, the opening of the upstream, an event stream or a
body, the persistence of its one usage event, and its cleanup. `phase` is where its
task is suspended. Cancellation, disconnection and upstream errors end it anywhere;
while the usage is being persisted they are remembered in `after` and take effect
once SQLite has committed or failed. The streaming path (`_wrap_stream`,
`_StreamingProxyOwnership`) and the body path of `_proxy` share the actions; both
count the request as they begin to finish. `total` stands for the totals the usage
parser has seen, numbered in the order of the stream. The count in
`request_count_delta` is a set of requests, so that a property can ask whom they were
counted for; a flush that raises may have been committed, in which case the requests
stay buffered and are counted again (`models.request_count` may over-count, and only
its attribution is claimed). Engines are started and stopped as the coordinator's
`DrainedBeforeStop` allows: never beneath a lease. The exception of finding 1 is kept
out here on purpose.

### CudaUsage

A usage event is created by a response, written in a thread in one transaction with
its outbox row, and put into the retry buffer if that raises. `retry`, `batch` and
`outbox` are sequences of event ids; the batch is what `_pg_flush_once` read before
its await. Any transaction that raises may have been committed, since the manager
promises idempotence for ambiguous commits (repository README, token sidecar). An
interrupted PostgreSQL batch has written any prefix. `life` follows
`manager_lifespan`'s exit: loops cancelled, drain, last flush, last delivery, engine
teardown, catalog closed; responses may outlive a drain that timed out, and then find
the catalog closed. The process may also be killed anywhere. `dropped` and `lost` are
history. The sidecar is enabled throughout; without it the outbox stays empty.

### FleetRegistry

One enrolled node and any number of its processes. A poll may be answered with any
document ever produced, which covers delay, repetition and reordering. Time is an
age in ticks.

### FleetDispatch

Requests run through `handle`, `acquire` and `_attempt`; a poll has a start, an
answer and an end, because the answer is sampled between the two. The scheduler
compares the time of a reservation's admission with the start of the poll behind a
record; the model keeps the two Booleans that this comparison can yield (`before`
for the poll in flight, `counted` for the record). A snapshot carries sets of
requests so that properties can speak of them; the gateway's definitions use their
cardinalities only. `recency` is the order of `_last_selected`. Nodes are external:
they admit before working, queue up to a limit and otherwise refuse with proof, and
they may be busy with other traffic, restart, or never answer. The replay fence is
`FleetRegistry`'s and is not repeated here: polls of one node do not overlap.

### FleetRoutes

For each attempt the request task, the insert task and the cleanup task of
`_RouteOwnership`, the reservation, the response and the row. Cancellation may
arrive at every suspension, repeatedly. SQLite calls may fail at any time, the
gateway may be killed (`Crash`) and started (`Restart`, `FleetStore.initialize`).

### CudaInstalls

The admin handlers run on the event loop without awaiting and do not interleave with
each other; the worker subprocess of a download, the reader thread that follows it,
the engine and a crash interleave with all of them. A handler that writes twice (the
row, then the spawn; the wipe, then the rows) is two actions with the loop kept to
itself by `pending`, because the process may die between them. A repository is a cache
directory, of a Hugging Face id (`Home`) in one storage location, that is absent, partly
or fully written; two aliases may share one, and the legacy delete wipes an id in every
location that has a row of it. The reader's marks (last event, exit code, worker
unregistered) are separate steps in the code's order.

What fails part way is modelled: a wipe that raises leaves any part of the weights, also
none (`HalfWipedTo`); a delete over several locations stops at the one that raises; a row
write that raises leaves the rows behind it unwritten (`FinishDeleteFails`); so do a
reader's marks and the mark of a spawn that failed (`faulted`). `untold` names the
directories that lost weights in this way, or to a forced retry, without their rows being
told. `Reload` is `apply_config` with its reconciliation; `BusyReload` says whether a
reload may repoint an alias that is in use, which breaks the row's tie to its worker
(section 5) and is excluded in the runs.

### MacResidency

Steps are cut at suspension points as in `CudaResidency`. What differs is modelled:
engines are only observed (`loaded` may change by `Drift`), an operation is a program
counter in one of `Slots`, several may be under way, and only the operation lock orders
them. The maintenance loop of the runtime is the operation that recovers a node which
failed closed. A caller that was answered is not cancelled before it has resumed
(`Answered`), and the cancellation of an operation itself is not modelled. An operation
that awaits a driver which is cancelled, or whose cleanup fails, raises, except shutdown
(`DriverLost`). `_stopping` keeps out requests, reconcile and a second shutdown; the other
operations may still begin. An idle caller keeps no old epoch in its record.

### MacUpdates

One managed engine stands for llama.cpp, MFLUX and DS4. A version is published,
prepared, staged beside the others, renamed into place, and made active by replacing
one pointer file behind `run_empty_maintenance`; files are replaced atomically, so a
crash leaves each old or new. `Reject` is the path of a failure after the pointer moved.
A self-test ends with `record_validation`, which no lock or running update holds back: it
reads the active version (`ReadValidation`) and appends it to the journal in a later step
(`RecordValidation`). Journal events are transitions, validations or the reset of an
unreadable journal. An engine start replaces the one there was. oMLX is stopped, upgraded and started under the same barrier. Download, digest and
signature of an archive are one outcome.

### MacProcess

Pids are reused. An identity is the pid, a start number and the argv, abstracted to the
alias it was built for; the record on disk and the adapter's memory each hold one. The
service may die between spawn, identification and record; probes, signals and writes
fail. A probe and the signal that follows it are one step. `givenUp` names engines the
code lets go of knowingly (section 5).

### MacOmlx

The adapter posts a mutation and afterwards believes only inventories. The answer may be
lost, refused or late, and the service goes on on its own: it finishes loads and
unloads, stops, restarts, and preloads its pinned model after a rescan.

### MacLibrary

A profile is a pair of an alias and a file; everything of the configuration that needs a
restart is one switch, `engines`. Jobs are tasks cut at their awaits: reserve, download,
register, clean up; retries of one row may overlap (`retrying` is a sequence). Writes of
the ledger are made in threads and are taken in the order they were issued. The settings
window holds a draft it read earlier, and the revision check decides whether it may be
saved. A deletion removes files, saves the configuration and updates the ledger in
separate steps, each of which may fail.

### MacRequests

A request is admitted, served, answered, its usage recorded in a thread and its lease
returned; disconnects may come at every await, also repeatedly in the clean-up. A streamed
response shields its clean-up; one that is not streamed awaits the recording thread
unshielded, so its cancellation returns the lease at once (`BodyCancelled`), and the call
it awaited is dropped or ends by itself (`LateCall`). The outbox is a sequence pruned at `OutboxRows`; a flush reads a batch, writes it to
PostgreSQL and acknowledges it, in three steps. `StopBegins`, `Drained`, `StoreCloses`
and `ProcessEnds` are the order of `stop`. The coordinator appears by its lease only.

### MacBenchmarks

Records are keyed by the runtime fingerprint and the candidates they were taken with. A
run reads the fingerprints, measures each candidate and stores; a request may fail on the
chosen alternative meanwhile and reject its evidence. The cache, the table, drifts of a
runtime or of the configuration, and restarts are all explicit.

## 3. Runs

Deadlock is checked except where a bounded amount of work may simply be over: in
`MCRecords`, `MCCatalogs`, `MCCudaPartialInstall`, `MCMacResidency`, `MCMacService` and
`MCMacDelete`.

| run | bounds | shows |
|---|---|---|
| `MCCudaLeases` | 2 callers, 2 deployments, epoch up to 2, no load failure, all operations | leases on a live engine, exact count, refinement of `ModelLeaseService`; waiters progress, maintenance ends |
| `MCCudaNode` | 3 callers, load and stop failures, all operations, reloads | every published document is coherent and advertises no dead engine, no lost wake-up, no forgotten engine, FIFO |
| `MCCudaUnloadRace` | 2 callers, failures and unload | **violation**, finding 1 |
| `MCFleetCapacity` | 1 node that restarts once, 2 models, 3 requests | no over-commit, no lost wake-up, FIFO per model |
| `MCFleetFailover` | 2 nodes, 1 request, local traffic, closing admission | at most one execution, every request ends |
| `MCRecords` | 2 routes, history of 1, one crash; 2 requests, 2 models, 1 usage block; 3 events, cap 2, batches of 2, one exit or crash | nothing stranded, open rows owned; requests counted for the model that served them, leases and connections come back; events kept, summed once, delivered in the end |
| `MCCatalogs` | 2 aliases, one id in 2 storage locations, 3 configurations, 2 installs, 2 reloads, restarts, loads or failed writes; 4 node processes, fence of 2, TTL 0 | one writer per directory, launchable rows have a snapshot, active downloads are owned; no rollback |
| `MCCudaPartialInstall` | the same, 1 event | **violation**, finding 2 |
| `MCMacResidency` | 2 callers, 2 deployments, one operation at a time of seven kinds, 1 upset, epoch up to 2 | leases counted and on the deployment asked for, no engine changed beneath one, waiters answered, a closed node reopens |
| `MCMacBarrier` | the same with two operations at a time, unload and maintenance | **violation**, finding 3 |
| `MCMacService` | 2 versions, journal of 2, 1 mishap; 2 pids, 3 starts, 2 failed probes or crashes; 2 oMLX models, 1 pinned; 2 aliases, 2 files, 2 installs, 1 restart, 2 requests of the user; 2 requests, outbox and batch of 1, 1 trouble; 2 benchmarks, 1 drift | no update takes a runtime away, the engine runs the active version, the journal is true; strangers are not signalled, engines are tracked; oMLX is reported truly; ledger rows are owned, configuration writers keep each other's work; a stop keeps usage, outbox accounted; rejected evidence stays out |
| `MCMacDelete` | 2 aliases, 2 files of one repository | **violation**, finding 4 |

Why the bounds suffice: three callers are a holder, a waiter for the resident and a
waiter for another deployment, the smallest set in which overtaking, draining and a
full queue meet; two callers already give a lease and a switch or an unload that
must wait for it. Two deployments allow a switch back; two epochs allow a switch or
an unload and a load after it. The lease properties hold with failing loads too when
the only maintenance is shutdown; that case is covered by the theorems of section 4.
One permit and one queue place per node make the third request exceed both. Four
processes overflow a fence of two retired identities. Two attempts overflow a
history of one row. Three events overflow an outbox of two and arrive while a batch of
two is being written. Two requests over two models let one be counted after the
other's engine has gone. Two aliases of one repository are the case its one-writer
checks are for, and two locations of one id the smallest wipe that can stop half-way; two installs let a retry meet the end of the first. Two versions give an
update and a rollback, and a journal of two events lets a late validation follow the
transition that counts. Two pids and
three starts reuse a pid while an old record names it. Two files of one repository are
two installs into one directory. An outbox of one row is pruned by the second event
while the first is in flight. Larger macOS residency instances (two operations of every
kind) exceed what TLC finishes in minutes; `MCMacBarrier` shows that with two the barrier
property fails, so `MCMacResidency` keeps to one. Symmetry is used in safety runs only,
never with a liveness property.

### Fairness

* `CudaResidency`: ready tasks run; callbacks end (engine start-up has its own
  deadline, `stop_engine` kills after one); a response ends and its lease is
  released. No request, reload or maintenance call is fair, and no deadline either,
  so progress does not rest on timeouts.
* `FleetDispatch`: the queue deadline of `acquire`, ready coroutines, and the end of
  an attempt (the HTTP client has `request_timeout_seconds`). Polls and nodes are
  unfair: a dead node must not keep a request forever.
* `CudaResponses`: an engine answers or breaks off, SQLite calls and cleanup tasks
  end. No arrival, flush or engine change is fair.
* `CudaUsage`: the stages of an exit are run, and a manager that stopped is started
  again (it runs under a container's restart policy). Strong fairness of the delivery
  loop and of its success, and of a successful flush of the retry buffer: both loops
  run for ever, and neither PostgreSQL nor SQLite fails for ever. Nothing less would
  let an event be delivered.
* `MacResidency`: ready tasks run, adapters return or raise, a response
  ends, and the maintenance loop comes round again: strong fairness of
  `Recover`, because other operations may take the slot in between. Requests, control
  calls, abandoned waits and expired drains are not fair.

## 4. Proofs

Every safety property a passing run checks, invariant or action property, is also
proved, for every value of the constants that satisfies the named assumption of its
module. The assumptions are finite sets of callers or requests where they are counted,
bounds that are natural numbers (positive where the code insists on it), and absent
values that are no values (`None \notin Deployments`, `0 \notin Pids`); the limits on
failures, restarts or events that keep TLC's runs finite are arbitrary numbers here.

The largest inductive invariant, `MacInv`, was checked by TLC before it was proved (two
callers, two deployments, every operation, 92,889 states); the others contain properties
the runs check. The lemmas follow the actions: one per operation or group of operations, and one for each
operator on queues, rows or identities that several of them use.

### CUDA coordinator

* `CudaResidencyProofs!TypeCorrect`, `WakeupSafe`. The latter's invariant is
  `NoLostWakeup` with the type invariant: a pass of the driver goes to sleep only
  after it has looked at the queue and found the resident full or leases out, and
  every other action leaves the queue alone, wakes the driver or starts one. No
  proviso about failures.
* `FirstComeFirstServed` (`NoOvertaking`) from `QueueOK`, that waiters are distinct
  callers who wait for a deployment: a queue that names a caller twice would let a
  grant leave it waiting. No proviso.
* `AlwaysPublishable` (`SnapshotCoherent`) from `ShownOK`, `WithinDepth` and `QueueOK`:
  the document shows a target only in a transition, idle and ready agree with the
  resident, and an open coordinator is neither degraded nor stopping (not inductive
  alone; it needs that a shutdown in progress has set `_stopping`); the queue keeps to a
  limit that no reload changes (`DepthNext`, `PassShrinks`); and every waiter wants an
  advertised deployment (`QueueShown`). No proviso about failures.
* `CudaResidencySafety`: `LeasesSafe`, `CountExact`, `DrainSafe`, `NoOrphan` from one
  inductive invariant `SafeInv`: waiters are distinct; leases are counted, of this
  epoch and on the resident that the engine serves; an operation keeps the gate
  closed and past its drain no lease is out; the operation lock belongs to whoever is
  past it; a switch happens beneath no lease. The lease properties are not inductive
  alone: that a stop meets no lease needs the barrier, which needs the gate, which
  needs the lock. They are proved under `Sound`: loads do not fail, or the only
  maintenance is shutdown. Finding 1 shows that without it they are false.
* `CudaResidencyRefinement`: `Implements`, that the coordinator implements
  `ModelLeaseService`, and `BarrierSafe`, both from `SafeInv` under `Sound`: each
  action grants, returns, starts or stops as the service allows, or is a stutter.

### Records (`RecordsProofs`)

* `RoutesTypeCorrect`, `OwnershipSafe`, `OpenRowsSafe`, `RowsFinal`, from an invariant
  that ties the row to the progress of the insert and cleanup tasks of the same attempt.
* `ResponsesTypeCorrect` and `CreditSafe`. A count is added while the response has its
  lease, so the resident is the model that served it (`LeaseInv`), and what is buffered
  is always the resident's (`CountInv`), which is what dropping the count in
  `_kill_engine` is for.
* `UsageSafe` and `TotalsExact`, for any number of events, exits and any cap, from the
  invariant that is their conjunction with the types: a flush empties the buffer only
  with a commit, and a commit adds to the totals exactly what it adds to the table.

### Fleet dispatch (`FleetDispatchProofs`)

* `ExecutedOnce` from `RequestInv`, which says where a request can be at a node in
  each state of its coroutine: a request that will be attempted again is at no node and
  has not had a permit. `DispatchTypeCorrect` comes with it.
* `FifoPerModel`: a reservation is made by a request that finds its model's queue empty
  or that is at the head of it.
* `DispatchWakes` from `WakeInv`. `_select` is a search through four tiers;
  `CandidatesPlaceable` shows that it succeeds exactly where one predicate on a node,
  `Placeable`, holds, and the steps are then compared by that predicate: those that make
  a node placeable notify, all others take room away.
* `NodesNotOvercommitted` from `CapacityInv`. The property speaks of what the node
  really holds, the scheduler of a snapshot that is old. What ties them is
  `SnapshotSound`: a reservation that the poll was told has been admitted, and that
  still runs, is in the snapshot's running requests. So whatever is at the node is in the
  snapshot or among the unaccounted reservations, and their sum is what `_select` bounds.
  Restarts need `InstancesPast`: no reservation or snapshot is of a process still to come.

### Registry and installs (`CatalogsProofs`)

* `RegistryTypeCorrect`, `FenceSafe`, from the invariant that every accepted document
  is of the current process, and not newer than the record, or of a retired one.
* `RowsHaveOwners` (`ActiveRowOwned`) from `OwnerInv`: a reader that has read "complete"
  has no active row left, since it writes none afterwards. No proviso.
* `OneDownloadPerRepo` and `InstalledRowsLaunch` from `InstallsInv`: reader, worker and
  pipe of an alias keep step; a download under way has an active row that names the
  worker's repository; between its two writes a handler still finds what it checked
  before the first. Neither property is inductive alone: the check of
  `find_active_for` is on rows, the property on processes. A row that says installed has
  weights, or its directory is in `untold` or still to be told by the handler in progress;
  the wipes that fail only ever add to `untold`. Both are proved under
  `~BusyReload`, that no reload repoints an alias in use. TLC shows the first false
  without it (section 5, observations).

### macOS coordinator (`MacResidencyProofs`)

`LeasesServed` (`LeasesSound`), `EnginesKept` (`EnginesKeptForLeases`) and
`MaintenanceIsAlone`, from `MacInv`, for any failure, expired deadline, cancellation,
abort and drift. Its parts: waiters are distinct, and closed gates leave nobody waiting;
leases are counted, of this epoch; where the gates are open and nothing is being
switched the engines hold the resident alone, unless they drifted; a switch is beneath
no lease and, with the gates open, has a target, which keeps `acquire` from granting;
an operation has closed the gates, and past its drain no lease is out and past its wait
for the driver there is no driver; the lock belongs to whoever is inside it. A cancelled
driver is the hard case: its last adapter call may still take effect, and it is safe
because the gates are closed and either no lease is out or the service is stopping. The
theorems are proved under `Solo`, one operation in progress at a time. Finding 3 shows
that two at once break `MaintenanceAlone`.

### Other parts of the macOS service (`MacServiceProofs`)

* `RejectionLasts`: while the alternative is rejected no good record of it is in the
  store or in the cache that is reloaded from it.
* `OmlxReportsTrue`: a stopped service holds nothing, and only an operation that has
  ended has an outcome; then a late load cannot falsify what was reported.
* `EnginesServeActive`, `JournalTellsTruth`, `RuntimeKept` from `UpdInv`: behind the
  barrier no engine serves; at the last steps of an update the pointer is its version; the
  pointer names no version or one with a directory, which only outside damage spoils; the
  last transition of the journal is current while no update runs, since every ending of an
  update appends one (`AppendedLast`) and a validation appended after it is none.
  `JournalTellsTruth` speaks of a journal whose last transition was appended and followed
  by no crash or damage (`told`): a crash between the pointer and the append leaves the
  journal behind until the next update, and the code makes no other claim.
* `EventsAccounted` from `OutboxInv`: a batch to be acknowledged is in PostgreSQL.
* `UsageOutlivesStop` from `StopInv`: a response records before it gives its lease back
  (`ResponseOrder`), and past the drain of a stop whoever has a lease was given up on
  (`DrainedOrExcused`). Together they order record, drain and close. A request that was
  not streamed and was cancelled while it recorded is outside that order (`cut`).
* `RowsOwned`, `ProfilesOutlastWriters` from `LibInv`.
* `StrangersSafe`, `EnginesTracked` from `ProcInv`: an identity in the record, in the
  memory or in a handle is true for good, because no start identity is given out
  twice; record and memory never name two processes; an engine that is in no record is
  in a start-up in progress.

Proved but in no passing run: `DrainSafe` and `MaintenanceIsAlone` (their properties are
what `MCCudaUnloadRace` and `MCMacBarrier` violate without the proviso), `BarrierSafe`
and `RowsFinal`.

Checked by TLC only: liveness, which is outside the prover, as `ENABLED` is
(`WaitersProgress` of both coordinators, `MaintenanceEnds`, `Reopens`, `RequestsEnd`,
`ResourcesReturned`, `EventuallyDelivered`), and the properties of the
violation runs, which are false as they stand.

## 5. Findings

1. **A failing load reopens the unload barrier** (`MCCudaUnloadRace`).
   `cuda_residency.py:424` sets `_accepting = clean and not _stopping` although an
   unload or eviction closed it and is waiting for that very driver. The next request
   starts another driver, which loads and grants while the unload proceeds to
   `stop_engine`: the engine goes away beneath a lease, and the lease's epoch is
   bumped away, so `_active` never returns to zero.
2. **A partial snapshot is promoted to installed** (`MCCudaPartialInstall`).
   `_has_expected_weights` (`catalog.py:102`) is content with one file of the expected
   kind, so a reload or a restart during a download makes the row `installed` and
   launchable with a part of its weights.
3. **A timed-out unload reopens the maintenance barrier** (`MCMacBarrier`).
   `coordinator.py:833` sets `_accepting = True` whoever else has closed it; the
   engines are then emptied beneath a lease granted since.
4. **Deleting a model removes its neighbour's files** (`MCMacDelete`). A downloaded
   model's directory is derived from engine and repository, and is removed without the
   overlap check imported models get (`runtime.py:908`).

### Observations

Behaviour met while modelling that no run is devoted to; the models contain it and the
properties name it as an exception where it matters.

* `reconfigure` may lower the queue bound below the present queue
  (`cuda_residency.py:232`); the gateway rejects the node's document until it shrinks.
  The runs keep one queue depth.
* Pending reservations count only against records of the process they were made for
  (`scheduler.py:140`). Harmless for `NoOvercommit`, which counts per process.
* `record_usage` keeps a stream's first complete totals (`vllm_manager.py:3488`),
  although totals are cumulative.
* After a reload that rewrites the resident's or a waiter's profile the document names a
  deployment it does not advertise, and the gateway rejects it (`protocol.py:305`, `:336`).
* A forced retry wipes a cache directory that other aliases are installed in, without
  marking their rows, also when the install it makes way for is then refused
  (`vllm_manager.py:2330`). A wipe that raises may have removed all weights
  (`downloader.py:92`); a delete over several storage locations that raises at one has
  emptied those before it (`:2544`); a row write that raises leaves the rows behind it
  installed (`:2485`, `:2508`, `:2558`). All of these rows say `installed` without weights
  until a reload, a start or a completed delete: `untold`.
* A reload that repoints or drops an alias while it downloads (`catalog.py:529`) leaves
  the worker running without its row. `find_active_for` looks at rows only, so a second
  alias can start another worker in the same directory: `OneWriterPerRepo` fails with
  `BusyReload = TRUE`, and the runs set it to `FALSE`.
* A worker that is cancelled after it reported completion exits with 130, and the row is
  marked cancelled although the snapshot is complete (`downloader.py:219`); a reader
  thread, or a spawn that failed, which loses its catalog write leaves the row active
  until a restart: `faulted`.
* A validation is journalled for the version read before an activation that overtook it
  (`runtime_updates.py:917`, `:920`), so the journal's last event may name an older
  version; `JournalCurrent` is about the last transition.
* A request that is not streamed and is cancelled while its usage is recorded
  (`app.py:923`, awaiting `usage_delivery.py:165`) returns its lease with the write
  pending (`app.py:968`): a stop may close the store first, and the call may be dropped
  from the thread pool's queue, so that its usage is lost. `cut`.
* A `ps` probe that fails is read as "the process has exited" (`ds4.py:720`, `:1068`), and
  a record whose argv the present configuration cannot rebuild is removed
  (`ds4.py:688`): the engine runs on unowned.
* An install task cancelled before its first step, cancelled again in its clean-up, or
  whose storage cannot be read there, leaves its row active (`installer.py:258`, `:283`)
  until the service is restarted.
* A row that says downloaded may be registered after its files were deleted
  (`runtime.py:3164`); the load that follows reports it.
* A deletion applies a configuration that was waiting for a restart (`runtime.py:1038`),
  after which the pending restart is no longer reported.
* A benchmark whose runtime is updated while it measures is recorded for the version
  read before (`benchmarking.py:603`), and dropped as stale at the next reading.

## 6. Not modelled

* Parsing and validation: configuration files, snapshot field syntax, usage blocks,
  image payloads, model metadata. Sequential and without state.
* Remote queries: Hugging Face search and probes, release feeds. Their results are
  choices where a modelled component uses them.
* Operating-system work: building and verifying an archive, spawning processes, the
  file-system helpers and security-scope grants. Their outcomes, failure included, are
  choices in `MacUpdates`, `MacProcess`, `MacLibrary` and `CudaInstalls`.
* The MFLUX image adapter and the layout of Apple runtimes: variants of `MacProcess`.
* The macOS fleet snapshot, built from the coordinator's status like the CUDA one, and
  the migration of legacy profiles, which runs once at start.
* Performance figures, the statistics of a benchmark, status pages, dashboards, the
  control script, the menu application, the image worker, packaging and the web UI.

## 7. Plan

1. *Done*: CUDA coordinator with its abstract service and refinement, node snapshot,
   response ownership, usage accounting and delivery, installs; Fleet registry, dispatch,
   route ownership; the macOS coordinator, updates, engine processes, oMLX, library,
   requests and benchmarks; proofs of every safety property of the passing runs.
2. The macOS coordinator as a refinement of `ModelLeaseService`, from `MacInv`.
3. The delivery of both outboxes as a refinement of one abstract ledger.
4. Two operations at once in `MacResidency`: which pairs keep `MacInv` without `Solo`.
