---------------------------- MODULE CudaInstalls ----------------------------
(***************************************************************************)
(* Installs of the CUDA manager: the admin handlers (vllm_manager.py), the *)
(* catalog rows they write (catalog.py), the worker subprocess of a        *)
(* download (download_worker.py) and the reader thread that follows it     *)
(* (downloader.py), configuration reloads, cache deletes, the resolution   *)
(* of a requested name to a launch profile (profiles.py), and restarts.    *)
(*                                                                         *)
(* A handler runs on the event loop without awaiting, so handlers do not   *)
(* interleave with each other; workers, reader threads and crashes do      *)
(* interleave with them.  A handler that writes twice is split in two, and *)
(* "pending" keeps the loop to itself between the two.                     *)
(*                                                                         *)
(* A "repo" is a repository cache directory: a storage location and a      *)
(* Hugging Face id.  The id is named by its repo in the default location.  *)
(* cache_path and resolved_sha are one field, the repo whose snapshot they *)
(* name.                                                                   *)
(***************************************************************************)
EXTENDS Naturals, Sequences, FiniteSets

CONSTANTS Aliases,      \* names of catalog rows
          Repos,        \* repository cache directories
          GgufRepos,    \* those installed for llama.cpp, by their GGUF file
          Home,         \* [Repos -> Repos]: the same id, default location
          CacheOf,      \* [Repos -> Aliases \cup {NoAlias}]: synthetic_alias
                        \* of an id, NoAlias of the other repos
          Configs,      \* contents config.yaml may have
          NoRepo, NoAlias,
          BusyReload,   \* a reload may repoint an alias that is in use
          MaxInstalls,  \* bound: installs that are queued
          MaxEvents     \* bound: reloads, restarts, engine loads and catalog
                        \* writes that fail, together

ASSUME InstallsAssumption ==
    /\ NoRepo \notin Repos /\ NoAlias \notin Aliases
    /\ Home \in [Repos -> Repos] /\ \A r \in Repos : Home[Home[r]] = Home[r]
    /\ CacheOf \in [Repos -> Aliases \cup {NoAlias}]
    /\ Configs \subseteq [models : [Aliases -> Repos \cup {NoRepo}], declared : SUBSET Repos]
    /\ BusyReload \in BOOLEAN
    /\ MaxInstalls \in Nat /\ MaxEvents \in Nat

VARIABLES
    \* SQLite and the file system
    models,     \* the models table, by alias
    downloads,  \* status of the alias's latest downloads row, "none" without one
    disk,       \* [Repos -> {"absent", "part", "full"}]: the snapshot's weights
    \* the manager's process
    config,     \* _config
    pending,    \* a handler between its two writes
    reader,     \* _active and its reader threads, by alias
    engine,     \* the engine process and the profile it was launched with
    life,       \* "up", "stopping", "down", "recovered"
    \* worker subprocesses, by alias, and the events they wrote
    worker, pipe,
    \* bounds and history
    installs, events,
    faulted,    \* the catalog write that ends a download was lost
    untold      \* repos that lost weights to a wipe, their rows not told

catalog == <<models, downloads>>
procs   == <<reader, worker, pipe>>
bounds  == <<installs, events, faulted>>
installsVars    == <<models, downloads, disk, config, pending, reader, engine, life,
             worker, pipe, installs, events, faulted, untold>>

ActiveStatus == {"queued", "downloading"}
NoRow     == [source |-> "none", repo |-> NoRepo, status |-> "none", pin |-> NoRepo]
NoWorker  == [repo |-> NoRepo, stage |-> "none", signalled |-> FALSE, rc |-> "none"]
NoEngine  == [stage |-> "none", alias |-> NoAlias, repo |-> NoRepo, pin |-> NoRepo]
NoPending == [op |-> "none", alias |-> NoAlias, repo |-> NoRepo, wiped |-> {}]
IdleReader == [at |-> "none", complete |-> FALSE]

\* downloader.is_active
IsActive(a) == reader[a].at # "none"
Resident(a) == engine.stage = "resident" /\ engine.alias = a
Siblings(r) == {a \in Aliases : models[a].repo = r}
\* lookup_by_hf_id, of the id named by h, and the repos its rows are in
RowsOfId(h) == {a \in Aliases : models[a].repo \in Repos /\ Home[models[a].repo] = h}
ReposOfId(h) == {models[a].repo : a \in RowsOfId(h)}
\* Rows find_active_for may return: it takes any one of them.
ActiveFor(r) == {a \in Siblings(r) : downloads[a] \in ActiveStatus}
\* The backend an install of the repo settles on, from what the probe finds; a repo
\* that holds both kinds of weights has installs of one kind here, another
\* location may hold another revision of the id.
UsesGguf(r) == r \in GgufRepos
\* _resolve_storage, with room for the download
Stored(r) == r \in config.declared
CacheOnly(a) == \E r \in Repos : CacheOf[r] = a
Ids == {Home[r] : r \in Repos}
Free == life = "up" /\ pending = NoPending

-----------------------------------------------------------------------------
(* Plausible bugs, each one changing a single definition below              *)

BugIgnoresOtherAliases(a, r) == TRUE
BugMarksOnlyItself(wiped) == {pending.alias} \cap Aliases
BugMarksNothing(a) == UNCHANGED catalog

-----------------------------------------------------------------------------
(* catalog.py                                                               *)

\* A catalog write that raises changes nothing: a reader thread logs it and goes
\* on, a handler ends there.
WriteFails ==
    /\ events < MaxEvents /\ events' = events + 1
    /\ faulted' = TRUE
    /\ UNCHANGED catalog
WriteSucceeds == UNCHANGED <<events, faulted>>

\* mark_*: the model row, if it is still there, and the active downloads rows.
Mark(a, status, pin, download) ==
    /\ models' = IF models[a] = NoRow THEN models
                 ELSE [models EXCEPT ![a].status = status, ![a].pin = pin]
    /\ downloads' = IF downloads[a] \in ActiveStatus
                    THEN [downloads EXCEPT ![a] = download] ELSE downloads

\* _has_expected_weights: a GGUF row wants every shard, another row any weights.
HasExpectedWeights(r) == disk[r] = "full" \/ (disk[r] = "part" /\ ~UsesGguf(r))

\* _reconcile_cache_uncommitted, of the rows m under configuration c
Reconciled(m, c) ==
    [a \in Aliases |->
       IF m[a] = NoRow \/ m[a].status = "error" THEN m[a]
       ELSE IF m[a].repo \in c.declared /\ HasExpectedWeights(m[a].repo)
            THEN [m[a] EXCEPT !.status = "installed", !.pin = m[a].repo]
            ELSE [m[a] EXCEPT !.status = "partial", !.pin = NoRepo]]

\* _sync_from_config_uncommitted: config rows follow config.yaml, which wins
\* over an installed alias; a changed identity drops the snapshot.
Synced(c) ==
    [a \in Aliases |->
       IF c.models[a] = NoRepo
       THEN IF models[a].source = "config" THEN NoRow ELSE models[a]
       ELSE IF models[a].source = "config" /\ models[a].repo = c.models[a]
            THEN models[a]
            ELSE [source |-> "config", repo |-> c.models[a],
                  status |-> "partial", pin |-> NoRepo]]

\* apply_config, one transaction; removing a model removes its downloads rows.
\* It looks at the disk again, so every row that stays knows what was wiped.
ApplyConfig(c) ==
    /\ untold' = {}
    /\ models' = Reconciled(Synced(c), c)
    /\ downloads' = [a \in Aliases |-> IF Synced(c)[a] = NoRow THEN "none" ELSE downloads[a]]

\* delete_install_row
RowsWithout(gone) ==
    /\ models' = [a \in Aliases |-> IF a \in gone THEN NoRow ELSE models[a]]
    /\ downloads' = [a \in Aliases |-> IF a \in gone THEN "none" ELSE downloads[a]]

-----------------------------------------------------------------------------
InstallsInit ==
    /\ config \in Configs
    /\ models = [a \in Aliases |->
                   IF config.models[a] = NoRepo THEN NoRow
                   ELSE [source |-> "config", repo |-> config.models[a],
                         status |-> "partial", pin |-> NoRepo]]
    /\ downloads = [a \in Aliases |-> "none"]
    /\ disk = [r \in Repos |-> "absent"]
    /\ pending = NoPending
    /\ reader = [a \in Aliases |-> IdleReader]
    /\ worker = [a \in Aliases |-> NoWorker]
    /\ pipe = [a \in Aliases |-> <<>>]
    /\ engine = NoEngine
    /\ life = "up"
    /\ installs = 0 /\ events = 0 /\ faulted = FALSE
    /\ untold = {}

-----------------------------------------------------------------------------
(* Queueing an install                                                      *)

\* The active install of the repo, if the query returns one, is this alias's.
NoConflict(a, r) == ActiveFor(r) = {} \/ a \in ActiveFor(r)

\* The refusals of _install_internal
Admits(a, r) ==
    /\ config.models[a] = NoRepo
    /\ ~Resident(a)
    /\ ~IsActive(a)
    /\ Stored(r)
    /\ NoConflict(a, r)

\* start_install_tx
Queue(a, r) ==
    /\ models' = [models EXCEPT ![a] = [source |-> "ui_install", repo |-> r,
                                        status |-> "queued", pin |-> NoRepo]]
    /\ downloads' = [downloads EXCEPT ![a] = "queued"]
    /\ pending' = [op |-> "install", alias |-> a, repo |-> r, wiped |-> {}]
    /\ installs' = installs + 1

Request(a, r) ==
    /\ Free /\ installs < MaxInstalls
    /\ Admits(a, r)
    /\ Queue(a, r)
    /\ UNCHANGED <<disk, config, procs, engine, life, events, faulted, untold>>

\* /manager/install; the synthetic aliases are reserved.
Install(a, r) == ~CacheOnly(a) /\ Request(a, r)

\* The legacy /manager/download installs under the repo's synthetic alias.
DownloadLegacy(r) == CacheOf[r] # NoAlias /\ Request(CacheOf[r], r)

\* force_wipe_cache of a repo: all of it, or, when rmtree raises, some of it,
\* which may be all of its weights or none.
WipedTo(r) == {[disk EXCEPT ![r] = "absent"]}
HalfWipedTo(r) == {[disk EXCEPT ![r] = left] :
                     left \in {"absent", disk[r]} \cup IF disk[r] = "full" THEN {"part"} ELSE {}}

\* Repos that lose weights in this step
Lost == {r \in Repos : disk'[r] # disk[r]}

\* A retry repeats the row's own request, which a synthetic alias may not make;
\* with force it wipes the cache before the request's checks, telling no row.
Retry(a, force) ==
    /\ Free /\ installs < MaxInstalls
    /\ models[a].source = "ui_install" /\ ~IsActive(a)
    /\ NoConflict(a, models[a].repo) /\ Stored(models[a].repo)
    /\ IF force
       THEN /\ disk' \in WipedTo(models[a].repo)
            /\ untold' = untold \cup Lost
       ELSE UNCHANGED <<disk, untold>>
    /\ IF Admits(a, models[a].repo) /\ ~CacheOnly(a) THEN Queue(a, models[a].repo)
       ELSE UNCHANGED <<catalog, pending, installs>>
    /\ UNCHANGED <<config, procs, engine, life, events, faulted>>

\* A forced wipe that raises ends the handler before the request.
RetryWipeFails(a) ==
    /\ Free
    /\ models[a].source = "ui_install" /\ ~IsActive(a)
    /\ NoConflict(a, models[a].repo) /\ Stored(models[a].repo)
    /\ disk' \in HalfWipedTo(models[a].repo)
    /\ untold' = untold \cup Lost
    /\ UNCHANGED <<catalog, config, pending, procs, engine, life, bounds>>

\* start_install spawns the worker and the reader thread ...
Spawn ==
    /\ life = "up" /\ pending.op = "install"
    /\ worker' = [worker EXCEPT ![pending.alias] =
                    [repo |-> pending.repo, stage |-> "spawned",
                     signalled |-> FALSE, rc |-> "none"]]
    /\ reader' = [reader EXCEPT ![pending.alias] = [at |-> "reading", complete |-> FALSE]]
    /\ pending' = NoPending
    /\ UNCHANGED <<catalog, disk, config, pipe, engine, life, bounds, untold>>

\* ... or raises, and the handler marks the rows it queued.
SpawnFails ==
    /\ life = "up" /\ pending.op = "install"
    /\ \/ Mark(pending.alias, "error", NoRepo, "error") /\ WriteSucceeds
       \/ WriteFails
    /\ pending' = NoPending
    /\ UNCHANGED <<disk, config, procs, engine, life, installs, untold>>

\* cancel_install: SIGTERM, later SIGKILL
Cancel(a) ==
    /\ Free /\ IsActive(a) /\ worker[a].stage # "exited"
    /\ worker' = [worker EXCEPT ![a].signalled = TRUE]
    /\ UNCHANGED <<catalog, disk, config, pending, reader, pipe, engine, life, bounds, untold>>

-----------------------------------------------------------------------------
(* The worker subprocess                                                    *)

WorkerStep(a, from, w, event) ==
    /\ worker[a].stage = from
    /\ worker' = [worker EXCEPT ![a] = w]
    /\ pipe' = [pipe EXCEPT ![a] = @ \o event]
    /\ UNCHANGED <<catalog, config, pending, reader, engine, life, bounds, untold>>

Exited(a, rc) == [worker[a] EXCEPT !.stage = "exited", !.signalled = FALSE, !.rc = rc]

\* It installs its SIGTERM handler and announces the start,
WorkerStarts(a) ==
    /\ WorkerStep(a, "spawned", [worker[a] EXCEPT !.stage = "fetching"], <<"start">>)
    /\ UNCHANGED disk
\* snapshot_download lands a first weights file,
WorkerFetches(a) ==
    /\ WorkerStep(a, "fetching", worker[a], <<>>)
    /\ disk[worker[a].repo] = "absent"
    /\ disk' = [disk EXCEPT ![worker[a].repo] = "part"]
\* then the last one,
WorkerCompletes(a) ==
    /\ WorkerStep(a, "fetching", [worker[a] EXCEPT !.stage = "fetched"], <<"complete">>)
    /\ disk' = [disk EXCEPT ![worker[a].repo] = "full"]
\* and it exits.
WorkerExits(a) ==
    /\ WorkerStep(a, "fetched", Exited(a, "ok"), <<>>)
    /\ UNCHANGED disk
\* The download raises, or the process is killed.
WorkerFails(a) ==
    \E s \in {"spawned", "fetching", "fetched"} :
        /\ WorkerStep(a, s, Exited(a, "failed"), <<>>)
        /\ UNCHANGED disk
\* Its SIGTERM handler exits with 130, also after the last event.
WorkerCancelled(a) ==
    \E s \in {"fetching", "fetched"} :
        /\ worker[a].signalled
        /\ WorkerStep(a, s, Exited(a, "cancelled"), <<>>)
        /\ UNCHANGED disk

-----------------------------------------------------------------------------
(* _reader_loop                                                             *)

Running == life \in {"up", "stopping"}

\* mark_downloading; it is not written over a terminal row.
MarkDownloading(a) ==
    /\ downloads' = IF downloads[a] \in ActiveStatus
                    THEN [downloads EXCEPT ![a] = "downloading"] ELSE downloads
    /\ UNCHANGED models

ReadEvent(a) ==
    /\ Running /\ reader[a].at = "reading" /\ pipe[a] # <<>>
    /\ \/ /\ IF Head(pipe[a]) = "start" THEN MarkDownloading(a)
             ELSE Mark(a, "installed", worker[a].repo, "complete")
          /\ WriteSucceeds
       \/ WriteFails
    /\ reader' = [reader EXCEPT ![a].complete = @ \/ Head(pipe[a]) = "complete"]
    /\ pipe' = [pipe EXCEPT ![a] = Tail(@)]
    /\ UNCHANGED <<disk, config, pending, worker, engine, life, installs, untold>>

\* The terminal mark, by the exit status and whether "complete" was seen
TerminalMark(a) ==
    \/ /\ worker[a].rc # "cancelled" /\ reader[a].complete
       /\ UNCHANGED catalog
    \/ /\ worker[a].rc = "cancelled"
       /\ Mark(a, "partial", NoRepo, "cancelled")
    \/ /\ worker[a].rc # "cancelled" /\ ~reader[a].complete
       /\ Mark(a, "error", NoRepo, "error")

ReadEnd(a) ==
    /\ Running /\ reader[a].at = "reading" /\ pipe[a] = <<>> /\ worker[a].stage = "exited"
    /\ \/ TerminalMark(a) /\ WriteSucceeds
       \/ WriteFails
    /\ reader' = [reader EXCEPT ![a].at = "settled"]
    /\ UNCHANGED <<disk, config, pending, worker, pipe, engine, life, installs, untold>>

\* It leaves _active last.
ReaderLeaves(a) ==
    /\ Running /\ reader[a].at = "settled"
    /\ reader' = [reader EXCEPT ![a] = IdleReader]
    /\ worker' = [worker EXCEPT ![a] = NoWorker]
    /\ UNCHANGED <<catalog, disk, config, pending, pipe, engine, life, bounds, untold>>

-----------------------------------------------------------------------------
(* Deleting caches and records                                              *)

\* _check_aliased_delete_safety
Deletable(r) == \A s \in Siblings(r) : ~Resident(s) /\ ~IsActive(s)

\* The handlers check, wipe the repository directory, then write the rows.
DeleteInstall(a, op) ==
    /\ Free /\ models[a].source = "ui_install"
    /\ Deletable(models[a].repo) /\ Stored(models[a].repo)
    /\ disk' \in WipedTo(models[a].repo)
    /\ pending' = [op |-> op, alias |-> a, repo |-> NoRepo, wiped |-> {models[a].repo}]
    /\ UNCHANGED <<catalog, config, procs, engine, life, bounds, untold>>

DeleteInstallFails(a) ==
    /\ Free /\ models[a].source = "ui_install"
    /\ Deletable(models[a].repo) /\ Stored(models[a].repo)
    /\ disk' \in HalfWipedTo(models[a].repo)
    /\ untold' = untold \cup Lost
    /\ UNCHANGED <<catalog, config, pending, procs, engine, life, bounds>>

\* The refusals of the legacy delete by Hugging Face id
DeletableId(h) ==
    /\ RowsOfId(h) # {}
    /\ \A r \in ReposOfId(h) : Stored(r) /\ ActiveFor(r) = {}
    /\ \A s \in RowsOfId(h) : ~Resident(s)

\* It wipes the id in every location that has a row of it.
DeleteCacheLegacy(h) ==
    /\ Free /\ DeletableId(h)
    /\ disk' = [r \in Repos |-> IF r \in ReposOfId(h) THEN "absent" ELSE disk[r]]
    /\ pending' = [op |-> "legacy", alias |-> NoAlias, repo |-> NoRepo, wiped |-> ReposOfId(h)]
    /\ UNCHANGED <<catalog, config, procs, engine, life, bounds, untold>>

\* One wipe raises when the locations in `done` have been wiped.
DeleteCacheLegacyFails(h) ==
    /\ Free /\ DeletableId(h)
    /\ \E done \in SUBSET ReposOfId(h), r \in ReposOfId(h) :
         /\ r \notin done
         /\ \E d \in HalfWipedTo(r) : disk' = [x \in Repos |-> IF x \in done THEN "absent" ELSE d[x]]
    /\ untold' = untold \cup Lost
    /\ UNCHANGED <<catalog, config, pending, procs, engine, life, bounds>>

\* Rows a finished wipe marks partial, and rows it deletes
Unbacked(wiped) == {a \in Aliases : models[a].repo \in wiped}
Removed ==
    CASE pending.op = "full"   -> {pending.alias}
      [] pending.op = "legacy" -> {s \in Unbacked(pending.wiped) :
                                     CacheOnly(s) /\ models[s].source = "ui_install"}
      [] OTHER -> {}

\* The rows `told` are marked partial, or deleted, each in its own transaction.
TellRows(told) ==
    /\ models' = [a \in Aliases |->
                    IF a \notin told THEN models[a]
                    ELSE IF a \in Removed THEN NoRow
                    ELSE [models[a] EXCEPT !.status = "partial", !.pin = NoRepo]]
    /\ downloads' = [a \in Aliases |-> IF a \in told \cap Removed THEN "none" ELSE downloads[a]]

Deleting == life = "up" /\ pending.op \in {"cache", "full", "legacy"}

FinishDelete ==
    /\ Deleting
    /\ TellRows(Unbacked(pending.wiped) \cup Removed)
    /\ untold' = untold \ pending.wiped
    /\ pending' = NoPending
    /\ UNCHANGED <<disk, config, procs, engine, life, bounds>>

\* A row's write raises and ends the handler: the rows behind it are not told.
\* A full removal deletes its own row first.
FinishDeleteFails ==
    /\ Deleting /\ events < MaxEvents
    /\ \E told \in SUBSET Unbacked(pending.wiped) :
         /\ told # {} /\ pending.op = "full" => pending.alias \in told
         /\ TellRows(told)
    /\ untold' = untold \cup pending.wiped
    /\ events' = events + 1
    /\ pending' = NoPending
    /\ UNCHANGED <<disk, config, procs, engine, life, installs, faulted>>

\* Clearing the record of a finished download; a synthetic row goes with it.
ClearDownload(a) ==
    /\ Free /\ models[a].source = "ui_install"
    /\ downloads[a] \notin ActiveStatus \cup {"none"} /\ ~IsActive(a)
    /\ IF CacheOnly(a) THEN RowsWithout({a})
       ELSE downloads' = [downloads EXCEPT ![a] = "none"] /\ UNCHANGED models
    /\ UNCHANGED <<disk, config, pending, procs, engine, life, bounds, untold>>

\* The legacy one looks at the live worker only.
ClearDownloadLegacy(a) ==
    /\ Free /\ CacheOnly(a) /\ models[a].source = "ui_install" /\ ~IsActive(a)
    /\ RowsWithout({a})
    /\ UNCHANGED <<disk, config, pending, procs, engine, life, bounds, untold>>

-----------------------------------------------------------------------------
(* Configuration, resolution and the engine                                 *)

InUse(a) == IsActive(a) \/ engine.alias = a

\* _reload_config, from SIGHUP or /manager/reload: the catalog, then _config
Reload(c) ==
    /\ Free /\ events < MaxEvents
    /\ BusyReload \/ \A a \in Aliases : InUse(a) => c.models[a] = config.models[a]
    /\ ApplyConfig(c)
    /\ config' = c
    /\ events' = events + 1
    /\ UNCHANGED <<disk, pending, procs, engine, life, installs, faulted>>

Profile(a, r, pin) == [stage |-> "loading", alias |-> a, repo |-> r, pin |-> pin]

\* _synthesize_profile
RawProfile(r) == Profile(NoAlias, r, NoRepo)

\* resolve_profile for a configured alias: the commit comes from a row of the
\* same model that is installed; llama.cpp needs that row and its file.
ConfigProfiles(a) ==
    LET repo == config.models[a]
        ready == models[a].status = "installed" /\ models[a].repo = repo
    IN  IF UsesGguf(repo) /\ ~(models[a].status = "installed" /\ disk[repo] # "absent") THEN {}
        ELSE {Profile(a, repo, IF ready THEN models[a].pin ELSE NoRepo)}

InstalledRows(h) == {a \in RowsOfId(h) : models[a].source = "ui_install"}

\* _resolve_request_model: the profiles a name may resolve to, none when it is
\* refused.  An id stands for its installed aliases, or for itself when no alias
\* has it.
Resolve(name) ==
    IF name \in Aliases
    THEN IF config.models[name] # NoRepo THEN ConfigProfiles(name)
         ELSE IF models[name].source = "ui_install" /\ models[name].status = "installed"
                 /\ models[name].repo \in config.declared
              THEN {Profile(name, models[name].repo, models[name].pin)}
              ELSE {}
    ELSE IF InstalledRows(name) = {} THEN {RawProfile(name)}
         ELSE {Profile(a, models[a].repo, models[a].pin) :
                 a \in {b \in InstalledRows(name) : models[b].status = "installed"
                                                    /\ models[b].repo \in config.declared}}

\* /manager/load or a proxied request: the coordinator launches the profile,
\* which is resident only once it is healthy.
Load(name) ==
    /\ Free /\ engine.stage = "none" /\ events < MaxEvents
    /\ engine' \in Resolve(name)
    /\ events' = events + 1
    /\ UNCHANGED <<catalog, disk, config, pending, procs, life, installs, faulted, untold>>

EngineReady ==
    /\ Running /\ engine.stage = "loading"
    /\ engine' = [engine EXCEPT !.stage = "resident"]
    /\ UNCHANGED <<catalog, disk, config, pending, procs, life, bounds, untold>>

\* Startup failure, unload, eviction, swap or death
EngineStops ==
    /\ Running /\ engine.stage # "none"
    /\ engine' = NoEngine
    /\ UNCHANGED <<catalog, disk, config, pending, procs, life, bounds, untold>>

-----------------------------------------------------------------------------
(* The manager's process                                                    *)

\* The exit of manager_lifespan sends SIGTERM to every worker.
Shutdown ==
    /\ Free
    /\ life' = "stopping"
    /\ worker' = [a \in Aliases |-> [worker[a] EXCEPT !.signalled = worker[a].stage \notin {"none", "exited"}]]
    /\ UNCHANGED <<catalog, disk, config, pending, reader, pipe, engine, bounds, untold>>

\* The process ends, shut down or not: its threads end with it, and workers
\* die of their parent-death signal.
ProcessEnds ==
    /\ Running /\ events < MaxEvents
    /\ life' = "down"
    /\ events' = events + 1
    /\ pending' = NoPending
    /\ reader' = [a \in Aliases |-> IdleReader]
    /\ worker' = [a \in Aliases |-> NoWorker]
    /\ pipe' = [a \in Aliases |-> <<>>]
    /\ engine' = NoEngine
    /\ UNCHANGED <<catalog, disk, config, installs, faulted, untold>>

\* recover_orphan_downloads, before ...
Recover ==
    /\ life = "down"
    /\ life' = "recovered"
    /\ models' = [a \in Aliases |->
                    IF models[a] # NoRow /\ downloads[a] \in ActiveStatus
                    THEN [models[a] EXCEPT !.status = "partial", !.pin = NoRepo]
                    ELSE models[a]]
    /\ downloads' = [a \in Aliases |-> IF downloads[a] \in ActiveStatus THEN "error"
                                       ELSE downloads[a]]
    /\ UNCHANGED <<disk, config, pending, procs, engine, bounds, untold>>

\* ... apply_config; then the manager serves.
Start(c) ==
    /\ life = "recovered"
    /\ life' = "up"
    /\ ApplyConfig(c)
    /\ config' = c
    /\ UNCHANGED <<disk, pending, procs, engine, bounds>>

-----------------------------------------------------------------------------
WorkerNext(a) ==
    \/ WorkerStarts(a) \/ WorkerFetches(a) \/ WorkerCompletes(a) \/ WorkerExits(a)
    \/ WorkerFails(a) \/ WorkerCancelled(a)

ReaderNext(a) == ReadEvent(a) \/ ReadEnd(a) \/ ReaderLeaves(a)

InstallsNext ==
    \/ \E a \in Aliases, r \in Repos : Install(a, r)
    \/ \E a \in Aliases, force \in BOOLEAN : Retry(a, force)
    \/ \E a \in Aliases : RetryWipeFails(a) \/ DeleteInstallFails(a)
    \/ Spawn \/ SpawnFails
    \/ \E a \in Aliases : Cancel(a) \/ WorkerNext(a) \/ ReaderNext(a)
    \/ \E a \in Aliases, op \in {"cache", "full"} : DeleteInstall(a, op)
    \/ \E h \in Ids : DownloadLegacy(h) \/ DeleteCacheLegacy(h) \/ DeleteCacheLegacyFails(h)
    \/ FinishDelete \/ FinishDeleteFails
    \/ \E a \in Aliases : ClearDownload(a) \/ ClearDownloadLegacy(a)
    \/ \E c \in Configs : Reload(c) \/ Start(c)
    \/ \E name \in Aliases \cup Ids : Load(name)
    \/ EngineReady \/ EngineStops
    \/ Shutdown \/ ProcessEnds \/ Recover

InstallsSpec == InstallsInit /\ [][InstallsNext]_installsVars

-----------------------------------------------------------------------------
(* Properties                                                               *)

\* Two workers never download into the same repository directory, whose refs
\* and partial blobs they would corrupt (find_active_for, start_install), unless a
\* reload repoints an alias that is in use (BusyReload).
OneWriterPerRepo ==
    \A a, b \in Aliases :
        (a # b /\ {worker[a].stage, worker[b].stage} \subseteq {"spawned", "fetching"})
            => worker[a].repo # worker[b].repo

\* A row that may be launched names a snapshot of its own repository that has
\* weights on disk: the aliases sharing a wiped directory lose their status with
\* it.  The exception is a directory whose rows the manager has not told of a wipe:
\* a forced retry wipes without telling them, and a wipe or a row's write that
\* fails ends the delete before it tells them all.  A completed delete of the same
\* directory, a reload and a start tell them.
InstalledHasSnapshot ==
    life = "up" =>
      \A a \in Aliases :
        models[a].status = "installed" =>
            /\ models[a].pin = models[a].repo
            /\ disk[models[a].repo] = "absent" =>
                  models[a].repo \in untold \cup pending.wiped

\* No download row is left "queued" or "downloading" with nobody to end it: a
\* handler still spawns, a reader thread still follows the worker, or the
\* manager is down and will recover the row.  The exception is a lost catalog
\* write: the mark of a reader thread, or the one of a spawn that failed.
ActiveRowOwned ==
    \A a \in Aliases :
        downloads[a] \in ActiveStatus =>
            \/ reader[a].at = "reading"
            \/ pending.op = "install" /\ pending.alias = a
            \/ life = "down"
            \/ faulted

\* What vllm_manager.py's startup says of reconciliation: only a snapshot that
\* is complete on disk is promoted to "installed".
InstalledIsComplete ==
    \A a \in Aliases :
        models[a].status = "installed" =>
            disk[models[a].repo] = "full" \/ models[a].repo \in untold \/ pending # NoPending
=============================================================================
