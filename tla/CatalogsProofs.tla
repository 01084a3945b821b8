-------------------------- MODULE CatalogsProofs --------------------------
(***************************************************************************)
(* Proofs about the gateway's registry of nodes and the manager's catalog  *)
(* of installs, for any number of processes, aliases and repositories.     *)
(***************************************************************************)
EXTENDS FleetRegistry, CudaInstalls, FiniteSetTheorems, SequenceTheorems, TLAPS

-----------------------------------------------------------------------------
(* The registry's replay fence (FleetRegistry)                             *)

\* What the fence remembers is enough: an accepted document is of a retired
\* process, or of the recorded one and not newer than the record.
Fence ==
    /\ record = None => accepted = {}
    /\ record # None => /\ record.inst \notin retired
                        /\ \A d \in accepted : \/ d.inst \in retired
                                               \/ d.inst = record.inst /\ d.seq <= record.seq

FenceInv == RegistryTypeOK /\ Fence

\* The initial state satisfies the invariant.
LEMMA FenceInit == RegistryInit => FenceInv
<1> SUFFICES ASSUME RegistryInit PROVE FenceInv OBVIOUS
<1>1. Cardinality(retired) <= MaxRetired
  BY FS_EmptySet, RegistryAssumption DEF RegistryInit
<1>2. next \in 0..(MaxSequence + 1) /\ age \in 0..(Ttl + 1)
  BY RegistryAssumption DEF RegistryInit
<1>3. RegistryTypeOK
  BY <1>1, <1>2 DEF RegistryInit, RegistryTypeOK
<1>4. Fence
  BY DEF RegistryInit, Fence
<1> QED BY <1>3, <1>4 DEF FenceInv

\* Retiring the predecessor keeps the fence within its bound.
LEMMA RetiredBounded ==
    ASSUME FenceInv, NEW d \in produced, FenceHasRoom(d)
    PROVE  /\ RetiredAfter(d) \subseteq Instances
           /\ Cardinality(RetiredAfter(d)) <= MaxRetired
<1>1. IsFiniteSet(retired)
  BY FS_Subset, RegistryAssumption DEF FenceInv, RegistryTypeOK
<1>2. CASE record # None /\ record.inst # d.inst
  <2>1. record.inst \in Instances
    BY <1>2 DEF FenceInv, RegistryTypeOK, Documents
  <2>2. Cardinality(retired) \in Nat
    BY <1>1, FS_CardinalityType
  <2>4. Cardinality(retired \cup {record.inst})
          = IF record.inst \in retired THEN Cardinality(retired) ELSE Cardinality(retired) + 1
    BY <1>1, FS_AddElement
  <2>3. Cardinality(retired) < MaxRetired
    BY <1>2 DEF FenceHasRoom
  <2> QED
    BY <1>2, <2>1, <2>2, <2>3, <2>4, RegistryAssumption DEF RetiredAfter, FenceInv, RegistryTypeOK
<1>3. CASE ~(record # None /\ record.inst # d.inst)
  BY <1>3 DEF RetiredAfter, FenceInv, RegistryTypeOK
<1> QED BY <1>2, <1>3

\* Every step keeps the invariant.
LEMMA FenceNext == FenceInv /\ [RegistryNext]_registryVars => FenceInv'
<1> SUFFICES ASSUME FenceInv, [RegistryNext]_registryVars PROVE FenceInv' OBVIOUS
<1> USE RegistryAssumption DEF FenceInv
<1>1. CASE NodeStarts
  BY <1>1 DEF NodeStarts, RegistryTypeOK, Fence
<1>2. CASE NodeProduces
  <2>1. produced' \subseteq Documents
    BY <1>2 DEF NodeProduces, RegistryTypeOK, Documents
  <2> QED BY <1>2, <2>1 DEF NodeProduces, RegistryTypeOK, Fence
<1>3. CASE PollStarts
  BY <1>3 DEF PollStarts, RegistryTypeOK, Fence
<1>4. CASE PollAccepts
  <2> PICK d \in produced : /\ NotRolledBack(d) /\ NotReplayed(d) /\ FenceHasRoom(d)
                            /\ record' = d
                            /\ retired' = RetiredAfter(d)
                            /\ accepted' = accepted \cup {d}
    BY <1>4 DEF PollAccepts
  <2>1. d \in Documents /\ d # None
    BY NoDocument DEF RegistryTypeOK
  <2>2. RegistryTypeOK'
    <3>1. retired' \subseteq Instances /\ Cardinality(retired') <= MaxRetired
      BY RetiredBounded
    <3>2. age' \in 0..(Ttl + 1) /\ accepted' \subseteq Documents
      BY <1>4, <2>1 DEF PollAccepts, RegistryTypeOK
    <3> QED BY <1>4, <2>1, <3>1, <3>2 DEF PollAccepts, RegistryTypeOK
  <2>3. d.inst \notin RetiredAfter(d)
    BY DEF NotRolledBack, RetiredAfter
  <2>4. \A e \in accepted : e.inst \in RetiredAfter(d) \/ (e.inst = d.inst /\ e.seq <= d.seq)
    <3> SUFFICES ASSUME NEW e \in accepted, e.inst \notin RetiredAfter(d)
                 PROVE  e.inst = d.inst /\ e.seq <= d.seq
      OBVIOUS
    <3>1. record # None /\ record \in Documents
      BY DEF Fence, RegistryTypeOK
    <3>2. e.inst = record.inst /\ e.seq <= record.seq
      BY <3>1 DEF Fence, RetiredAfter
    <3>3. record.inst = d.inst
      BY <3>1, <3>2 DEF RetiredAfter
    <3>4. e \in Documents /\ d.seq > record.seq
      BY <3>1, <3>3 DEF NotReplayed, RegistryTypeOK
    <3> QED BY <2>1, <3>1, <3>2, <3>3, <3>4 DEF Documents
  <2>5. d.seq <= d.seq
    BY <2>1 DEF Documents
  <2> QED BY <2>1, <2>2, <2>3, <2>4, <2>5 DEF Fence
<1>5. CASE PollRefuses
  BY <1>5 DEF PollRefuses, RegistryTypeOK, Fence
<1>6. CASE PollFails
  BY <1>6 DEF PollFails, RegistryTypeOK, Fence
<1>7. CASE Tick
  <2>1. age' \in 0..(Ttl + 1)
    BY <1>7 DEF Tick, RegistryTypeOK
  <2> QED BY <1>7, <2>1 DEF Tick, RegistryTypeOK, Fence
<1>8. CASE UNCHANGED registryVars
  BY <1>8 DEF registryVars, RegistryTypeOK, Fence
<1> QED BY <1>1, <1>2, <1>3, <1>4, <1>5, <1>6, <1>7, <1>8 DEF RegistryNext

\* The type invariant of the registry holds in every reachable state, including
\* the bound on the retired identities.
THEOREM RegistryTypeCorrect == RegistrySpec => []RegistryTypeOK
<1>1. FenceInv => RegistryTypeOK
  BY DEF FenceInv
<1> QED BY <1>1, FenceInit, FenceNext, PTL DEF RegistrySpec

\* No step accepts a document a second time, an older document of the recorded
\* process, or any document of a process that was superseded before.
LEMMA FenceStep ==
    FenceInv /\ [RegistryNext]_registryVars =>
      ((record' # record \/ age' < age) =>
         /\ record' \in produced \ accepted
         /\ \A d \in accepted : d.inst = record'.inst =>
              record.inst = d.inst /\ d.seq < record'.seq)
<1> SUFFICES ASSUME FenceInv, [RegistryNext]_registryVars, record' # record \/ age' < age
             PROVE  /\ record' \in produced \ accepted
                    /\ \A d \in accepted : d.inst = record'.inst =>
                         record.inst = d.inst /\ d.seq < record'.seq
  OBVIOUS
<1>1. age \in Nat
  BY RegistryAssumption DEF FenceInv, RegistryTypeOK
<1>2. PollAccepts
  BY <1>1 DEF RegistryNext, NodeStarts, NodeProduces, PollStarts, PollRefuses, PollFails, Tick, registryVars
<1> PICK d \in produced : /\ NotRolledBack(d) /\ NotReplayed(d) /\ record' = d
  BY <1>2 DEF PollAccepts
<1>3. d \in Documents
  BY DEF FenceInv, RegistryTypeOK
<1>4. ASSUME NEW e \in accepted, e.inst = d.inst
      PROVE  record.inst = e.inst /\ e.seq < d.seq
  <2>1. record # None /\ record \in Documents /\ e \in Documents
    BY DEF FenceInv, Fence, RegistryTypeOK
  <2>2. e.inst = record.inst /\ e.seq <= record.seq
    BY <1>4, <2>1 DEF FenceInv, Fence, NotRolledBack
  <2>3. d.seq > record.seq
    BY <1>4, <2>1, <2>2 DEF NotReplayed
  <2> QED BY <1>3, <2>1, <2>2, <2>3 DEF Documents
<1>5. d \notin accepted
  <2> SUFFICES ASSUME d \in accepted PROVE FALSE OBVIOUS
  <2>1. d.seq < d.seq
    BY <1>4
  <2> QED BY <1>3, <2>1 DEF Documents
<1> QED BY <1>4, <1>5

\* The fence holds for every behaviour: a delayed, repeated or predecessor's
\* snapshot never replaces what poll_once accepted, nor extends its TTL.
THEOREM FenceSafe == RegistrySpec => NeverRollsBack
<1>1. FenceInv /\ [RegistryNext]_registryVars =>
        [(record' # record \/ age' < age) =>
           /\ record' \in produced \ accepted
           /\ \A d \in accepted : d.inst = record'.inst =>
                record.inst = d.inst /\ d.seq < record'.seq]_registryVars
  BY FenceStep
<1> QED BY <1>1, FenceInit, FenceNext, PTL DEF RegistrySpec, NeverRollsBack

-----------------------------------------------------------------------------
(* The catalog of installs (CudaInstalls)                                  *)

RowType ==
    [source : {"none", "config", "ui_install"}, repo : Repos \union {NoRepo},
     status : {"none", "queued", "partial", "installed", "error"}, pin : Repos \union {NoRepo}]
WorkerType ==
    [repo : Repos \union {NoRepo},
     stage : {"none", "spawned", "fetching", "fetched", "exited"}, signalled : BOOLEAN,
     rc : {"none", "ok", "failed", "cancelled"}]
ReaderType == [at : {"none", "reading", "settled"}, complete : BOOLEAN]
DownloadStates == {"none", "queued", "downloading", "complete", "cancelled", "error"}
PendingType ==
    [op : {"none", "install", "cache", "full", "legacy"}, alias : Aliases \union {NoAlias},
     repo : Repos \union {NoRepo}, wiped : SUBSET Repos]

\* A worker writes at most these two lines.
Unread == {<<"start", "complete">>, <<"complete">>}
PipeType == {<<>>, <<"start">>} \union Unread

InstallTypes ==
    /\ models \in [Aliases -> RowType]
    /\ downloads \in [Aliases -> DownloadStates]
    /\ disk \in [Repos -> {"absent", "part", "full"}]
    /\ config \in Configs
    /\ pending \in PendingType
    /\ reader \in [Aliases -> ReaderType]
    /\ worker \in [Aliases -> WorkerType]
    /\ pipe \in [Aliases -> PipeType]
    /\ life \in {"up", "stopping", "down", "recovered"}
    /\ faulted \in BOOLEAN

\* No row waits for a reader thread that has read its outcome, unless a write
\* was lost.
OutcomeWritten(x) ==
    /\ reader[x].complete => downloads[x] \notin ActiveStatus \/ faulted
    /\ reader[x].at = "none" => ~reader[x].complete

OwnerInv ==
    /\ downloads \in [Aliases -> DownloadStates] /\ reader \in [Aliases -> ReaderType]
    /\ \A x \in Aliases : OutcomeWritten(x)
    /\ ActiveRowOwned

\* The rows of the configuration are those it names, and a row is there or not.
RowRule(x) ==
    /\ models[x].source = "config" <=> config.models[x] # NoRepo
    /\ models[x].source = "none" => models[x] = NoRow
    /\ models[x].source # "none" => models[x].repo \in Repos

\* Reader thread, worker and pipe of an alias keep step.
ReaderRule(x) ==
    /\ reader[x].at = "none" =>
          /\ reader[x] = IdleReader
          /\ worker[x].stage = "none"
          /\ pipe[x] = <<>>
    /\ reader[x].at = "settled" => worker[x].stage = "exited" /\ pipe[x] = <<>>
    /\ reader[x].at = "reading" => worker[x].stage # "none"
    /\ reader[x].complete => pipe[x] = <<>> /\ worker[x].stage \in {"fetched", "exited"}
    /\ worker[x].stage = "spawned" => pipe[x] = <<>>
    /\ worker[x].stage = "fetching" => pipe[x] \in {<<>>, <<"start">>}

\* The download of an alias is under way: its outcome has not been read.
UnderWay(x) == reader[x].at = "reading" /\ ~reader[x].complete

\* Such a download has its rows, which name the worker's repository; and what
\* it reports as complete is on disk when the report is read.
DownloadRule(x) ==
    UnderWay(x) =>
        /\ downloads[x] \in ActiveStatus
        /\ models[x].source = "ui_install" /\ models[x].repo = worker[x].repo
        /\ worker[x].repo \in Repos
        /\ pipe[x] \in Unread => disk[worker[x].repo] # "absent"

\* Between its two writes a handler finds what it checked before the first.
PendingRule ==
    /\ pending.op = "install" =>
          /\ pending.alias \in Aliases /\ pending.repo \in Repos
          /\ reader[pending.alias].at = "none" /\ downloads[pending.alias] \in ActiveStatus
          /\ models[pending.alias].source = "ui_install"
          /\ models[pending.alias].repo = pending.repo
    /\ pending.op \in {"cache", "full"} =>
          /\ pending.alias \in Aliases /\ reader[pending.alias].at = "none"
          /\ models[pending.alias].source = "ui_install"
    /\ pending.op \in {"none", "install"} => pending.wiped = {}
    /\ \A x \in Aliases : UnderWay(x) => models[x].repo \notin pending.wiped

\* One install of a repository at a time
UniqueInstall ==
    \A x, y \in Aliases :
        /\ models[x].source = "ui_install" /\ models[y].source = "ui_install"
        /\ downloads[x] \in ActiveStatus /\ downloads[y] \in ActiveStatus
        /\ models[x].repo = models[y].repo
        => x = y

\* A manager that is down has no threads, and one that has recovered no
\* active rows.
LifeRule ==
    /\ life \in {"down", "recovered"} =>
          pending.op = "none" /\ \A x \in Aliases : reader[x].at = "none"
    /\ life = "recovered" => \A x \in Aliases : downloads[x] \notin ActiveStatus

InstallsInv ==
    /\ InstallTypes
    /\ \A x \in Aliases : RowRule(x) /\ ReaderRule(x) /\ DownloadRule(x)
    /\ PendingRule /\ UniqueInstall /\ LifeRule /\ InstalledHasSnapshot

\* What a step may do to the downloads rows and the reader threads without
\* leaving a row to nobody: a row that becomes or stays active has somebody.
LEMMA OwnerStep ==
  ASSUME OwnerInv, downloads' \in [Aliases -> DownloadStates],
         reader' \in [Aliases -> ReaderType],
         \A x \in Aliases : OutcomeWritten(x)',
         \A x \in Aliases :
            downloads'[x] \in ActiveStatus =>
               \/ reader'[x].at = "reading"
               \/ pending'.op = "install" /\ pending'.alias = x
               \/ life' = "down"
               \/ faulted'
  PROVE  OwnerInv'
BY DEF OwnerInv, ActiveRowOwned

\* A step in which downloads rows are only ended or removed, and no reader
\* thread, handler or fault changes
LEMMA OwnerShrinks ==
  ASSUME OwnerInv, downloads' \in [Aliases -> DownloadStates],
         \A x \in Aliases : downloads'[x] = downloads[x] \/ downloads'[x] \notin ActiveStatus,
         UNCHANGED <<reader, faulted>>,
         pending.op = "install" => pending' = pending,
         life = "down" => life' = "down"
  PROVE  OwnerInv'
BY OwnerStep DEF OwnerInv, ActiveRowOwned, OutcomeWritten

\* mark_*: the downloads row of the alias, if it is active, and no other
LEMMA MarkDownloads ==
  ASSUME OwnerInv, NEW x, NEW status, NEW pin, NEW d \in DownloadStates \ ActiveStatus,
         Mark(x, status, pin, d)
  PROVE  /\ downloads' \in [Aliases -> DownloadStates]
         /\ \A y \in Aliases : y # x => downloads'[y] = downloads[y]
         /\ x \in Aliases => downloads'[x] \notin ActiveStatus
         /\ \A y \in Aliases : downloads'[y] = downloads[y] \/ downloads'[y] \notin ActiveStatus
BY DEF Mark, OwnerInv

\* Every step leaves each active row to somebody.
LEMMA OwnerNext == OwnerInv /\ [InstallsNext]_installsVars => OwnerInv'
<1> SUFFICES ASSUME OwnerInv, [InstallsNext]_installsVars PROVE OwnerInv'
  OBVIOUS
<1>0. /\ downloads \in [Aliases -> DownloadStates] /\ reader \in [Aliases -> ReaderType]
      /\ \A x \in Aliases : OutcomeWritten(x)
      /\ ActiveRowOwned
  BY DEF OwnerInv
<1> USE DEF catalog, procs, bounds
<1>1. ASSUME NEW x \in Aliases, NEW r, Free, ~IsActive(x), Queue(x, r),
             UNCHANGED <<reader, life, faulted>>
      PROVE  OwnerInv'
  <2>1. /\ downloads' = [downloads EXCEPT ![x] = "queued"]
        /\ pending'.op = "install" /\ pending'.alias = x
    BY <1>1 DEF Queue
  <2>2. /\ downloads' \in [Aliases -> DownloadStates]
        /\ \A y \in Aliases : y # x => downloads'[y] = downloads[y]
    BY <1>0, <2>1 DEF DownloadStates
  <2>3. reader[x].at = "none" /\ ~reader[x].complete
    BY <1>0, <1>1 DEF IsActive, OutcomeWritten
  <2>4. pending.op # "install"
    BY <1>1 DEF Free, NoPending
  <2>5. \A y \in Aliases : OutcomeWritten(y)'
    BY <1>0, <1>1, <2>2, <2>3 DEF OutcomeWritten
  <2>6. ASSUME NEW y \in Aliases, downloads'[y] \in ActiveStatus
        PROVE  \/ reader'[y].at = "reading"
               \/ pending'.op = "install" /\ pending'.alias = y
               \/ life' = "down"
               \/ faulted'
    BY <1>0, <1>1, <2>1, <2>2, <2>4, <2>6 DEF ActiveRowOwned
  <2> QED
    BY <1>0, <1>1, <2>2, <2>5, <2>6, OwnerStep
<1>2. ASSUME NEW x \in Aliases, NEW r \in Repos, Request(x, r)
      PROVE  OwnerInv'
  BY <1>1, <1>2 DEF Request, Admits
<1>3. ASSUME NEW x \in Aliases, NEW force \in BOOLEAN, Retry(x, force)
      PROVE  OwnerInv'
  <2>1. CASE Admits(x, models[x].repo)
    <3>1. CASE CacheOnly(x)
      BY <1>0, <1>3, <3>1, OwnerShrinks DEF Retry
    <3>2. CASE ~CacheOnly(x)
      BY <1>1, <1>3, <2>1, <3>2 DEF Retry, Admits
    <3> QED
      BY <3>1, <3>2
  <2>2. CASE ~Admits(x, models[x].repo)
    BY <1>0, <1>3, <2>2, OwnerShrinks DEF Retry
  <2> QED
    BY <2>1, <2>2
<1>4. CASE Spawn
  <2>1. PICK x : x = pending.alias
    OBVIOUS
  <2>2. /\ pending.op = "install" /\ pending' = NoPending
        /\ reader' = [reader EXCEPT ![x] = [at |-> "reading", complete |-> FALSE]]
        /\ UNCHANGED <<downloads, life, faulted>>
    BY <1>4, <2>1 DEF Spawn
  <2>3. /\ reader' \in [Aliases -> ReaderType]
        /\ \A y \in Aliases : y # x => reader'[y] = reader[y]
        /\ x \in Aliases => reader'[x].at = "reading" /\ ~reader'[x].complete
    BY <1>0, <2>2 DEF ReaderType
  <2>4. \A y \in Aliases : OutcomeWritten(y)'
    BY <1>0, <2>2, <2>3 DEF OutcomeWritten
  <2>5. ASSUME NEW y \in Aliases, downloads'[y] \in ActiveStatus
        PROVE  reader'[y].at = "reading" \/ life' = "down" \/ faulted'
    BY <1>0, <2>1, <2>2, <2>3, <2>5 DEF ActiveRowOwned
  <2> QED
    BY <1>0, <2>2, <2>3, <2>4, <2>5, OwnerStep
<1>5. CASE SpawnFails
  <2>1. PICK x : x = pending.alias
    OBVIOUS
  <2>2. pending.op = "install" /\ UNCHANGED <<reader, life>>
    BY <1>5 DEF SpawnFails
  <2>3. CASE Mark(x, "error", NoRepo, "error") /\ WriteSucceeds
    <3>1. /\ downloads' \in [Aliases -> DownloadStates] /\ faulted' = faulted
          /\ \A y \in Aliases : y # x => downloads'[y] = downloads[y]
          /\ x \in Aliases => downloads'[x] \notin ActiveStatus
      BY <2>3, MarkDownloads DEF DownloadStates, ActiveStatus, WriteSucceeds
    <3>2. \A y \in Aliases : OutcomeWritten(y)'
      BY <1>0, <2>2, <3>1 DEF OutcomeWritten
    <3>3. ASSUME NEW y \in Aliases, downloads'[y] \in ActiveStatus
          PROVE  reader'[y].at = "reading" \/ life' = "down" \/ faulted'
      BY <1>0, <2>1, <2>2, <3>1, <3>3 DEF ActiveRowOwned
    <3> QED
      BY <1>0, <2>2, <3>1, <3>2, <3>3, OwnerStep
  <2>4. CASE WriteFails
    <3>1. UNCHANGED downloads /\ faulted'
      BY <2>4 DEF WriteFails
    <3>2. \A y \in Aliases : OutcomeWritten(y)'
      BY <1>0, <2>2, <3>1 DEF OutcomeWritten
    <3> QED
      BY <1>0, <2>2, <3>1, <3>2, OwnerStep
  <2> QED
    BY <1>5, <2>1, <2>3, <2>4 DEF SpawnFails
<1>6. ASSUME NEW x \in Aliases, ReadEvent(x)
      PROVE  OwnerInv'
  <2> DEFINE seen == reader[x].complete \/ Head(pipe[x]) = "complete"
  <2>1. /\ reader[x].at = "reading" /\ UNCHANGED <<pending, life>>
        /\ reader' = [reader EXCEPT ![x].complete = seen]
    BY <1>6 DEF ReadEvent
  <2>2. seen \in BOOLEAN
    OBVIOUS
  <2>3. /\ reader' \in [Aliases -> ReaderType] /\ reader'[x].at = "reading"
        /\ reader'[x].complete = seen
        /\ \A y \in Aliases : reader'[y].at = reader[y].at
        /\ \A y \in Aliases : y # x => reader'[y] = reader[y]
    <3>1. reader[x] \in ReaderType
      BY <1>0
    <3>2. PICK b \in BOOLEAN : b = seen
      BY <2>2
    <3>3. reader' = [reader EXCEPT ![x] = [reader[x] EXCEPT !.complete = b]]
      BY <2>1, <3>2
    <3>4. /\ [reader[x] EXCEPT !.complete = b] \in ReaderType
          /\ [reader[x] EXCEPT !.complete = b].at = "reading"
          /\ [reader[x] EXCEPT !.complete = b].complete = b
      BY <2>1, <3>1 DEF ReaderType
    <3> HIDE DEF seen
    <3> QED
      BY <1>0, <2>1, <3>2, <3>3, <3>4
  <2>4. CASE WriteFails
    <3>1. UNCHANGED downloads /\ faulted'
      BY <2>4 DEF WriteFails
    <3>2. \A y \in Aliases : OutcomeWritten(y)'
      BY <1>0, <2>3, <3>1 DEF OutcomeWritten
    <3> QED
      BY <1>0, <2>3, <3>1, <3>2, OwnerStep
  <2>5. CASE Head(pipe[x]) = "start" /\ MarkDownloading(x) /\ WriteSucceeds
    <3>1. /\ downloads' \in [Aliases -> DownloadStates] /\ faulted' = faulted
          /\ \A y \in Aliases : y # x => downloads'[y] = downloads[y]
          /\ downloads'[x] \in ActiveStatus => downloads[x] \in ActiveStatus
      BY <1>0, <2>5 DEF MarkDownloading, WriteSucceeds, DownloadStates
    <3>2. reader'[x].complete => reader[x].complete
      BY <2>3, <2>5
    <3>3. \A y \in Aliases : OutcomeWritten(y)'
      BY <1>0, <2>3, <3>1, <3>2 DEF OutcomeWritten
    <3> QED
      BY <1>0, <2>1, <2>3, <3>1, <3>3, OwnerStep DEF ActiveRowOwned
  <2>6. CASE Mark(x, "installed", worker[x].repo, "complete") /\ WriteSucceeds
    <3>1. /\ downloads' \in [Aliases -> DownloadStates] /\ faulted' = faulted
          /\ \A y \in Aliases : y # x => downloads'[y] = downloads[y]
          /\ downloads'[x] \notin ActiveStatus
      BY <2>6, MarkDownloads DEF WriteSucceeds, DownloadStates, ActiveStatus
    <3>2. \A y \in Aliases : OutcomeWritten(y)'
      BY <1>0, <2>3, <3>1 DEF OutcomeWritten
    <3> QED
      BY <1>0, <2>1, <2>3, <3>1, <3>2, OwnerStep DEF ActiveRowOwned
  <2> QED
    BY <1>6, <2>4, <2>5, <2>6 DEF ReadEvent
<1>7. ASSUME NEW x \in Aliases, ReadEnd(x)
      PROVE  OwnerInv'
  <2>1. /\ reader[x].at = "reading" /\ UNCHANGED <<pending, life>>
        /\ reader' = [reader EXCEPT ![x] = [reader[x] EXCEPT !.at = "settled"]]
    BY <1>7 DEF ReadEnd
  <2>2. /\ reader' \in [Aliases -> ReaderType] /\ reader'[x].at = "settled"
        /\ reader'[x].complete = reader[x].complete
        /\ \A y \in Aliases : y # x => reader'[y] = reader[y]
    <3>1. /\ [reader[x] EXCEPT !.at = "settled"] \in ReaderType
          /\ [reader[x] EXCEPT !.at = "settled"].at = "settled"
          /\ [reader[x] EXCEPT !.at = "settled"].complete = reader[x].complete
      <4>1. reader[x] \in ReaderType
        BY <1>0
      <4> QED
        BY <4>1 DEF ReaderType
    <3> QED
      BY <1>0, <2>1, <3>1
  <2>3. CASE WriteFails
    <3>1. UNCHANGED downloads /\ faulted'
      BY <2>3 DEF WriteFails
    <3>2. \A y \in Aliases : OutcomeWritten(y)'
      BY <1>0, <2>2, <3>1 DEF OutcomeWritten
    <3> QED
      BY <1>0, <2>2, <3>1, <3>2, OwnerStep
  <2>4. CASE TerminalMark(x) /\ WriteSucceeds
    <3>1. /\ downloads' \in [Aliases -> DownloadStates] /\ faulted' = faulted
          /\ \A y \in Aliases : y # x => downloads'[y] = downloads[y]
          /\ downloads'[x] \notin ActiveStatus \/ faulted'
      <4>1. CASE reader[x].complete /\ UNCHANGED catalog
        BY <1>0, <2>4, <4>1 DEF WriteSucceeds, OutcomeWritten
      <4>2. CASE \/ Mark(x, "partial", NoRepo, "cancelled")
                 \/ Mark(x, "error", NoRepo, "error")
        BY <2>4, <4>2, MarkDownloads DEF WriteSucceeds, DownloadStates, ActiveStatus
      <4> QED
        BY <2>4, <4>1, <4>2 DEF TerminalMark
    <3>2. \A y \in Aliases : OutcomeWritten(y)'
      BY <1>0, <2>2, <3>1 DEF OutcomeWritten
    <3> QED
      BY <1>0, <2>1, <2>2, <3>1, <3>2, OwnerStep DEF ActiveRowOwned
  <2> QED
    BY <1>7, <2>3, <2>4 DEF ReadEnd
<1>8. ASSUME NEW x \in Aliases, ReaderLeaves(x)
      PROVE  OwnerInv'
  <2>1. /\ reader[x].at = "settled" /\ reader' = [reader EXCEPT ![x] = IdleReader]
        /\ UNCHANGED <<downloads, pending, life, faulted>>
    BY <1>8 DEF ReaderLeaves
  <2>2. /\ reader' \in [Aliases -> ReaderType] /\ reader'[x].at = "none" /\ ~reader'[x].complete
        /\ \A y \in Aliases : y # x => reader'[y] = reader[y]
    BY <1>0, <2>1 DEF IdleReader, ReaderType
  <2>3. \A y \in Aliases : OutcomeWritten(y)'
    BY <1>0, <2>1, <2>2 DEF OutcomeWritten
  <2> QED
    BY <1>0, <2>1, <2>2, <2>3, OwnerStep DEF ActiveRowOwned
<1>9. ASSUME NEW c \in Configs, Reload(c) \/ Start(c)
      PROVE  OwnerInv'
  <2>1. /\ downloads' \in [Aliases -> DownloadStates]
        /\ \A x \in Aliases : downloads'[x] \in {"none", downloads[x]}
    BY <1>0, <1>9 DEF Reload, Start, ApplyConfig, DownloadStates
  <2>2. UNCHANGED <<reader, faulted, pending>> /\ life # "down"
    BY <1>9 DEF Reload, Start, Free
  <2> QED
    BY <2>1, <2>2, OwnerShrinks DEF ActiveStatus
<1>10. CASE FinishDelete \/ FinishDeleteFails
  <2>1. /\ downloads' \in [Aliases -> DownloadStates]
        /\ \A x \in Aliases : downloads'[x] \in {"none", downloads[x]}
    BY <1>0, <1>10 DEF FinishDelete, FinishDeleteFails, TellRows, DownloadStates
  <2>2. UNCHANGED <<reader, faulted, life>> /\ pending.op # "install"
    BY <1>10 DEF FinishDelete, FinishDeleteFails, Deleting
  <2> QED
    BY <2>1, <2>2, OwnerShrinks DEF ActiveStatus
<1>11. ASSUME NEW x \in Aliases, ClearDownload(x) \/ ClearDownloadLegacy(x)
       PROVE  OwnerInv'
  <2>1. /\ downloads' \in [Aliases -> DownloadStates]
        /\ \A y \in Aliases : downloads'[y] \in {"none", downloads[y]}
    BY <1>0, <1>11 DEF ClearDownload, ClearDownloadLegacy, RowsWithout, DownloadStates
  <2>2. UNCHANGED <<reader, faulted, life, pending>>
    BY <1>11 DEF ClearDownload, ClearDownloadLegacy
  <2> QED
    BY <2>1, <2>2, OwnerShrinks DEF ActiveStatus
<1>12. ASSUME Free, UNCHANGED <<downloads, reader, life, faulted>>
       PROVE  OwnerInv'
  BY <1>0, <1>12, OwnerShrinks DEF Free, NoPending
<1>13. CASE ProcessEnds
  <2>1. /\ reader' = [x \in Aliases |-> IdleReader] /\ life' = "down"
        /\ UNCHANGED <<downloads, faulted>>
    BY <1>13 DEF ProcessEnds
  <2>2. /\ reader' \in [Aliases -> ReaderType]
        /\ \A x \in Aliases : ~reader'[x].complete
    BY <2>1 DEF IdleReader, ReaderType
  <2>3. \A x \in Aliases : OutcomeWritten(x)'
    BY <2>2 DEF OutcomeWritten
  <2> QED
    BY <1>0, <2>1, <2>2, <2>3, OwnerStep
<1>14. CASE Recover
  <2>1. /\ downloads' \in [Aliases -> DownloadStates]
        /\ \A x \in Aliases : downloads'[x] \notin ActiveStatus
    BY <1>0, <1>14 DEF Recover, DownloadStates, ActiveStatus
  <2>2. UNCHANGED <<reader, faulted>>
    BY <1>14 DEF Recover
  <2>3. \A x \in Aliases : OutcomeWritten(x)'
    BY <1>0, <2>1, <2>2 DEF OutcomeWritten
  <2> QED
    BY <1>0, <2>1, <2>2, <2>3, OwnerStep
<1>15. ASSUME UNCHANGED <<downloads, reader, pending, faulted>>, life = "down" => life' = "down"
       PROVE  OwnerInv'
  BY <1>0, <1>15, OwnerShrinks
<1>16. CASE \/ UNCHANGED installsVars
            \/ \E x \in Aliases : Cancel(x) \/ WorkerNext(x)
            \/ \E name \in Aliases \cup Ids : Load(name)
            \/ EngineReady \/ EngineStops \/ Shutdown
  BY <1>15, <1>16 DEF installsVars, Cancel, WorkerNext, WorkerStep, WorkerStarts, WorkerFetches,
     WorkerCompletes, WorkerExits, WorkerFails, WorkerCancelled, Load, EngineReady, EngineStops,
     Shutdown, Free
<1>17. ASSUME NEW h \in Ids, DownloadLegacy(h) PROVE OwnerInv'
  BY <1>2, <1>17, InstallsAssumption DEF DownloadLegacy, Ids
<1>18. ASSUME NEW x \in Aliases, NEW op \in {"cache", "full"},
              DeleteInstall(x, op) \/ DeleteInstallFails(x) \/ RetryWipeFails(x)
       PROVE  OwnerInv'
  BY <1>12, <1>18 DEF DeleteInstall, DeleteInstallFails, RetryWipeFails
<1>19. ASSUME NEW h \in Ids, DeleteCacheLegacy(h) \/ DeleteCacheLegacyFails(h) PROVE OwnerInv'
  BY <1>12, <1>19 DEF DeleteCacheLegacy, DeleteCacheLegacyFails
<1> QED
  BY <1>2, <1>3, <1>4, <1>5, <1>6, <1>7, <1>8, <1>9, <1>10, <1>11, <1>13, <1>14, <1>16, <1>17,
     <1>18, <1>19 DEF InstallsNext, ReaderNext, Install

\* No download row is left "queued" or "downloading" with nobody to end it,
\* whatever is installed, retried, deleted, cleared or reloaded and wherever
\* the manager dies, unless the catalog write that ends a download was lost.  The
\* reader that has read "complete" writes nothing more, so the row must be ended
\* by then.
THEOREM RowsHaveOwners == InstallsSpec => []ActiveRowOwned
<1>1. InstallsInit => OwnerInv
  BY DEF InstallsInit, OwnerInv, DownloadStates, ReaderType, IdleReader, OutcomeWritten,
         ActiveRowOwned, ActiveStatus
<1>2. OwnerInv => ActiveRowOwned
  BY DEF OwnerInv
<1> QED
  BY <1>1, <1>2, OwnerNext, PTL DEF InstallsSpec

-----------------------------------------------------------------------------
(* Workers and snapshots, as long as no reload repoints an alias in use    *)

\* The parts of the invariant, and the types of what they are about
LEMMA InstallFacts ==
  ASSUME InstallsInv
  PROVE  /\ InstallTypes /\ PendingRule /\ UniqueInstall /\ LifeRule /\ InstalledHasSnapshot
         /\ \A x \in Aliases : RowRule(x) /\ ReaderRule(x) /\ DownloadRule(x)
         /\ \A x \in Aliases : /\ models[x] \in RowType /\ reader[x] \in ReaderType
                               /\ worker[x] \in WorkerType /\ pipe[x] \in PipeType
                               /\ downloads[x] \in DownloadStates
                               /\ config.models[x] \in Repos \union {NoRepo}
         /\ NoRow \in RowType /\ NoRow.source = "none" /\ NoRow.repo = NoRepo
         /\ NoRow.status = "none"
         /\ NoWorker \in WorkerType /\ NoWorker.stage = "none"
         /\ IdleReader \in ReaderType /\ IdleReader.at = "none" /\ ~IdleReader.complete
         /\ NoPending \in PendingType /\ NoPending.op = "none" /\ NoPending.wiped = {}
<1>1. NoRow \in RowType /\ NoRow.source = "none" /\ NoRow.repo = NoRepo /\ NoRow.status = "none"
  BY DEF NoRow, RowType
<1>2. NoWorker \in WorkerType /\ NoWorker.stage = "none"
  BY DEF NoWorker, WorkerType
<1>3. /\ IdleReader \in ReaderType /\ IdleReader.at = "none" /\ ~IdleReader.complete
      /\ NoPending \in PendingType /\ NoPending.op = "none" /\ NoPending.wiped = {}
  BY DEF IdleReader, ReaderType, NoPending, PendingType
<1>4. InstallTypes
  BY DEF InstallsInv
<1>5. \A x \in Aliases : config.models[x] \in Repos \union {NoRepo}
  BY <1>4, InstallsAssumption DEF InstallTypes
<1> QED
  BY <1>1, <1>2, <1>3, <1>4, <1>5 DEF InstallsInv, InstallTypes

\* A step that changes nothing of what the invariant is about
LEMMA InstallsStutter ==
  ASSUME InstallsInv,
         UNCHANGED <<models, downloads, disk, config, pending, reader, worker, pipe, life,
                     faulted, untold>>
  PROVE  InstallsInv'
BY DEF InstallsInv, InstallTypes, PendingRule, UniqueInstall, LifeRule, InstalledHasSnapshot,
       RowRule, ReaderRule, DownloadRule, UnderWay

\* A worker moves on, or gets a signal: its pipe and the disk may grow.
LEMMA WorkerKeeps ==
  ASSUME InstallsInv, NEW x \in Aliases, NEW w \in WorkerType, NEW lines \in PipeType,
         worker' = [worker EXCEPT ![x] = w], pipe' = [pipe EXCEPT ![x] = lines],
         w.repo = worker[x].repo, w.stage # "none", reader[x].at = "reading",
         reader[x].complete => lines = <<>> /\ w.stage \in {"fetched", "exited"},
         w.stage = "spawned" => lines = <<>>,
         w.stage = "fetching" => lines \in {<<>>, <<"start">>},
         disk' \in [Repos -> {"absent", "part", "full"}],
         \A r \in Repos : disk[r] # "absent" => disk'[r] # "absent",
         UnderWay(x) /\ lines \in Unread =>
            pipe[x] \in Unread \/ disk'[worker[x].repo] # "absent",
         UNCHANGED <<models, downloads, config, pending, reader, life, faulted, untold>>
  PROVE  InstallsInv'
<1>0. /\ InstallTypes /\ PendingRule /\ UniqueInstall /\ LifeRule /\ InstalledHasSnapshot
      /\ \A y \in Aliases : RowRule(y) /\ ReaderRule(y) /\ DownloadRule(y)
  BY InstallFacts
<1>1. InstallTypes'
  BY <1>0 DEF InstallTypes
<1>2. /\ worker'[x] = w /\ pipe'[x] = lines
      /\ \A y \in Aliases \ {x} : worker'[y] = worker[y] /\ pipe'[y] = pipe[y]
  BY <1>0 DEF InstallTypes
<1>3. ASSUME NEW y \in Aliases PROVE RowRule(y)' /\ ReaderRule(y)' /\ DownloadRule(y)'
  <2>1. RowRule(y)'
    BY <1>0 DEF RowRule
  <2>2. CASE y = x
    <3>1. ReaderRule(y)'
      BY <1>2, <2>2 DEF ReaderRule
    <3>2. DownloadRule(y)'
      BY <1>0, <1>2, <2>2 DEF DownloadRule, UnderWay
    <3> QED
      BY <2>1, <3>1, <3>2
  <2>3. CASE y # x
    <3>1. ReaderRule(y)'
      BY <1>0, <1>2, <2>3 DEF ReaderRule
    <3>2. DownloadRule(y)'
      BY <1>0, <1>2, <2>3 DEF DownloadRule, UnderWay
    <3> QED
      BY <2>1, <3>1, <3>2
  <2> QED
    BY <2>2, <2>3
<1>4. PendingRule' /\ UniqueInstall' /\ LifeRule'
  BY <1>0 DEF PendingRule, UniqueInstall, LifeRule, UnderWay
<1>5. InstalledHasSnapshot'
  <2> SUFFICES ASSUME life = "up", NEW y \in Aliases, models[y].status = "installed"
               PROVE  /\ models[y].pin = models[y].repo
                      /\ \/ disk'[models[y].repo] # "absent"
                         \/ models[y].repo \in untold \cup pending.wiped
    BY DEF InstalledHasSnapshot
  <2>1. models[y].repo \in Repos
    <3>1. models[y] \in RowType /\ RowRule(y)
      BY <1>0 DEF InstallTypes
    <3>2. NoRow.status = "none"
      BY InstallFacts
    <3>3. models[y].source # "none"
      BY <3>1, <3>2 DEF RowRule
    <3> QED
      BY <3>1, <3>3 DEF RowRule
  <2> QED
    BY <1>0, <2>1 DEF InstalledHasSnapshot
<1> QED
  BY <1>1, <1>3, <1>4, <1>5 DEF InstallsInv

\* A step of the handlers that leaves the downloads under way alone
LEMMA RowStep ==
  ASSUME InstallsInv, UNCHANGED <<reader, worker, pipe>>, InstallTypes',
         \A x \in Aliases : RowRule(x)',
         PendingRule', UniqueInstall', LifeRule', InstalledHasSnapshot',
         \A x \in Aliases :
            UnderWay(x) =>
               /\ downloads'[x] \in ActiveStatus
               /\ models'[x].source = models[x].source /\ models'[x].repo = models[x].repo
               /\ disk[models[x].repo] # "absent" => disk'[models[x].repo] # "absent"
  PROVE  InstallsInv'
<1>0. \A y \in Aliases : RowRule(y) /\ ReaderRule(y) /\ DownloadRule(y)
  BY InstallFacts
<1>1. \A y \in Aliases : ReaderRule(y)'
  BY <1>0 DEF ReaderRule
<1>2. ASSUME NEW y \in Aliases PROVE DownloadRule(y)'
  BY <1>0 DEF DownloadRule, UnderWay
<1> QED
  BY <1>1, <1>2 DEF InstallsInv

\* No install is queued in the step.
LEMMA InstallsEnd ==
  ASSUME UniqueInstall,
         \A x \in Aliases :
            downloads'[x] \in ActiveStatus /\ models'[x].source = "ui_install" =>
               /\ downloads[x] \in ActiveStatus /\ models[x].source = "ui_install"
               /\ models'[x].repo = models[x].repo
  PROVE  UniqueInstall'
BY DEF UniqueInstall

\* mark_*: a row that is there gets a status and a snapshot.
LEMMA MarkRow ==
  ASSUME InstallTypes, NEW x \in Aliases,
         NEW status \in {"partial", "installed", "error"},
         NEW pin \in Repos \union {NoRepo}, NEW d \in DownloadStates \ ActiveStatus,
         Mark(x, status, pin, d)
  PROVE  /\ models' \in [Aliases -> RowType] /\ downloads' \in [Aliases -> DownloadStates]
         /\ \A y \in Aliases : y # x => models'[y] = models[y] /\ downloads'[y] = downloads[y]
         /\ downloads'[x] \notin ActiveStatus
         /\ models'[x].source = models[x].source /\ models'[x].repo = models[x].repo
         /\ models[x] = NoRow => models'[x] = NoRow
         /\ models[x] # NoRow => models'[x].status = status /\ models'[x].pin = pin
<1>1. /\ downloads' \in [Aliases -> DownloadStates]
      /\ \A y \in Aliases : y # x => downloads'[y] = downloads[y]
      /\ downloads'[x] \notin ActiveStatus
  BY DEF Mark, InstallTypes
<1>2. CASE models[x] = NoRow
  BY <1>1, <1>2 DEF Mark, InstallTypes
<1>3. CASE models[x] # NoRow
  <2>1. models[x] \in RowType /\ models \in [Aliases -> RowType]
    BY DEF InstallTypes
  <2>2. models' = [models EXCEPT ![x] = [models[x] EXCEPT !.status = status, !.pin = pin]]
    BY <1>3 DEF Mark
  <2>3. PICK row : row = [models[x] EXCEPT !.status = status, !.pin = pin]
    OBVIOUS
  <2>4. /\ row \in RowType /\ row.source = models[x].source /\ row.repo = models[x].repo
        /\ row.status = status /\ row.pin = pin
    BY <2>1, <2>3 DEF RowType
  <2>5. /\ models' \in [Aliases -> RowType] /\ models'[x] = row
        /\ \A y \in Aliases : y # x => models'[y] = models[y]
    BY <2>1, <2>2, <2>3, <2>4
  <2> QED
    BY <1>1, <1>3, <2>4, <2>5
<1> QED
  BY <1>2, <1>3

\* start_install_tx, of an alias without a download and without a conflict; a
\* forced retry may have wiped a repository that no download is under way in.
LEMMA QueueKeeps ==
  ASSUME InstallsInv, NEW x \in Aliases, NEW r \in Repos, Free, Admits(x, r), Queue(x, r),
         disk' \in [Repos -> {"absent", "part", "full"}],
         \A q \in untold : q \in untold',
         \A q \in Repos : disk[q] # "absent" => disk'[q] # "absent" \/ q \in untold',
         \A y \in Aliases :
            UnderWay(y) /\ disk[models[y].repo] # "absent" => disk'[models[y].repo] # "absent",
         UNCHANGED <<config, reader, worker, pipe, life, faulted>>
  PROVE  InstallsInv'
<1>0. /\ InstallTypes /\ PendingRule /\ UniqueInstall /\ LifeRule /\ InstalledHasSnapshot
      /\ \A y \in Aliases : RowRule(y) /\ ReaderRule(y) /\ DownloadRule(y)
      /\ NoRow.status = "none"
  BY InstallFacts
<1>1. PICK row : row = [source |-> "ui_install", repo |-> r, status |-> "queued", pin |-> NoRepo]
  OBVIOUS
<1>2. /\ row \in RowType /\ row.source = "ui_install" /\ row.repo = r
      /\ row.status = "queued"
  BY <1>1 DEF RowType
<1>3. /\ models' = [models EXCEPT ![x] = row] /\ downloads' = [downloads EXCEPT ![x] = "queued"]
      /\ pending' = [op |-> "install", alias |-> x, repo |-> r, wiped |-> {}]
  BY <1>1 DEF Queue
<1>4. /\ models' \in [Aliases -> RowType] /\ models'[x] = row
      /\ downloads' \in [Aliases -> DownloadStates] /\ downloads'[x] = "queued"
      /\ \A y \in Aliases : y # x => models'[y] = models[y] /\ downloads'[y] = downloads[y]
  BY <1>0, <1>2, <1>3 DEF InstallTypes, DownloadStates
<1>5. /\ pending' \in PendingType
      /\ pending'.op = "install" /\ pending'.alias = x /\ pending'.repo = r
      /\ pending'.wiped = {}
  BY <1>3 DEF PendingType
<1>6. reader[x].at = "none" /\ config.models[x] = NoRepo /\ NoConflict(x, r)
  BY DEF Admits, IsActive
<1>7. InstallTypes'
  BY <1>0, <1>4, <1>5 DEF InstallTypes
<1>8. \A y \in Aliases : RowRule(y)'
  BY <1>0, <1>2, <1>4, <1>6 DEF RowRule
<1>9. PendingRule'
  BY <1>2, <1>4, <1>5, <1>6 DEF PendingRule, ActiveStatus
<1>10. UniqueInstall'
  <2>1. ASSUME NEW y \in Aliases, y # x, models[y].source = "ui_install",
               downloads[y] \in ActiveStatus
        PROVE  models[y].repo # r
    <3> SUFFICES ASSUME models[y].repo = r PROVE FALSE
      OBVIOUS
    <3>1. y \in ActiveFor(r)
      BY <2>1 DEF ActiveFor, Siblings
    <3>2. x \in ActiveFor(r)
      BY <1>6, <3>1 DEF NoConflict
    <3>3. /\ models[x].repo = r /\ downloads[x] \in ActiveStatus
      BY <3>2 DEF ActiveFor, Siblings
    <3>4. models[x].source = "ui_install"
      <4>1. models[x].source \in {"none", "config", "ui_install"}
        <5>1. models[x] \in RowType
          BY InstallFacts
        <5> QED
          BY <5>1 DEF RowType
      <4>2. models[x].source # "config"
        BY <1>0, <1>6 DEF RowRule
      <4>3. models[x].source # "none"
        BY <1>0, <3>3, InstallFacts, InstallsAssumption DEF RowRule
      <4> QED
        BY <4>1, <4>2, <4>3
    <3> QED
      BY <1>0, <2>1, <3>3, <3>4 DEF UniqueInstall
  <2> QED
    BY <1>0, <1>2, <1>4, <2>1 DEF UniqueInstall
<1>11. LifeRule'
  BY DEF LifeRule, Free
<1>12. InstalledHasSnapshot'
  <2>0. pending.wiped = {}
    BY InstallFacts DEF Free
  <2> SUFFICES ASSUME life = "up", NEW y \in Aliases, models'[y].status = "installed"
               PROVE  /\ models'[y].pin = models'[y].repo
                      /\ disk'[models'[y].repo] # "absent" \/ models'[y].repo \in untold'
    BY DEF InstalledHasSnapshot
  <2>1. y # x /\ models'[y] = models[y]
    BY <1>2, <1>4
  <2>2. models[y].repo \in Repos
    BY <1>0, <2>1 DEF RowRule
  <2> QED
    BY <1>0, <2>0, <2>1, <2>2 DEF InstalledHasSnapshot
<1>13. ASSUME NEW y \in Aliases, UnderWay(y)
       PROVE  /\ downloads'[y] \in ActiveStatus
              /\ models'[y].source = models[y].source /\ models'[y].repo = models[y].repo
              /\ disk[models[y].repo] # "absent" => disk'[models[y].repo] # "absent"
  BY <1>0, <1>4, <1>6, <1>13 DEF UnderWay, DownloadRule
<1> QED
  BY <1>7, <1>8, <1>9, <1>10, <1>11, <1>12, <1>13, RowStep

\* What a worker's lines are when one more is written or read
LEMMA Lines ==
  /\ <<>> \o <<"start">> = <<"start">> /\ <<>> \o <<"complete">> = <<"complete">>
  /\ <<"start">> \o <<"complete">> = <<"start", "complete">>
  /\ \A s \in PipeType : s \o <<>> = s
  /\ Head(<<"start">>) = "start" /\ Tail(<<"start">>) = <<>>
  /\ Head(<<"complete">>) = "complete" /\ Tail(<<"complete">>) = <<>>
  /\ Head(<<"start", "complete">>) = "start" /\ Tail(<<"start", "complete">>) = <<"complete">>
  /\ PipeType = {<<>>, <<"start">>, <<"complete">>, <<"start", "complete">>}
  /\ <<>> \notin Unread /\ <<"start">> \notin Unread
  /\ <<"complete">> \in Unread /\ <<"start", "complete">> \in Unread
<1> DEFINE S == {"start", "complete"}
<1>1. /\ <<>> \in Seq(S) /\ <<"start">> \in Seq(S) /\ <<"complete">> \in Seq(S)
      /\ <<"start", "complete">> \in Seq(S)
  OBVIOUS
<1>2. PICK s \in Seq(S) : s = <<"start">>
  BY <1>1
<1>3. PICK t \in Seq(S) : t = <<"complete">>
  BY <1>1
<1>4. PICK u \in Seq(S) : u = <<"start", "complete">>
  BY <1>1
<1>5. /\ Len(s) = 1 /\ s[1] = "start" /\ Len(t) = 1 /\ t[1] = "complete"
  BY <1>2, <1>3
<1>6. Len(u) = 2 /\ u[1] = "start" /\ u[2] = "complete"
  BY <1>4
<1>7. /\ s \o t \in Seq(S) /\ Len(s \o t) = 2
      /\ (s \o t)[1] = "start" /\ (s \o t)[2] = "complete"
  BY <1>2, <1>3, <1>5
<1>8. s \o t = u
  BY <1>6, <1>7, SeqEqual, SMTT(30)
<1>9. <<"start">> \o <<"complete">> = <<"start", "complete">>
  BY <1>2, <1>3, <1>4, <1>8
<1>10. /\ <<>> \o <<"start">> = <<"start">> /\ <<>> \o <<"complete">> = <<"complete">>
  OBVIOUS
<1>11. PipeType = {<<>>, <<"start">>, <<"complete">>, <<"start", "complete">>}
  BY DEF PipeType, Unread
<1>12. \A l \in PipeType : l \o <<>> = l
  BY <1>1, <1>11, ConcatEmptySeq
<1>13. /\ Head(<<"start">>) = "start" /\ Tail(<<"start">>) = <<>>
       /\ Head(<<"complete">>) = "complete" /\ Tail(<<"complete">>) = <<>>
  OBVIOUS
<1>14. /\ Head(<<"start", "complete">>) = "start"
       /\ Tail(<<"start", "complete">>) = <<"complete">>
  OBVIOUS
<1>15. /\ <<>> \notin Unread /\ <<"start">> \notin Unread
       /\ <<"complete">> \in Unread /\ <<"start", "complete">> \in Unread
  BY DEF Unread
<1> QED
  BY <1>9, <1>10, <1>11, <1>12, <1>13, <1>14, <1>15

\* start_install spawns the worker: the download is under way.
LEMMA SpawnKeeps == ASSUME InstallsInv, Spawn PROVE InstallsInv'
<1>0. /\ InstallTypes /\ PendingRule /\ UniqueInstall /\ LifeRule /\ InstalledHasSnapshot
      /\ \A y \in Aliases : RowRule(y) /\ ReaderRule(y) /\ DownloadRule(y)
      /\ NoPending \in PendingType /\ NoPending.op = "none" /\ NoPending.wiped = {}
  BY InstallFacts
<1>1. PICK x : x = pending.alias
  OBVIOUS
<1>2. PICK w : w = [repo |-> pending.repo, stage |-> "spawned", signalled |-> FALSE, rc |-> "none"]
  OBVIOUS
<1>3. PICK t : t = [at |-> "reading", complete |-> FALSE]
  OBVIOUS
<1>4. /\ x \in Aliases /\ pending.repo \in Repos /\ reader[x].at = "none"
      /\ downloads[x] \in ActiveStatus /\ models[x].source = "ui_install"
      /\ models[x].repo = pending.repo /\ life = "up"
  BY <1>0, <1>1 DEF Spawn, PendingRule
<1>5. /\ w \in WorkerType /\ w.repo = pending.repo /\ w.stage = "spawned"
      /\ t \in ReaderType /\ t.at = "reading" /\ ~t.complete
  BY <1>2, <1>3, <1>4 DEF WorkerType, ReaderType
<1>6. /\ worker' = [worker EXCEPT ![x] = w] /\ reader' = [reader EXCEPT ![x] = t]
      /\ pending' = NoPending
      /\ UNCHANGED <<models, downloads, disk, config, pipe, life, faulted, untold>>
  BY <1>1, <1>2, <1>3 DEF Spawn, catalog, bounds
<1>7. /\ worker' \in [Aliases -> WorkerType] /\ reader' \in [Aliases -> ReaderType]
      /\ worker'[x] = w /\ reader'[x] = t
      /\ \A y \in Aliases : y # x => worker'[y] = worker[y] /\ reader'[y] = reader[y]
  BY <1>0, <1>4, <1>5, <1>6 DEF InstallTypes
<1>8. InstallTypes'
  BY <1>0, <1>6, <1>7 DEF InstallTypes
<1>9. \A y \in Aliases : RowRule(y)'
  BY <1>0, <1>6 DEF RowRule
<1>10. \A y \in Aliases : ReaderRule(y)'
  BY <1>0, <1>4, <1>5, <1>6, <1>7 DEF ReaderRule
<1>11. \A y \in Aliases : DownloadRule(y)'
  <2>0. pipe'[x] \notin Unread
    BY <1>0, <1>4, <1>6, Lines DEF ReaderRule
  <2>1. DownloadRule(x)'
    BY <1>4, <1>5, <1>6, <1>7, <2>0 DEF DownloadRule
  <2>2. \A y \in Aliases : y # x => DownloadRule(y)'
    BY <1>0, <1>6, <1>7 DEF DownloadRule, UnderWay
  <2> QED
    BY <2>1, <2>2
<1>12. PendingRule' /\ UniqueInstall' /\ LifeRule'
  BY <1>0, <1>4, <1>6 DEF PendingRule, UniqueInstall, LifeRule
<1>13. InstalledHasSnapshot'
  <2>1. pending.wiped = {}
    BY <1>0 DEF Spawn, PendingRule
  <2> QED
    BY <1>0, <1>6, <2>1 DEF InstalledHasSnapshot
<1> QED
  BY <1>8, <1>9, <1>10, <1>11, <1>12, <1>13 DEF InstallsInv

\* The spawn raises, and the rows that were queued end, unless that write raises.
LEMMA SpawnFailsKeeps == ASSUME InstallsInv, SpawnFails PROVE InstallsInv'
<1>0. /\ InstallTypes /\ PendingRule /\ UniqueInstall /\ LifeRule /\ InstalledHasSnapshot
      /\ \A y \in Aliases : RowRule(y) /\ ReaderRule(y) /\ DownloadRule(y)
      /\ NoPending \in PendingType /\ NoPending.op = "none" /\ NoPending.wiped = {}
      /\ NoRow.source = "none"
  BY InstallFacts
<1>1. PICK x : x = pending.alias
  OBVIOUS
<1>2. /\ x \in Aliases /\ reader[x].at = "none" /\ models[x].source = "ui_install" /\ life = "up"
      /\ pending.wiped = {}
  BY <1>0, <1>1 DEF SpawnFails, PendingRule
<1>3. /\ pending' = NoPending
      /\ UNCHANGED <<disk, config, reader, worker, pipe, life, untold>>
  BY DEF SpawnFails, procs
<1>4. /\ models' \in [Aliases -> RowType] /\ downloads' \in [Aliases -> DownloadStates]
      /\ faulted' \in BOOLEAN
      /\ \A y \in Aliases : y # x => models'[y] = models[y] /\ downloads'[y] = downloads[y]
      /\ downloads'[x] \in ActiveStatus => downloads[x] \in ActiveStatus
      /\ models'[x].source = models[x].source /\ models'[x].repo = models[x].repo
      /\ models'[x].status = "error" \/ models'[x] = models[x]
  <2>1. CASE Mark(x, "error", NoRepo, "error") /\ WriteSucceeds
    BY <1>0, <1>2, <2>1, MarkRow DEF DownloadStates, ActiveStatus, WriteSucceeds, InstallTypes
  <2>2. CASE WriteFails
    BY <1>0, <2>2 DEF WriteFails, catalog, InstallTypes
  <2> QED
    BY <1>1, <2>1, <2>2 DEF SpawnFails
<1>5. InstallTypes'
  BY <1>0, <1>3, <1>4 DEF InstallTypes
<1>6. \A y \in Aliases : RowRule(y)'
  BY <1>0, <1>2, <1>3, <1>4 DEF RowRule
<1>7. UniqueInstall'
  BY <1>0, <1>4, InstallsEnd
<1>8. PendingRule' /\ LifeRule'
  BY <1>0, <1>2, <1>3 DEF PendingRule, LifeRule
<1>9. InstalledHasSnapshot'
  BY <1>0, <1>2, <1>3, <1>4 DEF InstalledHasSnapshot
<1>10. ASSUME NEW y \in Aliases, UnderWay(y)
       PROVE  /\ downloads'[y] \in ActiveStatus
              /\ models'[y].source = models[y].source /\ models'[y].repo = models[y].repo
  BY <1>0, <1>2, <1>4, <1>10 DEF UnderWay, DownloadRule
<1> QED
  BY <1>3, <1>5, <1>6, <1>7, <1>8, <1>9, <1>10, RowStep

\* The steps of a worker
LEMMA WorkerNextKeeps ==
  ASSUME InstallsInv, NEW x \in Aliases, WorkerNext(x) PROVE InstallsInv'
<1>0. /\ InstallTypes /\ ReaderRule(x) /\ DownloadRule(x)
      /\ worker[x] \in WorkerType /\ pipe[x] \in PipeType /\ reader[x] \in ReaderType
      /\ NoWorker.stage = "none"
  BY InstallFacts
<1>1. worker[x].stage \notin {"none", "exited"}
  BY DEF WorkerNext, WorkerStarts, WorkerFetches, WorkerCompletes, WorkerExits, WorkerFails,
         WorkerCancelled, WorkerStep
<1>2. reader[x].at = "reading"
  BY <1>0, <1>1 DEF ReaderRule, ReaderType
<1>3. pipe[x] \in {<<>>, <<"start">>, <<"complete">>, <<"start", "complete">>}
  BY <1>0, Lines
<1>4. /\ pipe[x] \o <<>> = pipe[x]
      /\ pipe[x] = <<>> => pipe[x] \o <<"start">> = <<"start">>
      /\ pipe[x] = <<>> => pipe[x] \o <<"complete">> = <<"complete">>
      /\ pipe[x] = <<"start">> => pipe[x] \o <<"complete">> = <<"start", "complete">>
  BY <1>0, Lines
<1>5. ASSUME NEW from, NEW w, NEW event, WorkerStep(x, from, w, event)
      PROVE  /\ worker[x].stage = from /\ worker' = [worker EXCEPT ![x] = w]
             /\ pipe' = [pipe EXCEPT ![x] = pipe[x] \o event]
             /\ UNCHANGED <<models, downloads, config, pending, reader, life, faulted, untold>>
  BY <1>5 DEF WorkerStep, catalog, bounds
<1>6. CASE WorkerStarts(x)
  <2>1. PICK w : w = [worker[x] EXCEPT !.stage = "fetching"]
    OBVIOUS
  <2>2. w \in WorkerType /\ w.repo = worker[x].repo /\ w.stage = "fetching"
    BY <1>0, <2>1 DEF WorkerType
  <2>3. WorkerStep(x, "spawned", w, <<"start">>) /\ UNCHANGED disk
    BY <1>6, <2>1 DEF WorkerStarts
  <2>4. pipe[x] = <<>> /\ ~reader[x].complete
    BY <1>0, <1>5, <2>3 DEF ReaderRule
  <2>5. PICK lines : lines = <<"start">>
    OBVIOUS
  <2>6. pipe' = [pipe EXCEPT ![x] = lines]
    BY <1>4, <1>5, <2>3, <2>4, <2>5
  <2>7. lines \in PipeType /\ lines \notin Unread
    BY <2>5, Lines
  <2>8. disk' \in [Repos -> {"absent", "part", "full"}]
    BY <1>0, <2>3 DEF InstallTypes
  <2>9. /\ worker' = [worker EXCEPT ![x] = w]
        /\ UNCHANGED <<models, downloads, disk, config, pending, reader, life, faulted, untold>>
    BY <1>5, <2>3
  <2> QED
    BY <1>2, <2>2, <2>4, <2>5, <2>6, <2>7, <2>8, <2>9, WorkerKeeps
<1>7. CASE WorkerFetches(x)
  <2>1. WorkerStep(x, "fetching", worker[x], <<>>)
    BY <1>7 DEF WorkerFetches
  <2>2. disk' = [disk EXCEPT ![worker[x].repo] = "part"]
    BY <1>7 DEF WorkerFetches
  <2>3. /\ disk' \in [Repos -> {"absent", "part", "full"}]
        /\ \A r \in Repos : disk[r] # "absent" => disk'[r] # "absent"
    BY <1>0, <2>2 DEF InstallTypes
  <2>4. PICK lines : lines = pipe[x] \o <<>>
    OBVIOUS
  <2>5. /\ worker[x].stage = "fetching" /\ worker' = [worker EXCEPT ![x] = worker[x]]
        /\ pipe' = [pipe EXCEPT ![x] = lines]
        /\ UNCHANGED <<models, downloads, config, pending, reader, life, faulted, untold>>
    BY <1>5, <2>1, <2>4
  <2>6. lines = pipe[x]
    BY <1>4, <2>4
  <2>7. lines \in {<<>>, <<"start">>} /\ ~reader[x].complete
    BY <1>0, <2>5, <2>6 DEF ReaderRule
  <2> QED
    BY <1>0, <1>2, <2>3, <2>5, <2>6, <2>7, WorkerKeeps
<1>8. CASE WorkerCompletes(x)
  <2>1. PICK w : w = [worker[x] EXCEPT !.stage = "fetched"]
    OBVIOUS
  <2>2. w \in WorkerType /\ w.repo = worker[x].repo /\ w.stage = "fetched"
    BY <1>0, <2>1 DEF WorkerType
  <2>3. /\ WorkerStep(x, "fetching", w, <<"complete">>)
        /\ disk' = [disk EXCEPT ![worker[x].repo] = "full"]
    BY <1>8, <2>1 DEF WorkerCompletes
  <2>4. pipe[x] \in {<<>>, <<"start">>} /\ ~reader[x].complete
    BY <1>0, <1>5, <2>3 DEF ReaderRule
  <2>5. PICK lines : lines = pipe[x] \o <<"complete">>
    OBVIOUS
  <2>6. lines \in PipeType
    BY <1>4, <2>4, <2>5, Lines
  <2>7. /\ disk' \in [Repos -> {"absent", "part", "full"}]
        /\ \A r \in Repos : disk[r] # "absent" => disk'[r] # "absent"
        /\ worker[x].repo \in Repos => disk'[worker[x].repo] # "absent"
    BY <1>0, <2>3 DEF InstallTypes
  <2>8. UnderWay(x) => worker[x].repo \in Repos
    BY <1>0 DEF DownloadRule
  <2>9. pipe' = [pipe EXCEPT ![x] = lines]
    BY <1>5, <2>3, <2>5
  <2> QED
    BY <1>2, <1>5, <2>2, <2>3, <2>4, <2>6, <2>7, <2>8, <2>9, WorkerKeeps, ZenonT(40)
<1>9. ASSUME NEW s \in {"spawned", "fetching", "fetched"},
             NEW rc \in {"ok", "failed", "cancelled"},
             WorkerStep(x, s, Exited(x, rc), <<>>), UNCHANGED disk
      PROVE  InstallsInv'
  <2>1. PICK w : w = Exited(x, rc)
    OBVIOUS
  <2>2. w \in WorkerType /\ w.repo = worker[x].repo /\ w.stage = "exited"
    BY <1>0, <2>1 DEF WorkerType, Exited
  <2>3. PICK lines : lines = pipe[x] \o <<>>
    OBVIOUS
  <2>4. /\ worker' = [worker EXCEPT ![x] = w] /\ pipe' = [pipe EXCEPT ![x] = lines]
        /\ UNCHANGED <<models, downloads, config, pending, reader, life, faulted, untold>>
    BY <1>5, <1>9, <2>1, <2>3
  <2>5. lines = pipe[x]
    BY <1>4, <2>3
  <2>6. reader[x].complete => lines = <<>>
    BY <1>0, <2>5 DEF ReaderRule
  <2>7. disk' \in [Repos -> {"absent", "part", "full"}]
    BY <1>0, <1>9 DEF InstallTypes
  <2> QED
    BY <1>0, <1>2, <1>9, <2>2, <2>4, <2>5, <2>6, <2>7, WorkerKeeps
<1> QED
  BY <1>6, <1>7, <1>8, <1>9 DEF WorkerNext, WorkerExits, WorkerFails, WorkerCancelled

\* cancel_install and the exit of manager_lifespan only send signals.
LEMMA SignalKeeps ==
  ASSUME InstallsInv, worker' \in [Aliases -> WorkerType],
         \A x \in Aliases : worker'[x].stage = worker[x].stage /\ worker'[x].repo = worker[x].repo,
         life' = life \/ (life = "up" /\ life' = "stopping"),
         UNCHANGED <<models, downloads, disk, config, pending, reader, pipe, faulted, untold>>
  PROVE  InstallsInv'
<1>0. /\ InstallTypes /\ PendingRule /\ UniqueInstall /\ LifeRule /\ InstalledHasSnapshot
      /\ \A y \in Aliases : RowRule(y) /\ ReaderRule(y) /\ DownloadRule(y)
  BY InstallFacts
<1>1. InstallTypes'
  BY <1>0 DEF InstallTypes
<1>2. \A y \in Aliases : RowRule(y)' /\ ReaderRule(y)' /\ DownloadRule(y)'
  BY <1>0 DEF RowRule, ReaderRule, DownloadRule, UnderWay
<1>3. PendingRule' /\ UniqueInstall' /\ LifeRule' /\ InstalledHasSnapshot'
  BY <1>0 DEF PendingRule, UniqueInstall, LifeRule, InstalledHasSnapshot, UnderWay
<1> QED
  BY <1>1, <1>2, <1>3 DEF InstallsInv

\* Cancelling a download (cancel_download) marks nothing itself.
LEMMA CancelKeeps == ASSUME InstallsInv, NEW x \in Aliases, Cancel(x) PROVE InstallsInv'
<1>0. InstallTypes /\ worker[x] \in WorkerType
  BY InstallFacts
<1>1. PICK w : w = [worker[x] EXCEPT !.signalled = TRUE]
  OBVIOUS
<1>2. w \in WorkerType /\ w.stage = worker[x].stage /\ w.repo = worker[x].repo
  BY <1>0, <1>1 DEF WorkerType
<1>3. /\ worker' = [worker EXCEPT ![x] = w]
      /\ UNCHANGED <<models, downloads, disk, config, pending, reader, pipe, life, faulted, untold>>
  BY <1>1 DEF Cancel, catalog, bounds
<1>4. /\ worker' \in [Aliases -> WorkerType] /\ worker'[x] = w
      /\ \A y \in Aliases : y # x => worker'[y] = worker[y]
  BY <1>0, <1>2, <1>3 DEF InstallTypes
<1> QED
  BY <1>2, <1>3, <1>4, SignalKeeps

\* A shutdown of the manager asks its workers to end and keeps the rows for their
\* readers.
LEMMA ShutdownKeeps == ASSUME InstallsInv, Shutdown PROVE InstallsInv'
<1> DEFINE Sent(y) == [worker[y] EXCEPT !.signalled = worker[y].stage \notin {"none", "exited"}]
<1>1. ASSUME NEW y \in Aliases
      PROVE  /\ Sent(y) \in WorkerType /\ Sent(y).stage = worker[y].stage
             /\ Sent(y).repo = worker[y].repo
  <2>1. worker[y] \in WorkerType
    BY InstallFacts
  <2>2. PICK b \in BOOLEAN : b = (worker[y].stage \notin {"none", "exited"})
    OBVIOUS
  <2>3. Sent(y) = [worker[y] EXCEPT !.signalled = b]
    BY <2>2
  <2> HIDE DEF Sent
  <2> QED
    BY <2>1, <2>3 DEF WorkerType
<1>2. /\ worker' = [y \in Aliases |-> Sent(y)] /\ life = "up" /\ life' = "stopping"
      /\ UNCHANGED <<models, downloads, disk, config, pending, reader, pipe, faulted, untold>>
  BY DEF Shutdown, Free, catalog, bounds
<1> HIDE DEF Sent
<1>3. \A y \in Aliases : worker'[y] = Sent(y)
  BY <1>2
<1>4. worker' \in [Aliases -> WorkerType]
  BY <1>1, <1>2
<1> QED
  BY <1>1, <1>2, <1>3, <1>4, SignalKeeps

\* A reader thread moves on and marks at most the rows of its alias, which
\* leaves the active ones only when its download is no longer under way.
LEMMA ReaderKeeps ==
  ASSUME InstallsInv, NEW x \in Aliases, NEW t \in ReaderType,
         reader[x].at # "none", life \in {"up", "stopping"},
         reader' = [reader EXCEPT ![x] = t],
         models' \in [Aliases -> RowType], downloads' \in [Aliases -> DownloadStates],
         worker' \in [Aliases -> WorkerType], pipe' \in [Aliases -> PipeType],
         faulted' \in BOOLEAN,
         \A y \in Aliases : y # x => /\ models'[y] = models[y] /\ downloads'[y] = downloads[y]
                                     /\ worker'[y] = worker[y] /\ pipe'[y] = pipe[y],
         models'[x].source = models[x].source, models'[x].repo = models[x].repo,
         models[x] = NoRow => models'[x] = NoRow,
         downloads'[x] \in ActiveStatus => downloads[x] \in ActiveStatus,
         t.at = "reading" /\ ~t.complete =>
            /\ reader[x].at = "reading" /\ ~reader[x].complete
            /\ downloads'[x] \in ActiveStatus /\ worker'[x].repo = worker[x].repo
            /\ pipe'[x] \in Unread => pipe[x] \in Unread,
         ReaderRule(x)',
         models'[x].status = "installed" =>
            \/ models'[x] = models[x]
            \/ /\ models'[x].pin = models[x].repo
               /\ disk[models[x].repo] # "absent",
         UNCHANGED <<disk, config, pending, life, untold>>
  PROVE  InstallsInv'
<1>0. /\ InstallTypes /\ PendingRule /\ UniqueInstall /\ LifeRule /\ InstalledHasSnapshot
      /\ \A y \in Aliases : RowRule(y) /\ ReaderRule(y) /\ DownloadRule(y)
  BY InstallFacts
<1>1. /\ reader' \in [Aliases -> ReaderType] /\ reader'[x] = t
      /\ \A y \in Aliases : y # x => reader'[y] = reader[y]
  BY <1>0 DEF InstallTypes
<1>2. InstallTypes'
  BY <1>0, <1>1 DEF InstallTypes
<1>3. \A y \in Aliases : RowRule(y)'
  BY <1>0 DEF RowRule
<1>4. \A y \in Aliases : ReaderRule(y)'
  BY <1>0, <1>1 DEF ReaderRule
<1>5. DownloadRule(x)'
  BY <1>0, <1>1 DEF DownloadRule, UnderWay
<1>6. \A y \in Aliases : DownloadRule(y)'
  BY <1>0, <1>1, <1>5 DEF DownloadRule, UnderWay
<1>7. \A y \in Aliases : UnderWay(y)' => UnderWay(y)
  BY <1>1 DEF UnderWay
<1>8. PendingRule'
  <2>1. \A y \in Aliases : models'[y].repo = models[y].repo
    OBVIOUS
  <2>2. pending.op \in {"install", "cache", "full"} => pending.alias # x
    BY <1>0 DEF PendingRule
  <2> QED
    BY <1>0, <1>1, <1>7, <2>1, <2>2 DEF PendingRule
<1>9. UniqueInstall'
  BY <1>0, InstallsEnd
<1>10. LifeRule'
  BY DEF LifeRule
<1>11. InstalledHasSnapshot'
  BY <1>0 DEF InstalledHasSnapshot
<1> QED
  BY <1>2, <1>3, <1>4, <1>6, <1>8, <1>9, <1>10, <1>11 DEF InstallsInv

\* The reader thread reads a line.
LEMMA ReadEventKeeps == ASSUME InstallsInv, NEW x \in Aliases, ReadEvent(x) PROVE InstallsInv'
<1>0. /\ InstallTypes /\ ReaderRule(x) /\ DownloadRule(x) /\ models[x] \in RowType
      /\ reader[x] \in ReaderType /\ pipe[x] \in PipeType /\ worker[x] \in WorkerType
      /\ NoRow.source = "none"
  BY InstallFacts
<1>1. /\ reader[x].at = "reading" /\ pipe[x] # <<>> /\ life \in {"up", "stopping"}
      /\ pipe' = [pipe EXCEPT ![x] = Tail(pipe[x])]
      /\ UNCHANGED <<disk, config, pending, worker, life, untold>>
  BY DEF ReadEvent, Running
<1>2. ~reader[x].complete /\ UnderWay(x)
  BY <1>0, <1>1 DEF ReaderRule, UnderWay
<1>3. /\ downloads[x] \in ActiveStatus /\ models[x].source = "ui_install"
      /\ models[x].repo = worker[x].repo /\ worker[x].repo \in Repos
      /\ pipe[x] \in Unread => disk[worker[x].repo] # "absent"
  BY <1>0, <1>2 DEF DownloadRule
<1>4. PICK b \in BOOLEAN : b = (reader[x].complete \/ Head(pipe[x]) = "complete")
  OBVIOUS
<1>5. PICK t : t = [reader[x] EXCEPT !.complete = b]
  OBVIOUS
<1>6. reader' = [reader EXCEPT ![x] = t]
  BY <1>4, <1>5 DEF ReadEvent
<1>7. t \in ReaderType /\ t.at = "reading" /\ t.complete = b
  BY <1>0, <1>1, <1>5 DEF ReaderType
<1>8. PICK lines : lines = Tail(pipe[x])
  OBVIOUS
<1>9. /\ Head(pipe[x]) \in {"start", "complete"} /\ lines \in PipeType
      /\ Head(pipe[x]) = "complete" => pipe[x] \in Unread /\ lines = <<>>
      /\ lines \in Unread => pipe[x] \in Unread
      /\ lines \in {<<>>, <<"complete">>}
      /\ pipe[x] = <<"start">> => lines = <<>>
  BY <1>0, <1>1, <1>8, Lines
<1>10. /\ pipe' \in [Aliases -> PipeType] /\ pipe'[x] = lines
       /\ \A y \in Aliases : y # x => pipe'[y] = pipe[y]
  BY <1>0, <1>1, <1>8, <1>9 DEF InstallTypes
<1>11. /\ reader'[x] = t
  BY <1>0, <1>6 DEF InstallTypes
<1>12. b => Head(pipe[x]) = "complete"
  BY <1>2, <1>4
<1>13. Head(pipe[x]) = "complete" => worker[x].stage \in {"fetched", "exited"}
  <2>1. Head(pipe[x]) = "complete" => pipe[x] # <<"start">>
    BY Lines
  <2>2. worker[x].stage \notin {"none", "spawned"}
    BY <1>0, <1>1 DEF ReaderRule
  <2>3. worker[x].stage = "fetching" => pipe[x] = <<"start">>
    BY <1>0, <1>1 DEF ReaderRule
  <2> QED
    BY <1>0, <2>1, <2>2, <2>3 DEF WorkerType
<1>14. ReaderRule(x)'
  <2>1. worker'[x] = worker[x]
    BY <1>1
  <2>2. t.complete => lines = <<>> /\ worker[x].stage \in {"fetched", "exited"}
    BY <1>7, <1>9, <1>12, <1>13
  <2>3. worker[x].stage # "none" /\ worker[x].stage # "spawned"
    BY <1>0, <1>1 DEF ReaderRule
  <2>4. worker[x].stage = "fetching" => lines = <<>>
    BY <1>0, <1>1, <1>9 DEF ReaderRule
  <2> QED
    BY <1>7, <1>10, <1>11, <2>1, <2>2, <2>3, <2>4 DEF ReaderRule
<1>15. models[x] # NoRow
  BY <1>0, <1>3
<1>16. CASE WriteFails
  <2>1. UNCHANGED <<models, downloads>> /\ faulted' = TRUE
    BY <1>16 DEF WriteFails, catalog
  <2>2. /\ models' \in [Aliases -> RowType] /\ downloads' \in [Aliases -> DownloadStates]
        /\ worker' \in [Aliases -> WorkerType]
    BY <1>0, <1>1, <2>1 DEF InstallTypes
  <2> QED
    BY <1>1, <1>2, <1>3, <1>6, <1>7, <1>9, <1>10, <1>14, <2>1, <2>2, ReaderKeeps
<1>17. CASE Head(pipe[x]) = "start" /\ MarkDownloading(x) /\ WriteSucceeds
  <2>1. /\ downloads' = [downloads EXCEPT ![x] = "downloading"]
        /\ UNCHANGED <<models, faulted>>
    BY <1>3, <1>17 DEF MarkDownloading, WriteSucceeds
  <2>2. /\ models' \in [Aliases -> RowType] /\ downloads' \in [Aliases -> DownloadStates]
        /\ worker' \in [Aliases -> WorkerType] /\ faulted' \in BOOLEAN
        /\ downloads'[x] \in ActiveStatus
        /\ \A y \in Aliases : y # x => downloads'[y] = downloads[y]
    BY <1>0, <1>1, <2>1 DEF InstallTypes, DownloadStates, ActiveStatus
  <2> QED
    BY <1>1, <1>2, <1>3, <1>6, <1>7, <1>9, <1>10, <1>14, <2>1, <2>2, ReaderKeeps
<1>18. CASE /\ Head(pipe[x]) # "start"
            /\ Mark(x, "installed", worker[x].repo, "complete") /\ WriteSucceeds
  <2>1. /\ models' \in [Aliases -> RowType] /\ downloads' \in [Aliases -> DownloadStates]
        /\ \A y \in Aliases : y # x => models'[y] = models[y] /\ downloads'[y] = downloads[y]
        /\ downloads'[x] \notin ActiveStatus
        /\ models'[x].source = models[x].source /\ models'[x].repo = models[x].repo
        /\ models'[x].pin = worker[x].repo
    BY <1>0, <1>3, <1>15, <1>18, MarkRow DEF DownloadStates, ActiveStatus
  <2>2. worker' \in [Aliases -> WorkerType] /\ faulted' \in BOOLEAN
    BY <1>0, <1>1, <1>18 DEF InstallTypes, WriteSucceeds
  <2>3. Head(pipe[x]) = "complete" /\ pipe[x] \in Unread
    BY <1>9, <1>18
  <2>4. t.complete
    BY <1>4, <1>7, <2>3
  <2> QED
    BY <1>1, <1>3, <1>6, <1>7, <1>10, <1>14, <1>15, <2>1, <2>2, <2>3, <2>4, ReaderKeeps
<1> QED
  BY <1>16, <1>17, <1>18 DEF ReadEvent

\* It reads the end, and writes the outcome if "complete" was not seen.
LEMMA ReadEndKeeps == ASSUME InstallsInv, NEW x \in Aliases, ReadEnd(x) PROVE InstallsInv'
<1>0. /\ InstallTypes /\ ReaderRule(x) /\ models[x] \in RowType
      /\ reader[x] \in ReaderType /\ NoRow.source = "none"
  BY InstallFacts
<1>1. /\ reader[x].at = "reading" /\ pipe[x] = <<>> /\ worker[x].stage = "exited"
      /\ life \in {"up", "stopping"}
      /\ UNCHANGED <<disk, config, pending, worker, pipe, life, untold>>
  BY DEF ReadEnd, Running
<1>2. PICK t : t = [reader[x] EXCEPT !.at = "settled"]
  OBVIOUS
<1>3. reader' = [reader EXCEPT ![x] = t] /\ t \in ReaderType /\ t.at = "settled"
  BY <1>0, <1>2 DEF ReadEnd, ReaderType
<1>4. reader'[x] = t
  BY <1>0, <1>3 DEF InstallTypes
<1>5. ReaderRule(x)'
  BY <1>1, <1>3, <1>4 DEF ReaderRule
<1>6. worker' \in [Aliases -> WorkerType] /\ pipe' \in [Aliases -> PipeType]
  BY <1>0, <1>1 DEF InstallTypes
<1>7. ASSUME UNCHANGED <<models, downloads>>, faulted' \in BOOLEAN
      PROVE  InstallsInv'
  <2>1. models' \in [Aliases -> RowType] /\ downloads' \in [Aliases -> DownloadStates]
    BY <1>0, <1>7 DEF InstallTypes
  <2> QED
    BY <1>1, <1>3, <1>5, <1>6, <1>7, <2>1, ReaderKeeps
<1>8. ASSUME NEW status \in {"partial", "error"}, NEW d \in {"cancelled", "error"},
             Mark(x, status, NoRepo, d), faulted' \in BOOLEAN
      PROVE  InstallsInv'
  <2>1. /\ models' \in [Aliases -> RowType] /\ downloads' \in [Aliases -> DownloadStates]
        /\ \A y \in Aliases : y # x => models'[y] = models[y] /\ downloads'[y] = downloads[y]
        /\ downloads'[x] \notin ActiveStatus
        /\ models'[x].source = models[x].source /\ models'[x].repo = models[x].repo
        /\ models[x] = NoRow => models'[x] = NoRow
        /\ models[x] # NoRow => models'[x].status = status
    BY <1>0, <1>8, MarkRow DEF DownloadStates, ActiveStatus
  <2>2. models'[x].status # "installed" \/ models'[x] = models[x]
    BY <2>1
  <2> QED
    BY <1>1, <1>3, <1>5, <1>6, <1>8, <2>1, <2>2, ReaderKeeps
<1>9. WriteFails => UNCHANGED <<models, downloads>> /\ faulted' \in BOOLEAN
  BY DEF WriteFails, catalog
<1>10. WriteSucceeds => faulted' \in BOOLEAN
  BY <1>0 DEF WriteSucceeds, InstallTypes
<1> QED
  BY <1>7, <1>8, <1>9, <1>10 DEF ReadEnd, TerminalMark, catalog

\* It leaves _active.
LEMMA ReaderLeavesKeeps ==
  ASSUME InstallsInv, NEW x \in Aliases, ReaderLeaves(x) PROVE InstallsInv'
<1>0. /\ InstallTypes /\ ReaderRule(x)
      /\ IdleReader \in ReaderType /\ IdleReader.at = "none" /\ ~IdleReader.complete
      /\ NoWorker \in WorkerType /\ NoWorker.stage = "none"
  BY InstallFacts
<1>1. /\ reader[x].at = "settled" /\ life \in {"up", "stopping"}
      /\ reader' = [reader EXCEPT ![x] = IdleReader] /\ worker' = [worker EXCEPT ![x] = NoWorker]
      /\ UNCHANGED <<models, downloads, disk, config, pending, pipe, life, faulted, untold>>
  BY DEF ReaderLeaves, Running, catalog, bounds
<1>2. /\ worker' \in [Aliases -> WorkerType] /\ worker'[x] = NoWorker
      /\ reader'[x] = IdleReader
      /\ \A y \in Aliases : y # x => worker'[y] = worker[y]
  BY <1>0, <1>1 DEF InstallTypes
<1>3. /\ models' \in [Aliases -> RowType] /\ downloads' \in [Aliases -> DownloadStates]
      /\ pipe' \in [Aliases -> PipeType] /\ faulted' \in BOOLEAN
  BY <1>0, <1>1 DEF InstallTypes
<1>4. ReaderRule(x)'
  BY <1>0, <1>1, <1>2 DEF ReaderRule
<1> QED
  BY <1>0, <1>1, <1>2, <1>3, <1>4, ReaderKeeps

\* A handler that ends after a wipe, told or not, of repositories that no download
\* is under way in
LEMMA WipeEnds ==
  ASSUME InstallsInv, Free, disk' \in [Repos -> {"absent", "part", "full"}],
         \A q \in untold : q \in untold',
         \A q \in Repos : disk[q] # "absent" => disk'[q] # "absent" \/ q \in untold',
         \A y \in Aliases :
            UnderWay(y) /\ disk[models[y].repo] # "absent" => disk'[models[y].repo] # "absent",
         UNCHANGED <<models, downloads, pending, config, reader, worker, pipe, life, faulted>>
  PROVE  InstallsInv'
<1>0. /\ InstallTypes /\ PendingRule /\ UniqueInstall /\ LifeRule /\ InstalledHasSnapshot
      /\ \A y \in Aliases : RowRule(y) /\ ReaderRule(y) /\ DownloadRule(y)
      /\ NoRow.status = "none" /\ NoPending.wiped = {}
  BY InstallFacts
<1>1. InstallTypes' /\ \A y \in Aliases : RowRule(y)'
  BY <1>0 DEF InstallTypes, RowRule
<1>2. PendingRule' /\ UniqueInstall' /\ LifeRule'
  BY <1>0 DEF PendingRule, UniqueInstall, LifeRule, UnderWay
<1>3. InstalledHasSnapshot'
  <2> SUFFICES ASSUME life = "up", NEW y \in Aliases, models[y].status = "installed"
               PROVE  /\ models[y].pin = models[y].repo
                      /\ disk'[models[y].repo] # "absent" \/ models[y].repo \in untold'
    BY DEF InstalledHasSnapshot
  <2>1. models[y].repo \in Repos
    BY <1>0 DEF RowRule
  <2>2. pending.wiped = {}
    BY <1>0 DEF Free
  <2> QED
    BY <1>0, <2>1, <2>2 DEF InstalledHasSnapshot
<1>4. ASSUME NEW y \in Aliases, UnderWay(y)
      PROVE  /\ downloads'[y] \in ActiveStatus
             /\ disk[models[y].repo] # "absent" => disk'[models[y].repo] # "absent"
  BY <1>0, <1>4 DEF DownloadRule
<1> QED
  BY <1>1, <1>2, <1>3, <1>4, RowStep

\* force_wipe_cache touches one repository, whether it ends or raises.
LEMMA WipedDisk ==
  ASSUME InstallTypes, NEW r \in Repos, NEW d \in WipedTo(r) \cup HalfWipedTo(r)
  PROVE  /\ d \in [Repos -> {"absent", "part", "full"}]
         /\ \A q \in Repos : q # r => d[q] = disk[q]
<1>1. PICK left \in {"absent", "part", "full"} : d = [disk EXCEPT ![r] = left]
  BY DEF WipedTo, HalfWipedTo, InstallTypes
<1> QED
  BY <1>1 DEF InstallTypes

\* Repositories that lost weights are those the wipe touched.
LEMMA LostWeights ==
  ASSUME untold' = untold \cup Lost
  PROVE  /\ \A q \in untold : q \in untold'
         /\ \A q \in Repos : disk[q] # "absent" => disk'[q] # "absent" \/ q \in untold'
BY DEF Lost

\* A retry finds no other download of its repository under way.
LEMMA RetryAlone ==
  ASSUME InstallsInv, NEW x \in Aliases, models[x].source = "ui_install", ~IsActive(x),
         NoConflict(x, models[x].repo)
  PROVE  \A y \in Aliases : UnderWay(y) => models[y].repo # models[x].repo
<1> SUFFICES ASSUME NEW y \in Aliases, UnderWay(y), models[y].repo = models[x].repo PROVE FALSE
  OBVIOUS
<1>1. UniqueInstall /\ DownloadRule(y)
  BY InstallFacts
<1>2. downloads[y] \in ActiveStatus /\ models[y].source = "ui_install" /\ reader[y].at = "reading"
  BY <1>1 DEF DownloadRule, UnderWay
<1>3. y \in ActiveFor(models[x].repo)
  BY <1>2 DEF ActiveFor, Siblings
<1>4. downloads[x] \in ActiveStatus
  BY <1>3 DEF NoConflict, ActiveFor
<1>5. x = y
  BY <1>1, <1>2, <1>4 DEF UniqueInstall
<1> QED
  BY <1>2, <1>5 DEF IsActive

\* A retry starts over only where no download of the repository is under way.
LEMMA RetryKeeps ==
  ASSUME InstallsInv, NEW x \in Aliases
  PROVE  /\ \A force \in BOOLEAN : Retry(x, force) => InstallsInv'
         /\ RetryWipeFails(x) => InstallsInv'
<1>0. InstallTypes /\ RowRule(x)
  BY InstallFacts
<1>1. PICK r : r = models[x].repo
  OBVIOUS
<1>2. models[x].source = "ui_install" => r \in Repos
  BY <1>0, <1>1 DEF RowRule
<1>3. ASSUME NEW force \in BOOLEAN, Retry(x, force) PROVE InstallsInv'
  <2>1. /\ Free /\ models[x].source = "ui_install" /\ ~IsActive(x) /\ NoConflict(x, r)
        /\ UNCHANGED <<config, reader, worker, pipe, life, faulted>>
    BY <1>1, <1>3 DEF Retry, procs
  <2>2. \A y \in Aliases : UnderWay(y) => models[y].repo # r
    BY <1>1, <2>1, RetryAlone
  <2>3. /\ disk' \in [Repos -> {"absent", "part", "full"}]
        /\ \A q \in Repos : q # r => disk'[q] = disk[q]
        /\ \A q \in untold : q \in untold'
        /\ \A q \in Repos : disk[q] # "absent" => disk'[q] # "absent" \/ q \in untold'
    <3>1. CASE force
      <4>1. disk' \in WipedTo(r) /\ untold' = untold \cup Lost
        BY <1>1, <1>3, <3>1 DEF Retry
      <4> QED
        BY <1>0, <1>2, <2>1, <4>1, WipedDisk, LostWeights
    <3>2. CASE ~force
      BY <1>0, <1>3, <3>2 DEF Retry, InstallTypes
    <3> QED
      BY <3>1, <3>2
  <2>4. \A y \in Aliases :
           UnderWay(y) /\ disk[models[y].repo] # "absent" => disk'[models[y].repo] # "absent"
    <3>1. \A y \in Aliases : UnderWay(y) => models[y].repo \in Repos
      BY InstallFacts DEF DownloadRule
    <3> QED
      BY <2>2, <2>3, <3>1
  <2>5. CASE Admits(x, r) /\ ~CacheOnly(x)
    <3>1. Queue(x, r)
      BY <1>1, <1>3, <2>5 DEF Retry
    <3> QED
      BY <1>2, <2>1, <2>3, <2>4, <2>5, <3>1, QueueKeeps
  <2>6. CASE ~(Admits(x, r) /\ ~CacheOnly(x))
    <3>1. UNCHANGED <<models, downloads, pending>>
      BY <1>1, <1>3, <2>6 DEF Retry, catalog
    <3> QED
      BY <2>1, <2>3, <2>4, <3>1, WipeEnds
  <2> QED
    BY <2>5, <2>6
<1>4. ASSUME RetryWipeFails(x) PROVE InstallsInv'
  <2>1. /\ Free /\ models[x].source = "ui_install" /\ ~IsActive(x) /\ NoConflict(x, r)
        /\ disk' \in HalfWipedTo(r) /\ untold' = untold \cup Lost
        /\ UNCHANGED <<models, downloads, pending, config, reader, worker, pipe, life, faulted>>
    BY <1>1, <1>4 DEF RetryWipeFails, catalog, procs, bounds
  <2>2. \A y \in Aliases : UnderWay(y) => models[y].repo # r /\ models[y].repo \in Repos
    BY <1>1, <2>1, RetryAlone, InstallFacts DEF DownloadRule
  <2>3. /\ disk' \in [Repos -> {"absent", "part", "full"}]
        /\ \A q \in Repos : q # r => disk'[q] = disk[q]
    BY <1>0, <1>2, <2>1, WipedDisk
  <2> QED
    BY <2>1, <2>2, <2>3, LostWeights, WipeEnds
<1> QED
  BY <1>3, <1>4

\* An install is queued under the same condition.
LEMMA RequestKeeps ==
  ASSUME InstallsInv, NEW x \in Aliases, NEW r \in Repos, Request(x, r) PROVE InstallsInv'
<1>1. /\ Free /\ Admits(x, r) /\ Queue(x, r)
      /\ UNCHANGED <<disk, config, reader, worker, pipe, life, faulted, untold>>
  BY DEF Request, procs
<1>2. disk' \in [Repos -> {"absent", "part", "full"}]
  BY <1>1, InstallFacts DEF InstallTypes
<1> QED
  BY <1>1, <1>2, QueueKeeps

\* A wipe of repositories that no download is under way in, the rows to be told
LEMMA WipeKeeps ==
  ASSUME InstallsInv, NEW op \in {"cache", "full", "legacy"}, NEW x \in Aliases \cup {NoAlias},
         NEW wiped \in SUBSET Repos, Free,
         disk' \in [Repos -> {"absent", "part", "full"}],
         \A q \in Repos \ wiped : disk'[q] = disk[q],
         pending' = [op |-> op, alias |-> x, repo |-> NoRepo, wiped |-> wiped],
         UNCHANGED <<models, downloads, config, reader, worker, pipe, life, faulted, untold>>,
         op # "legacy" =>
            x \in Aliases /\ reader[x].at = "none" /\ models[x].source = "ui_install",
         \A y \in Aliases : UnderWay(y) => models[y].repo \notin wiped
  PROVE  InstallsInv'
<1>0. /\ InstallTypes /\ PendingRule /\ UniqueInstall /\ LifeRule /\ InstalledHasSnapshot
      /\ \A y \in Aliases : RowRule(y) /\ ReaderRule(y) /\ DownloadRule(y)
      /\ NoRow.status = "none" /\ NoPending.wiped = {}
  BY InstallFacts
<1>1. pending.wiped = {} /\ life = "up"
  BY <1>0 DEF Free
<1>2. \A y \in Aliases : RowRule(y)'
  BY <1>0 DEF RowRule
<1>3. UniqueInstall'
  BY <1>0 DEF UniqueInstall
<1>4. /\ pending' \in PendingType
      /\ pending'.op = op /\ pending'.alias = x /\ pending'.wiped = wiped
  BY DEF PendingType
<1>5. InstallTypes'
  BY <1>0, <1>4 DEF InstallTypes
<1>6. PendingRule' /\ LifeRule'
  BY <1>1, <1>4 DEF PendingRule, LifeRule, UnderWay
<1>7. InstalledHasSnapshot'
  <2> SUFFICES ASSUME NEW y \in Aliases, models[y].status = "installed"
               PROVE  /\ models[y].pin = models[y].repo
                      /\ disk'[models[y].repo] # "absent" \/ models[y].repo \in untold \cup wiped
    BY <1>4 DEF InstalledHasSnapshot
  <2>1. models[y].repo \in Repos
    BY <1>0 DEF RowRule
  <2> QED
    BY <1>0, <1>1, <2>1 DEF InstalledHasSnapshot
<1>8. ASSUME NEW y \in Aliases, UnderWay(y)
      PROVE  /\ downloads'[y] \in ActiveStatus
             /\ disk[models[y].repo] # "absent" => disk'[models[y].repo] # "absent"
  BY <1>0, <1>8 DEF DownloadRule
<1> QED
  BY <1>2, <1>3, <1>5, <1>6, <1>7, <1>8, RowStep

\* A delete of one alias's cache wipes only where no download is under way.
LEMMA DeleteKeeps ==
  ASSUME InstallsInv, NEW x \in Aliases
  PROVE  /\ \A op \in {"cache", "full"} : DeleteInstall(x, op) => InstallsInv'
         /\ DeleteInstallFails(x) => InstallsInv'
<1>0. InstallTypes /\ RowRule(x) /\ \A y \in Aliases : DownloadRule(y)
  BY InstallFacts
<1>1. PICK r : r = models[x].repo
  OBVIOUS
<1>2. models[x].source = "ui_install" => r \in Repos
  BY <1>0, <1>1 DEF RowRule
<1>3. ASSUME Deletable(r)
      PROVE  /\ \A y \in Aliases : models[y].repo = r => reader[y].at = "none"
             /\ \A y \in Aliases : UnderWay(y) => models[y].repo # r /\ models[y].repo \in Repos
  <2>1. \A y \in Aliases : models[y].repo = r => reader[y].at = "none"
    BY <1>3 DEF Deletable, Siblings, IsActive
  <2> QED
    BY <1>0, <2>1 DEF UnderWay, DownloadRule
<1>4. ASSUME NEW op \in {"cache", "full"}, DeleteInstall(x, op) PROVE InstallsInv'
  <2>1. /\ Free /\ models[x].source = "ui_install" /\ Deletable(r) /\ disk' \in WipedTo(r)
        /\ pending' = [op |-> op, alias |-> x, repo |-> NoRepo, wiped |-> {r}]
        /\ UNCHANGED <<models, downloads, config, reader, worker, pipe, life, faulted, untold>>
    BY <1>1, <1>4 DEF DeleteInstall, catalog, procs, bounds
  <2>2. /\ disk' \in [Repos -> {"absent", "part", "full"}]
        /\ \A q \in Repos : q # r => disk'[q] = disk[q]
    BY <1>0, <1>2, <2>1, WipedDisk
  <2>3. PICK wiped \in SUBSET Repos : wiped = {r}
    BY <1>2, <2>1
  <2> QED
    BY <1>1, <1>3, <2>1, <2>2, <2>3, WipeKeeps
<1>5. ASSUME DeleteInstallFails(x) PROVE InstallsInv'
  <2>1. /\ Free /\ models[x].source = "ui_install" /\ Deletable(r) /\ disk' \in HalfWipedTo(r)
        /\ untold' = untold \cup Lost
        /\ UNCHANGED <<models, downloads, pending, config, reader, worker, pipe, life, faulted>>
    BY <1>1, <1>5 DEF DeleteInstallFails, catalog, procs, bounds
  <2>2. /\ disk' \in [Repos -> {"absent", "part", "full"}]
        /\ \A q \in Repos : q # r => disk'[q] = disk[q]
    BY <1>0, <1>2, <2>1, WipedDisk
  <2> QED
    BY <1>3, <2>1, <2>2, LostWeights, WipeEnds
<1> QED
  BY <1>4, <1>5

\* A delete by Hugging Face id wipes every location that has a row of it.
LEMMA DeleteIdKeeps ==
  ASSUME InstallsInv, NEW h
  PROVE  /\ DeleteCacheLegacy(h) => InstallsInv'
         /\ DeleteCacheLegacyFails(h) => InstallsInv'
<1>0. InstallTypes /\ \A y \in Aliases : DownloadRule(y)
  BY InstallFacts
<1>1. ReposOfId(h) \in SUBSET Repos
  BY DEF ReposOfId, RowsOfId
<1>2. DeletableId(h) => \A y \in Aliases : UnderWay(y) =>
                           models[y].repo \notin ReposOfId(h) /\ models[y].repo \in Repos
  BY <1>0 DEF DeletableId, DownloadRule, ActiveFor, Siblings
<1>3. ASSUME DeleteCacheLegacy(h) PROVE InstallsInv'
  <2>1. PICK wiped \in SUBSET Repos : wiped = ReposOfId(h)
    BY <1>1
  <2>2. /\ Free /\ DeletableId(h)
        /\ disk' = [q \in Repos |-> IF q \in wiped THEN "absent" ELSE disk[q]]
        /\ pending' = [op |-> "legacy", alias |-> NoAlias, repo |-> NoRepo, wiped |-> wiped]
        /\ UNCHANGED <<models, downloads, config, reader, worker, pipe, life, faulted, untold>>
    BY <1>3, <2>1 DEF DeleteCacheLegacy, catalog, procs, bounds
  <2>3. /\ disk' \in [Repos -> {"absent", "part", "full"}]
        /\ \A q \in Repos \ wiped : disk'[q] = disk[q]
    BY <1>0, <2>2 DEF InstallTypes
  <2> QED
    BY <1>2, <2>1, <2>2, <2>3, WipeKeeps
<1>4. ASSUME DeleteCacheLegacyFails(h) PROVE InstallsInv'
  <2>1. PICK done \in SUBSET ReposOfId(h), r \in ReposOfId(h) :
          \E d \in HalfWipedTo(r) : disk' = [q \in Repos |-> IF q \in done THEN "absent" ELSE d[q]]
    BY <1>4 DEF DeleteCacheLegacyFails
  <2>2. PICK d \in HalfWipedTo(r) : disk' = [q \in Repos |-> IF q \in done THEN "absent" ELSE d[q]]
    BY <2>1
  <2>3. /\ Free /\ DeletableId(h) /\ untold' = untold \cup Lost
        /\ UNCHANGED <<models, downloads, pending, config, reader, worker, pipe, life, faulted>>
    BY <1>4 DEF DeleteCacheLegacyFails, catalog, procs, bounds
  <2>4. /\ d \in [Repos -> {"absent", "part", "full"}]
        /\ \A q \in Repos : q # r => d[q] = disk[q]
    BY <1>0, <1>1, <2>2, WipedDisk
  <2>5. /\ disk' \in [Repos -> {"absent", "part", "full"}]
        /\ \A q \in Repos : q \notin ReposOfId(h) => disk'[q] = disk[q]
    BY <2>2, <2>4
  <2> QED
    BY <1>2, <2>3, <2>5, LostWeights, WipeEnds
<1> QED
  BY <1>3, <1>4

\* A step that removes rows, or changes their status or download state, of
\* aliases without a download under way, between handlers
LEMMA RowsKeep ==
  ASSUME InstallsInv, life = "up", pending' = NoPending, pending.op # "install",
         models' \in [Aliases -> RowType], downloads' \in [Aliases -> DownloadStates],
         UNCHANGED <<disk, config, reader, worker, pipe, life, faulted>>,
         \A y \in Aliases :
            \/ /\ models'[y] = NoRow /\ downloads'[y] = "none"
               /\ models[y].source # "config" /\ ~UnderWay(y)
            \/ /\ models'[y].source = models[y].source /\ models'[y].repo = models[y].repo
               /\ models[y] = NoRow => models'[y] = NoRow
               /\ downloads'[y] = downloads[y] \/ (downloads'[y] = "none" /\ ~UnderWay(y))
               /\ models'[y].status = "installed" =>
                     /\ models'[y] = models[y]
                     /\ models[y].repo \in untold \cup pending.wiped => models[y].repo \in untold'
  PROVE  InstallsInv'
<1>0. /\ InstallTypes /\ PendingRule /\ UniqueInstall /\ LifeRule /\ InstalledHasSnapshot
      /\ \A y \in Aliases : RowRule(y) /\ ReaderRule(y) /\ DownloadRule(y)
      /\ NoRow.status = "none" /\ NoRow.source = "none"
      /\ NoPending \in PendingType /\ NoPending.op = "none" /\ NoPending.wiped = {}
  BY InstallFacts
<1>1. InstallTypes'
  BY <1>0 DEF InstallTypes
<1>2. \A y \in Aliases : RowRule(y)'
  BY <1>0 DEF RowRule
<1>3. PendingRule' /\ LifeRule'
  BY <1>0 DEF PendingRule, LifeRule
<1>4. UniqueInstall'
  BY <1>0, InstallsEnd DEF ActiveStatus
<1>5. InstalledHasSnapshot'
  BY <1>0 DEF InstalledHasSnapshot
<1>6. ASSUME NEW y \in Aliases, UnderWay(y)
      PROVE  /\ downloads'[y] \in ActiveStatus
             /\ models'[y].source = models[y].source /\ models'[y].repo = models[y].repo
  BY <1>0, <1>6 DEF DownloadRule
<1> QED
  BY <1>1, <1>2, <1>3, <1>4, <1>5, <1>6, RowStep

\* Rows of the wiped repositories are marked, or deleted: all of them, or those
\* written before a write raised, the others being remembered as not told.
LEMMA TellKeeps ==
  ASSUME InstallsInv, Deleting, NEW told, TellRows(told),
         told \subseteq Unbacked(pending.wiped) \cup Removed, pending' = NoPending,
         UNCHANGED <<disk, config, reader, worker, pipe, life, faulted>>,
         \A y \in Aliases : models[y].repo \in untold \cup pending.wiped =>
                               y \in told \/ models[y].repo \in untold'
  PROVE  InstallsInv'
<1>0. /\ InstallTypes /\ PendingRule /\ NoRow \in RowType
      /\ \A y \in Aliases : models[y] \in RowType /\ RowRule(y) /\ DownloadRule(y)
      /\ NoRow.repo = NoRepo /\ pending \in PendingType
  BY InstallFacts DEF InstallTypes
<1> DEFINE Unpinned(y) == [models[y] EXCEPT !.status = "partial", !.pin = NoRepo]
<1>1. ASSUME NEW y \in Aliases
      PROVE  /\ Unpinned(y) \in RowType /\ Unpinned(y).source = models[y].source
             /\ Unpinned(y).repo = models[y].repo /\ Unpinned(y).status = "partial"
  <2>1. models[y] \in RowType
    BY <1>0
  <2> QED
    BY <2>1 DEF RowType
<1>2. /\ models' = [y \in Aliases |-> IF y \notin told THEN models[y]
                                       ELSE IF y \in Removed THEN NoRow ELSE Unpinned(y)]
      /\ downloads' = [y \in Aliases |-> IF y \in told \cap Removed THEN "none" ELSE downloads[y]]
      /\ pending.op \in {"cache", "full", "legacy"} /\ life = "up"
  BY DEF TellRows, Deleting
<1> HIDE DEF Unpinned
<1>3. models' \in [Aliases -> RowType] /\ downloads' \in [Aliases -> DownloadStates]
  BY <1>0, <1>1, <1>2 DEF InstallTypes, DownloadStates
<1>4. /\ pending.wiped \subseteq Repos
      /\ \A y \in Aliases : UnderWay(y) => models[y].repo \notin pending.wiped
      /\ pending.op \in {"cache", "full"} =>
            reader[pending.alias].at = "none" /\ models[pending.alias].source = "ui_install"
  BY <1>0, <1>2 DEF PendingRule, PendingType
<1>5. ASSUME NEW y \in Aliases, y \in Removed
      PROVE  models[y].source # "config" /\ ~UnderWay(y)
  <2>1. CASE pending.op = "full"
    BY <1>4, <1>5, <2>1 DEF Removed, UnderWay
  <2>2. CASE pending.op = "legacy"
    BY <1>4, <1>5, <2>2 DEF Removed, Unbacked
  <2>3. CASE pending.op = "cache"
    BY <1>5, <2>3 DEF Removed
  <2> QED
    BY <1>2, <2>1, <2>2, <2>3
<1>6. ASSUME NEW y \in Aliases, y \notin told \cap Removed
      PROVE  /\ models'[y].source = models[y].source /\ models'[y].repo = models[y].repo
             /\ models[y] = NoRow => models'[y] = NoRow
             /\ downloads'[y] = downloads[y]
             /\ models'[y].status = "installed" => models'[y] = models[y] /\ y \notin told
  <2>1. CASE y \in told
    <3>1. models'[y] = Unpinned(y) /\ downloads'[y] = downloads[y]
      BY <1>2, <1>6, <2>1
    <3>2. models[y].repo \in pending.wiped
      BY <1>6, <2>1 DEF Unbacked
    <3>3. models[y] # NoRow
      BY <1>0, <1>4, <3>2, InstallsAssumption
    <3> QED
      BY <1>1, <3>1, <3>3
  <2>2. CASE y \notin told
    BY <1>2, <2>2
  <2> QED
    BY <2>1, <2>2
<1>7. \A y \in Aliases : y \in told \cap Removed => models'[y] = NoRow /\ downloads'[y] = "none"
  BY <1>2
<1> QED
  BY <1>2, <1>3, <1>5, <1>6, <1>7, RowsKeep

\* The row writes of a delete, whether they all end or one raises
LEMMA FinishDeleteKeeps ==
  ASSUME InstallsInv PROVE (FinishDelete => InstallsInv') /\ (FinishDeleteFails => InstallsInv')
<1>1. ASSUME FinishDelete PROVE InstallsInv'
  <2>1. /\ Deleting /\ TellRows(Unbacked(pending.wiped) \cup Removed)
        /\ untold' = untold \ pending.wiped /\ pending' = NoPending
        /\ UNCHANGED <<disk, config, reader, worker, pipe, life, faulted>>
    BY <1>1 DEF FinishDelete, procs, bounds
  <2> QED
    BY <2>1, TellKeeps DEF Unbacked
<1>2. ASSUME FinishDeleteFails PROVE InstallsInv'
  <2>1. PICK told \in SUBSET Unbacked(pending.wiped) : TellRows(told)
    BY <1>2 DEF FinishDeleteFails
  <2>2. /\ Deleting /\ untold' = untold \cup pending.wiped /\ pending' = NoPending
        /\ UNCHANGED <<disk, config, reader, worker, pipe, life, faulted>>
    BY <1>2 DEF FinishDeleteFails, procs
  <2> QED
    BY <2>1, <2>2, TellKeeps
<1> QED
  BY <1>1, <1>2

\* Records of downloads that are not running are cleared.
LEMMA ClearKeeps ==
  ASSUME InstallsInv, NEW x \in Aliases, ClearDownload(x) \/ ClearDownloadLegacy(x)
  PROVE  InstallsInv'
<1>0. InstallTypes /\ NoRow \in RowType /\ NoPending.op = "none" /\ NoPending.wiped = {}
  BY InstallFacts
<1>1. /\ Free /\ models[x].source = "ui_install" /\ reader[x].at = "none"
      /\ UNCHANGED <<disk, config, pending, reader, worker, pipe, life, faulted, untold>>
  BY DEF ClearDownload, ClearDownloadLegacy, IsActive, procs, bounds
<1>2. /\ life = "up" /\ pending = NoPending /\ pending.op = "none" /\ ~UnderWay(x)
      /\ pending.wiped = {}
  BY <1>0, <1>1 DEF Free, UnderWay
<1>3. CASE RowsWithout({x})
  <2>1. /\ models' \in [Aliases -> RowType] /\ downloads' \in [Aliases -> DownloadStates]
        /\ models'[x] = NoRow /\ downloads'[x] = "none"
        /\ \A y \in Aliases : y # x => models'[y] = models[y] /\ downloads'[y] = downloads[y]
    BY <1>0, <1>3 DEF RowsWithout, InstallTypes, DownloadStates
  <2> QED
    BY <1>1, <1>2, <2>1, RowsKeep
<1>4. CASE downloads' = [downloads EXCEPT ![x] = "none"] /\ UNCHANGED models
  <2>1. /\ models' \in [Aliases -> RowType] /\ downloads' \in [Aliases -> DownloadStates]
        /\ downloads'[x] = "none"
        /\ \A y \in Aliases : y # x => downloads'[y] = downloads[y]
    BY <1>0, <1>4 DEF InstallTypes, DownloadStates
  <2> QED
    BY <1>1, <1>2, <1>4, <2>1, RowsKeep
<1> QED
  BY <1>3, <1>4 DEF ClearDownload, ClearDownloadLegacy

\* apply_config: the rows of the configuration follow it, the others stay, and
\* every row that ends up installed has its snapshot.
LEMMA ConfigRows ==
  ASSUME InstallsInv, NEW c \in Configs, ApplyConfig(c)
  PROVE  /\ models' \in [Aliases -> RowType] /\ downloads' \in [Aliases -> DownloadStates]
         /\ \A y \in Aliases :
              /\ models'[y].source = "config" <=> c.models[y] # NoRepo
              /\ models'[y].source = "none" => models'[y] = NoRow
              /\ models'[y].source # "none" => models'[y].repo \in Repos
              /\ models'[y].source = "ui_install" =>
                    /\ models[y].source = "ui_install" /\ models'[y].repo = models[y].repo
                    /\ downloads'[y] = downloads[y]
              /\ c.models[y] = NoRepo /\ models[y].source = "ui_install" =>
                    models'[y].source = "ui_install"
              /\ downloads'[y] \in {"none", downloads[y]}
              /\ models'[y].status = "installed" =>
                    models'[y].pin = models'[y].repo /\ disk[models'[y].repo] # "absent"
<1>0. /\ InstallTypes /\ \A y \in Aliases : models[y] \in RowType /\ RowRule(y)
      /\ NoRow \in RowType /\ NoRow.source = "none" /\ NoRow.status = "none"
  BY InstallFacts
<1>1. \A y \in Aliases : c.models[y] \in Repos \union {NoRepo}
  BY InstallsAssumption
<1>2. PICK m : m = Synced(c)
  OBVIOUS
<1>3. ASSUME NEW y \in Aliases
      PROVE  /\ m[y] \in RowType
             /\ m[y].source = "config" <=> c.models[y] # NoRepo
             /\ m[y].source = "none" => m[y] = NoRow
             /\ m[y].source # "none" => m[y].repo \in Repos
             /\ m[y].source = "ui_install" => m[y] = models[y]
             /\ c.models[y] = NoRepo /\ models[y].source = "ui_install" => m[y] = models[y]
  <2>1. CASE c.models[y] = NoRepo
    <3>1. m[y] = IF models[y].source = "config" THEN NoRow ELSE models[y]
      BY <1>2, <2>1 DEF Synced
    <3> QED
      BY <1>0, <2>1, <3>1 DEF RowRule
  <2>2. CASE c.models[y] # NoRepo
    <3>1. PICK fresh : fresh = [source |-> "config", repo |-> c.models[y],
                                status |-> "partial", pin |-> NoRepo]
      OBVIOUS
    <3>2. fresh \in RowType /\ fresh.source = "config" /\ fresh.repo \in Repos
      BY <1>1, <2>2, <3>1 DEF RowType
    <3>3. m[y] = IF models[y].source = "config" /\ models[y].repo = c.models[y]
                 THEN models[y] ELSE fresh
      BY <1>2, <2>2, <3>1 DEF Synced
    <3> QED
      BY <1>0, <1>1, <2>2, <3>2, <3>3
  <2> QED
    BY <2>1, <2>2
<1> DEFINE Good(y) == [m[y] EXCEPT !.status = "installed", !.pin = m[y].repo]
           Unpinned(y) == [m[y] EXCEPT !.status = "partial", !.pin = NoRepo]
           Next(y) == IF m[y] = NoRow \/ m[y].status = "error" THEN m[y]
                      ELSE IF m[y].repo \in c.declared /\ HasExpectedWeights(m[y].repo)
                           THEN Good(y) ELSE Unpinned(y)
<1>4. /\ models' = [y \in Aliases |-> Next(y)]
      /\ downloads' = [y \in Aliases |-> IF m[y] = NoRow THEN "none" ELSE downloads[y]]
  BY <1>2 DEF ApplyConfig, Reconciled
<1>5. ASSUME NEW y \in Aliases
      PROVE  /\ Good(y) \in RowType /\ Good(y).source = m[y].source
             /\ Good(y).repo = m[y].repo /\ Good(y).pin = m[y].repo
             /\ Unpinned(y) \in RowType /\ Unpinned(y).source = m[y].source
             /\ Unpinned(y).repo = m[y].repo /\ Unpinned(y).status = "partial"
  <2>1. m[y] \in RowType
    BY <1>3
  <2> QED
    BY <2>1 DEF RowType
<1> HIDE DEF Good, Unpinned
<1>6. ASSUME NEW y \in Aliases
      PROVE  /\ Next(y) \in RowType /\ Next(y).source = m[y].source /\ Next(y).repo = m[y].repo
             /\ m[y] = NoRow => Next(y) = NoRow
             /\ Next(y).status = "installed" =>
                   Next(y).pin = Next(y).repo /\ disk[Next(y).repo] # "absent"
  <2>1. CASE m[y] = NoRow \/ m[y].status = "error"
    BY <1>0, <1>3, <2>1
  <2>2. CASE /\ ~(m[y] = NoRow \/ m[y].status = "error")
             /\ m[y].repo \in c.declared /\ HasExpectedWeights(m[y].repo)
    <3>1. Next(y) = Good(y)
      BY <2>2
    <3>2. disk[m[y].repo] # "absent"
      BY <2>2 DEF HasExpectedWeights
    <3> QED
      BY <1>5, <2>2, <3>1, <3>2
  <2>3. CASE /\ ~(m[y] = NoRow \/ m[y].status = "error")
             /\ ~(m[y].repo \in c.declared /\ HasExpectedWeights(m[y].repo))
    <3>1. Next(y) = Unpinned(y)
      BY <2>3
    <3> QED
      BY <1>5, <2>3, <3>1
  <2> QED
    BY <2>1, <2>2, <2>3
<1> HIDE DEF Next
<1>7. models' \in [Aliases -> RowType] /\ \A y \in Aliases : models'[y] = Next(y)
  BY <1>4, <1>6
<1>8. /\ downloads' \in [Aliases -> DownloadStates]
      /\ \A y \in Aliases : downloads'[y] = IF m[y] = NoRow THEN "none" ELSE downloads[y]
  BY <1>0, <1>4 DEF InstallTypes, DownloadStates
<1> QED
  BY <1>0, <1>3, <1>6, <1>7, <1>8

\* A reload that leaves the aliases in use alone, or the startup's apply_config
LEMMA ApplyConfigKeeps ==
  ASSUME InstallsInv, NEW c \in Configs, ApplyConfig(c), config' = c,
         \A y \in Aliases : reader[y].at # "none" => c.models[y] = config.models[y],
         pending.op = "none", life' = "up",
         UNCHANGED <<disk, pending, reader, worker, pipe, faulted>>
  PROVE  InstallsInv'
<1>0. /\ InstallTypes /\ UniqueInstall /\ \A y \in Aliases : RowRule(y) /\ DownloadRule(y)
      /\ pending.wiped = {}
  BY InstallFacts DEF PendingRule
<1>1. /\ models' \in [Aliases -> RowType] /\ downloads' \in [Aliases -> DownloadStates]
      /\ \A y \in Aliases :
           /\ models'[y].source = "config" <=> c.models[y] # NoRepo
           /\ models'[y].source = "none" => models'[y] = NoRow
           /\ models'[y].source # "none" => models'[y].repo \in Repos
           /\ models'[y].source = "ui_install" =>
                 /\ models[y].source = "ui_install" /\ models'[y].repo = models[y].repo
                 /\ downloads'[y] = downloads[y]
           /\ c.models[y] = NoRepo /\ models[y].source = "ui_install" =>
                 models'[y].source = "ui_install"
           /\ models'[y].status = "installed" =>
                 models'[y].pin = models'[y].repo /\ disk[models'[y].repo] # "absent"
  BY ConfigRows
<1>2. InstallTypes'
  BY <1>0, <1>1 DEF InstallTypes
<1>3. \A y \in Aliases : RowRule(y)'
  BY <1>1 DEF RowRule
<1>4. PendingRule' /\ LifeRule'
  BY <1>0 DEF PendingRule, LifeRule
<1>5. UniqueInstall'
  BY <1>0, <1>1, InstallsEnd
<1>6. InstalledHasSnapshot'
  BY <1>1 DEF InstalledHasSnapshot
<1>7. ASSUME NEW y \in Aliases, UnderWay(y)
      PROVE  /\ downloads'[y] \in ActiveStatus
             /\ models'[y].source = models[y].source /\ models'[y].repo = models[y].repo
  <2>1. models[y].source = "ui_install" /\ downloads[y] \in ActiveStatus /\ reader[y].at # "none"
    BY <1>0, <1>7 DEF DownloadRule, UnderWay
  <2>2. c.models[y] = NoRepo
    BY <1>0, <2>1 DEF RowRule
  <2> QED
    BY <1>1, <2>1, <2>2
<1> QED
  BY <1>2, <1>3, <1>4, <1>5, <1>6, <1>7, RowStep

\* The process ends: no thread and no worker is left.
LEMMA ProcessEndsKeeps == ASSUME InstallsInv, ProcessEnds PROVE InstallsInv'
<1>0. /\ InstallTypes /\ UniqueInstall /\ \A y \in Aliases : RowRule(y)
      /\ IdleReader \in ReaderType /\ IdleReader.at = "none" /\ ~IdleReader.complete
      /\ NoWorker \in WorkerType /\ NoWorker.stage = "none"
      /\ NoPending \in PendingType /\ NoPending.op = "none" /\ NoPending.wiped = {}
  BY InstallFacts
<1>1. /\ life' = "down" /\ pending' = NoPending /\ reader' = [y \in Aliases |-> IdleReader]
      /\ worker' = [y \in Aliases |-> NoWorker] /\ pipe' = [y \in Aliases |-> <<>>]
      /\ UNCHANGED <<models, downloads, disk, config, faulted, untold>>
  BY DEF ProcessEnds, catalog
<1>2. /\ reader' \in [Aliases -> ReaderType] /\ worker' \in [Aliases -> WorkerType]
      /\ pipe' \in [Aliases -> PipeType]
      /\ \A y \in Aliases : reader'[y] = IdleReader /\ worker'[y] = NoWorker /\ pipe'[y] = <<>>
  BY <1>0, <1>1, Lines
<1>3. InstallTypes'
  BY <1>0, <1>1, <1>2 DEF InstallTypes
<1>4. \A y \in Aliases : RowRule(y)' /\ ReaderRule(y)' /\ DownloadRule(y)'
  BY <1>0, <1>1, <1>2 DEF RowRule, ReaderRule, DownloadRule, UnderWay
<1>5. PendingRule' /\ UniqueInstall' /\ LifeRule' /\ InstalledHasSnapshot'
  BY <1>0, <1>1, <1>2 DEF PendingRule, UniqueInstall, LifeRule, InstalledHasSnapshot
<1> QED
  BY <1>3, <1>4, <1>5 DEF InstallsInv

\* recover_orphan_downloads ends every active row.
LEMMA RecoverKeeps == ASSUME InstallsInv, Recover PROVE InstallsInv'
<1>0. /\ InstallTypes /\ LifeRule /\ UniqueInstall /\ PendingRule
      /\ \A y \in Aliases : models[y] \in RowType /\ RowRule(y)
      /\ NoRow.source = "none"
  BY InstallFacts
<1> DEFINE Unpinned(y) == [models[y] EXCEPT !.status = "partial", !.pin = NoRepo]
<1>1. ASSUME NEW y \in Aliases
      PROVE  /\ Unpinned(y) \in RowType /\ Unpinned(y).source = models[y].source
             /\ Unpinned(y).repo = models[y].repo
  <2>1. models[y] \in RowType
    BY <1>0
  <2> QED
    BY <2>1 DEF RowType
<1>2. /\ models' = [y \in Aliases |->
                      IF models[y] # NoRow /\ downloads[y] \in ActiveStatus
                      THEN Unpinned(y) ELSE models[y]]
      /\ downloads' = [y \in Aliases |-> IF downloads[y] \in ActiveStatus THEN "error"
                                         ELSE downloads[y]]
      /\ life = "down" /\ life' = "recovered"
      /\ UNCHANGED <<disk, config, pending, reader, worker, pipe, faulted, untold>>
  BY DEF Recover, procs, bounds
<1> HIDE DEF Unpinned
<1>3. /\ models' \in [Aliases -> RowType] /\ downloads' \in [Aliases -> DownloadStates]
      /\ \A y \in Aliases : /\ models'[y].source = models[y].source
                            /\ models'[y].repo = models[y].repo
                            /\ models[y] = NoRow => models'[y] = NoRow
                            /\ downloads'[y] \notin ActiveStatus
  BY <1>0, <1>1, <1>2 DEF InstallTypes, DownloadStates, ActiveStatus
<1>4. pending.op = "none" /\ \A y \in Aliases : reader[y].at = "none"
  BY <1>0, <1>2 DEF LifeRule
<1>5. InstallTypes'
  BY <1>0, <1>2, <1>3 DEF InstallTypes
<1>6. \A y \in Aliases : RowRule(y)'
  BY <1>0, <1>2, <1>3 DEF RowRule
<1>7. PendingRule' /\ UniqueInstall' /\ LifeRule' /\ InstalledHasSnapshot'
  BY <1>0, <1>2, <1>3, <1>4 DEF PendingRule, UniqueInstall, LifeRule, InstalledHasSnapshot
<1> QED
  BY <1>2, <1>4, <1>5, <1>6, <1>7, RowStep DEF UnderWay

\* Every step keeps the rows, the threads and the workers in step.
LEMMA InstallsStep ==
  ASSUME ~BusyReload, InstallsInv, [InstallsNext]_installsVars PROVE InstallsInv'
<1>1. ASSUME NEW c \in Configs, Reload(c) \/ Start(c) PROVE InstallsInv'
  <2>1. LifeRule /\ NoPending.op = "none"
    BY InstallFacts
  <2>2. CASE Reload(c)
    <3>1. /\ ApplyConfig(c) /\ config' = c /\ Free /\ life' = "up"
          /\ \A y \in Aliases : reader[y].at # "none" => c.models[y] = config.models[y]
          /\ UNCHANGED <<disk, pending, reader, worker, pipe, faulted>>
      BY <2>2 DEF Reload, InUse, IsActive, Free, procs
    <3>2. pending.op = "none"
      BY <2>1, <3>1 DEF Free
    <3> QED
      BY <3>1, <3>2, ApplyConfigKeeps
  <2>3. CASE Start(c)
    <3>1. /\ ApplyConfig(c) /\ config' = c /\ life = "recovered" /\ life' = "up"
          /\ UNCHANGED <<disk, pending, reader, worker, pipe, faulted>>
      BY <2>3 DEF Start, procs, bounds
    <3>2. pending.op = "none" /\ \A y \in Aliases : reader[y].at = "none"
      BY <2>1, <3>1 DEF LifeRule
    <3> QED
      BY <3>1, <3>2, ApplyConfigKeeps
  <2> QED
    BY <1>1, <2>2, <2>3
<1>2. ASSUME NEW h \in Ids, DownloadLegacy(h) PROVE InstallsInv'
  BY <1>2, RequestKeeps, InstallsAssumption DEF DownloadLegacy, Ids
<1>3. CASE \/ UNCHANGED installsVars
           \/ \E name \in Aliases \cup Ids : Load(name)
           \/ EngineReady \/ EngineStops
  BY <1>3, InstallsStutter
     DEF installsVars, Load, EngineReady, EngineStops, catalog, procs, bounds
<1>4. CASE Spawn \/ SpawnFails
  BY <1>4, SpawnKeeps, SpawnFailsKeeps
<1>5. CASE Shutdown \/ ProcessEnds \/ Recover \/ FinishDelete \/ FinishDeleteFails
  BY <1>5, ShutdownKeeps, ProcessEndsKeeps, RecoverKeeps, FinishDeleteKeeps
<1>6. ASSUME NEW x \in Aliases, Cancel(x) \/ WorkerNext(x) \/ ReaderNext(x) PROVE InstallsInv'
  BY <1>6, CancelKeeps, WorkerNextKeeps, ReadEventKeeps, ReadEndKeeps, ReaderLeavesKeeps
     DEF ReaderNext
<1>7. ASSUME NEW x \in Aliases, ClearDownload(x) \/ ClearDownloadLegacy(x) PROVE InstallsInv'
  BY <1>7, ClearKeeps
<1>8. ASSUME NEW x \in Aliases, NEW r \in Repos, Install(x, r) PROVE InstallsInv'
  BY <1>8, RequestKeeps DEF Install
<1> QED
  BY <1>1, <1>2, <1>3, <1>4, <1>5, <1>6, <1>7, <1>8, RetryKeeps, DeleteKeeps,
     DeleteIdKeeps DEF InstallsNext

\* An empty catalog satisfies the invariant.
LEMMA InstallsInitial == InstallsInit => InstallsInv
<1> SUFFICES ASSUME InstallsInit PROVE InstallsInv
  OBVIOUS
<1>0. /\ NoRow \in RowType /\ NoRow.source = "none" /\ NoRow.status = "none"
      /\ NoWorker \in WorkerType /\ NoWorker.stage = "none"
  BY DEF NoRow, RowType, NoWorker, WorkerType
<1>1. /\ IdleReader \in ReaderType /\ IdleReader.at = "none" /\ ~IdleReader.complete
      /\ NoPending \in PendingType /\ NoPending.op = "none" /\ NoPending.wiped = {}
  BY DEF IdleReader, ReaderType, NoPending, PendingType
<1>2. \A y \in Aliases : config.models[y] \in Repos \union {NoRepo}
  BY InstallsAssumption DEF InstallsInit
<1> DEFINE Fresh(y) == [source |-> "config", repo |-> config.models[y],
                        status |-> "partial", pin |-> NoRepo]
<1>3. models = [y \in Aliases |-> IF config.models[y] = NoRepo THEN NoRow ELSE Fresh(y)]
  BY DEF InstallsInit
<1>4. ASSUME NEW y \in Aliases
      PROVE  /\ Fresh(y) \in RowType /\ Fresh(y).source = "config"
             /\ Fresh(y).repo = config.models[y] /\ Fresh(y).status = "partial"
  <2>1. config.models[y] \in Repos \union {NoRepo}
    BY <1>2
  <2> QED
    BY <2>1 DEF RowType
<1> HIDE DEF Fresh
<1>5. models \in [Aliases -> RowType]
  BY <1>0, <1>3, <1>4
<1>6. \A y \in Aliases :
         models[y] = IF config.models[y] = NoRepo THEN NoRow ELSE Fresh(y)
  BY <1>3
<1>7. InstallTypes
  BY <1>0, <1>1, <1>5, Lines DEF InstallsInit, InstallTypes, DownloadStates
<1>8. \A y \in Aliases : RowRule(y)
  BY <1>0, <1>2, <1>4, <1>6 DEF RowRule
<1>9. \A y \in Aliases : ReaderRule(y) /\ DownloadRule(y)
  BY <1>0, <1>1 DEF InstallsInit, ReaderRule, DownloadRule, UnderWay
<1>10. PendingRule /\ UniqueInstall /\ LifeRule
  BY <1>0, <1>1 DEF InstallsInit, PendingRule, UniqueInstall, LifeRule, ActiveStatus
<1>11. InstalledHasSnapshot
  BY <1>0, <1>4, <1>6 DEF InstalledHasSnapshot
<1> QED
  BY <1>7, <1>8, <1>9, <1>10, <1>11 DEF InstallsInv

\* As long as a reload does not repoint an alias that is in use, two workers
\* never download into the same repository directory: the download that is
\* under way has an active row of its repository, and start_install_tx is only
\* reached when find_active_for finds none.
THEOREM OneDownloadPerRepo ==
  ASSUME ~BusyReload PROVE InstallsSpec => []OneWriterPerRepo
<1>1. InstallsInv => OneWriterPerRepo
  <2> SUFFICES ASSUME InstallsInv, NEW x \in Aliases, NEW y \in Aliases, x # y,
                      {worker[x].stage, worker[y].stage} \subseteq {"spawned", "fetching"}
               PROVE  worker[x].repo # worker[y].repo
    BY DEF OneWriterPerRepo
  <2>1. UniqueInstall /\ \A z \in Aliases : ReaderRule(z) /\ DownloadRule(z)
    BY InstallFacts
  <2>2. ASSUME NEW z \in {x, y} PROVE UnderWay(z)
    <3>1. worker[z].stage \in {"spawned", "fetching"} /\ z \in Aliases
      BY <2>2
    <3>2. reader[z] \in ReaderType
      BY <3>1, InstallFacts
    <3>3. reader[z].at \in {"none", "reading", "settled"}
      BY <3>2 DEF ReaderType
    <3> QED
      BY <2>1, <3>1, <3>3 DEF ReaderRule, UnderWay
  <2>3. \A z \in {x, y} : /\ downloads[z] \in ActiveStatus /\ models[z].source = "ui_install"
                          /\ models[z].repo = worker[z].repo
    BY <2>1, <2>2 DEF DownloadRule
  <2> QED
    BY <2>1, <2>3 DEF UniqueInstall
<1>2. InstallsInv /\ [InstallsNext]_installsVars => InstallsInv'
  BY InstallsStep
<1> QED
  BY <1>1, <1>2, InstallsInitial, PTL DEF InstallsSpec

\* Under the same condition, a row that may be launched names a snapshot of its
\* own repository that has weights on disk, whatever is deleted, retried,
\* cancelled or restarted in between, with one exception: a directory that lost
\* weights to a forced retry, a wipe that raised or a delete whose row write
\* raised, until its rows are told.
THEOREM InstalledRowsLaunch ==
  ASSUME ~BusyReload PROVE InstallsSpec => []InstalledHasSnapshot
<1>1. InstallsInv => InstalledHasSnapshot
  BY DEF InstallsInv
<1>2. InstallsInv /\ [InstallsNext]_installsVars => InstallsInv'
  BY InstallsStep
<1> QED
  BY <1>1, <1>2, InstallsInitial, PTL DEF InstallsSpec
=============================================================================
