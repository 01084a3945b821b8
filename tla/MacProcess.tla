----------------------------- MODULE MacProcess -----------------------------
(***************************************************************************)
(* One manager-owned engine process of the macOS service: the adapter that *)
(* DS4, llama.cpp, mlxcel and mistral.rs share (engines/ds4.py,            *)
(* llamacpp.py, managed_apple.py, the base class's unload_all).  The       *)
(* adapter spawns the engine in a session of its own, so the engine        *)
(* survives the service; what a restarted service may signal is decided by *)
(* a record on disk and by the identity the kernel reports for a pid.      *)
(*                                                                         *)
(* An identity is the pid, the start identity (one number per process ever *)
(* started) and the argv, abstracted to the alias it was built for.  A     *)
(* probe and the signal it licenses are one step: no pid is reused between *)
(* them.  Operations of one adapter do not overlap; the coordinator        *)
(* serialises them.                                                        *)
(***************************************************************************)
EXTENDS Naturals, FiniteSets

CONSTANTS Pids,       \* the pids the kernel hands out, reused after an exit
          Aliases,    \* the load targets of this engine
          MaxStarts,  \* bound on the processes ever started
          MaxBlinks   \* bound on failed probes, signals and writes, crashes
                      \* and configuration drift, taken together

ASSUME ProcAssumption == 0 \notin Pids /\ MaxStarts \in Nat /\ MaxBlinks \in Nat

VARIABLES procs,      \* the kernel's process table
          record,     \* the ownership record on disk (process_state_path)
          own,        \* the adapter's memory
          adapterOp,  \* the adapter operation in progress
          starts,     \* number of processes started so far
          blinks,     \* faults so far
          signalled,  \* start identities this adapter has ever signalled
          givenUp     \* live engines the adapter stopped tracking

procVars == <<procs, record, own, adapterOp, starts, blinks, signalled, givenUp>>

NoIdentity == [pid |-> 0, start |-> 0, alias |-> "none"]
NoProcess == [owner |-> "nobody", start |-> 0, form |-> "none", alias |-> "none",
              up |-> FALSE]
Identity(p) == [pid |-> p, start |-> procs[p].start, alias |-> procs[p].alias]
Running(id) == id.pid \in Pids /\ procs[id.pid].start = id.start

\* DS4Adapter.__init__: what a new service process remembers
FreshMemory == [loaded |-> FALSE, meta |-> NoIdentity, transient |-> NoIdentity,
                child |-> NoIdentity]
NoOperation == [at |-> "idle", kind |-> "none", alias |-> "none"]

ProcInit ==
    /\ procs = [p \in Pids |-> NoProcess]
    /\ record = NoIdentity
    /\ own = FreshMemory
    /\ adapterOp = NoOperation
    /\ starts = 0 /\ blinks = 0
    /\ signalled = {} /\ givenUp = {}

-----------------------------------------------------------------------------
(* The kernel and the engine.                                              *)

PortAccepting == \E p \in Pids : procs[p].up

KernelStep(p, process) ==
    /\ procs' = [procs EXCEPT ![p] = process]
    /\ UNCHANGED <<record, own, adapterOp, blinks, signalled, givenUp>>

\* The engine crashes or obeys a signal; a stranger finishes.
ProcessExits(p) ==
    procs[p] # NoProcess /\ KernelStep(p, NoProcess) /\ UNCHANGED starts

\* An unrelated program gets a free pid, perhaps one an engine had.
StrangerStarts(p) ==
    /\ procs[p] = NoProcess /\ starts < MaxStarts
    /\ KernelStep(p, [NoProcess EXCEPT !.owner = "stranger", !.start = starts + 1,
                                       !.form = "engine"])
    /\ starts' = starts + 1

\* The scope wrapper replaces itself by the engine: same pid, same start.
WrapperExecs(p) ==
    /\ procs[p].form = "wrapper"
    /\ KernelStep(p, [procs[p] EXCEPT !.form = "engine"]) /\ UNCHANGED starts

\* A process opens the port, which only one can hold.
Listens(p) ==
    /\ procs[p].form = "engine" /\ ~PortAccepting
    /\ KernelStep(p, [procs[p] EXCEPT !.up = TRUE]) /\ UNCHANGED starts

-----------------------------------------------------------------------------
(* Ownership.                                                              *)

\* The identity of a pid, or nothing: the pid is free, or the probe failed.
ProbeIdentity(pid, blind) ==
    IF blind \/ pid \notin Pids \/ procs[pid] = NoProcess THEN NoIdentity
    ELSE Identity(pid)

Faulty(fault) == /\ fault => blinks < MaxBlinks
                 /\ blinks' = blinks + (IF fault THEN 1 ELSE 0)

\* _metadata_matches_identity, _TransientSpawnOwnership.matches
BugMatchesPid(id, seen) == seen.pid = id.pid
MatchesIdentity(id, seen) == seen = id

\* _remove_metadata: only the exact record that was observed
RecordWithout(id) == IF record = id THEN NoIdentity ELSE record

\* The adapter lets go of a process that still runs, for a reason the code
\* accepts.
LetGo(id, accepted) ==
    givenUp' = givenUp \union {s \in {id.start} : accepted /\ Running(id)}

\* _load_persisted_ownership once per service process, then, in inspect,
\* _refresh_owned_identity.  Drift: the recorded argv is not the one the
\* configuration gives now, or it cannot be built (the model's volume is
\* gone).
EstablishOwnership(refresh, blind, drift) ==
    LET loading   == ~own.loaded /\ own.child = NoIdentity
        candidate == IF loading THEN record ELSE own.meta
        kept      == \/ ~loading /\ ~refresh
                     \/ /\ ~(loading /\ drift)
                        /\ MatchesIdentity(candidate, ProbeIdentity(candidate.pid, blind))
    IN  /\ Faulty(blind \/ (loading /\ drift))
        /\ IF candidate = NoIdentity
           THEN own' = [own EXCEPT !.loaded = TRUE] /\ UNCHANGED <<record, givenUp>>
           ELSE IF kept
           THEN own' = [own EXCEPT !.loaded = TRUE, !.meta = candidate]
                /\ UNCHANGED <<record, givenUp>>
           ELSE /\ own' = [own EXCEPT !.loaded = TRUE, !.meta = NoIdentity,
                                      !.child = NoIdentity]
                /\ record' = RecordWithout(candidate)
                /\ LetGo(candidate, blind \/ drift)

Goes(at) == adapterOp' = [adapterOp EXCEPT !.at = at]
Ends == adapterOp' = NoOperation

\* inspect, load, unload_all and aclose begin
BeginOperation(kind, alias) ==
    /\ adapterOp.at = "idle"
    /\ adapterOp' = [at |-> "own", kind |-> kind, alias |-> alias]
    /\ UNCHANGED <<procs, record, own, starts, blinks, signalled, givenUp>>

Own(blind, drift) ==
    /\ adapterOp.at = "own"
    /\ EstablishOwnership(adapterOp.kind # "close", blind, drift)
    /\ Goes(IF adapterOp.kind = "close" THEN "stop" ELSE "ask")
    /\ UNCHANGED <<procs, starts, signalled>>

\* inspect's answer: the /v1/models payload together with ownership.  A
\* resident is managed iff it is owned, and ready iff the API names a model.
Owned == own.meta # NoIdentity
Authoritative(named) == Owned \/ named \/ ~PortAccepting
Resident(named) == Owned \/ named

\* unload_all stops a managed resident; an empty engine is already unloaded
AskToUnload(named) ==
    IF Authoritative(named) /\ Owned THEN Goes("stop") ELSE Ends

\* load goes on only from an authoritatively empty engine and a free port;
\* the binary and the directory are checked first
AskToLoad(named) ==
    IF Authoritative(named) /\ ~Resident(named) THEN Goes("spawn") \/ Ends ELSE Ends

\* the readiness poll of a load in progress
AskWhetherReady(named) == IF Owned /\ named THEN Ends ELSE Goes("poll")

Ask(named) ==
    /\ adapterOp.at = "ask"
    /\ named => PortAccepting
    /\ CASE adapterOp.kind \in {"look", "confirm"} -> Ends
         [] adapterOp.kind = "unload" -> AskToUnload(named)
         [] adapterOp.kind = "load" -> AskToLoad(named)
         [] adapterOp.kind = "poll" -> AskWhetherReady(named)
    /\ UNCHANGED <<procs, record, own, starts, blinks, signalled, givenUp>>

-----------------------------------------------------------------------------
(* load                                                                    *)

\* The argv cannot be built: an extra argument overrides a managed option, or
\* the model file is missing or is not GGUF.
ArgvRefused ==
    /\ adapterOp.at = "spawn"
    /\ Ends
    /\ UNCHANGED <<procs, record, own, starts, blinks, signalled, givenUp>>

\* create_subprocess_exec, perhaps of the scope wrapper, or an OSError
Spawn(p, form) ==
    /\ adapterOp.at = "spawn"
    /\ procs[p] = NoProcess /\ starts < MaxStarts
    /\ procs' = [procs EXCEPT ![p] =
                    [owner |-> "engine", start |-> starts + 1, form |-> form,
                     alias |-> adapterOp.alias, up |-> FALSE]]
    /\ starts' = starts + 1
    /\ own' = [own EXCEPT !.loaded = TRUE, !.transient = NoIdentity,
                 !.child = [pid |-> p, start |-> starts + 1, alias |-> adapterOp.alias]]
    /\ adapterOp' = [adapterOp EXCEPT !.at = "observe", !.kind = "poll"]
    /\ UNCHANGED <<record, blinks, signalled, givenUp>>

SpawnFails ==
    /\ adapterOp.at = "spawn"
    /\ Ends
    /\ UNCHANGED <<procs, record, own, starts, blinks, signalled, givenUp>>

\* _observe_spawn_identity sees the wrapper: remembered, and looked at again
ObserveWrapper ==
    /\ adapterOp.at = "observe"
    /\ Running(own.child) /\ procs[own.child.pid].form = "wrapper"
    /\ own' = [own EXCEPT !.transient = own.child]
    /\ UNCHANGED <<procs, record, adapterOp, starts, blinks, signalled, givenUp>>

\* It sees the engine: validated in memory first, then on disk
BugRecordOwnership(written) ==
    /\ own' = [own EXCEPT !.meta = own.child, !.transient = NoIdentity]
    /\ UNCHANGED record
RecordOwnership(written) ==
    /\ own' = [own EXCEPT !.meta = own.child, !.transient = NoIdentity]
    /\ record' = IF written THEN own.child ELSE record

ObserveEngine(written) ==
    /\ adapterOp.at = "observe"
    /\ Running(own.child) /\ procs[own.child.pid].form = "engine"
    /\ Faulty(~written)
    /\ RecordOwnership(written)
    /\ Goes(IF written THEN "poll" ELSE "stop")
    /\ UNCHANGED <<procs, starts, signalled, givenUp>>

\* The child exited, its identity could not be established in time, or the
\* readiness deadline passed: load cleans up and raises.
LoadFails ==
    /\ adapterOp.at \in {"observe", "poll"}
    /\ Goes("stop")
    /\ UNCHANGED <<procs, record, own, starts, blinks, signalled, givenUp>>

Poll ==
    /\ adapterOp.at = "poll"
    /\ Goes("own")
    /\ UNCHANGED <<procs, record, own, starts, blinks, signalled, givenUp>>

-----------------------------------------------------------------------------
(* _stop_managed_process                                                   *)

StopSubject == IF Owned THEN own.meta ELSE own.transient

\* aclose ends the service process whatever the stop came to
AfterStop(at) ==
    IF adapterOp.kind = "close"
    THEN Ends /\ own' = FreshMemory
    ELSE /\ adapterOp' = IF at = "own" THEN [adapterOp EXCEPT !.at = at, !.kind = "confirm"]
                         ELSE NoOperation
         /\ own' = [own EXCEPT !.meta = NoIdentity, !.transient = NoIdentity,
                               !.child = NoIdentity]

\* The subject is taken for gone: forgotten in memory and on disk.  unload
\* then fails if the port is still held, and unload_all inspects again.
Forget ==
    /\ record' = RecordWithout(own.meta)
    /\ AfterStop(IF adapterOp.kind = "unload" /\ ~PortAccepting THEN "own" ELSE "idle")

\* No record and no observed identity: nothing to stop, a child that has
\* exited, or a child that cannot be proved ours and is left alone.
StopUnproved ==
    /\ adapterOp.at = "stop" /\ StopSubject = NoIdentity
    /\ IF Running(own.child)
       THEN /\ LetGo(own.child, TRUE)
            /\ Ends
            /\ own' = IF adapterOp.kind = "close" THEN FreshMemory ELSE own
       ELSE AfterStop("idle") /\ UNCHANGED givenUp
    /\ UNCHANGED <<procs, record, starts, blinks, signalled>>

\* Probe, then signal the group only if the pid still holds the subject
SignalSubject(next, blind) ==
    LET seen == ProbeIdentity(StopSubject.pid, blind)
    IN  /\ Faulty(blind)
        /\ IF seen = NoIdentity
           THEN Forget /\ LetGo(StopSubject, blind) /\ UNCHANGED signalled
           ELSE IF MatchesIdentity(StopSubject, seen)
           THEN /\ signalled' = signalled \union {procs[StopSubject.pid].start}
                /\ Goes(next)
                /\ UNCHANGED <<record, own, givenUp>>
           ELSE record' = RecordWithout(own.meta) /\ AfterStop("idle")
                /\ UNCHANGED <<signalled, givenUp>>
        /\ UNCHANGED <<procs, starts>>

SignalOwned(next, blind) == Owned /\ SignalSubject(next, blind)

\* A child not yet recorded, whose identity was observed: the wrapper
SignalTransient(next, blind) ==
    ~Owned /\ own.transient # NoIdentity /\ SignalSubject(next, blind)

Terminate(blind) ==
    /\ adapterOp.at = "stop"
    /\ SignalOwned("grace", blind) \/ SignalTransient("grace", blind)

Kill(blind) ==
    /\ adapterOp.at = "kill"
    /\ SignalOwned("killed", blind) \/ SignalTransient("killed", blind)

\* A process of this service is awaited, a recovered one is probed until its
\* identity is gone.
OwnedExit(blind) ==
    /\ Owned
    /\ IF own.child # NoIdentity THEN ~blind /\ ~Running(own.child)
       ELSE ~MatchesIdentity(own.meta, ProbeIdentity(own.meta.pid, blind))
    /\ Faulty(blind)
    /\ LetGo(own.meta, blind)

TransientExit ==
    /\ ~Owned /\ ~Running(own.child)
    /\ UNCHANGED <<blinks, givenUp>>

ExitSeen(blind) ==
    /\ adapterOp.at \in {"grace", "killed"}
    /\ OwnedExit(blind) \/ (~blind /\ TransientExit)
    /\ Forget
    /\ UNCHANGED <<procs, starts, signalled>>

GraceExpires ==
    /\ adapterOp.at = "grace"
    /\ Goes("kill")
    /\ UNCHANGED <<procs, record, own, starts, blinks, signalled, givenUp>>

\* The group cannot be signalled, or stays alive after SIGKILL: an error,
\* and the ownership is kept for another try.  An engine whose start-up is
\* cleaned up this way before its record was written is left behind.
StopFails ==
    /\ adapterOp.at \in {"stop", "kill", "killed"} /\ StopSubject # NoIdentity
    /\ Faulty(TRUE)
    /\ Ends
    /\ own' = IF adapterOp.kind = "close" THEN FreshMemory ELSE own
    /\ LetGo(StopSubject, record # StopSubject)
    /\ UNCHANGED <<procs, record, starts, signalled>>

-----------------------------------------------------------------------------
\* The service dies and a new one starts.  The engine lives on; only in the
\* window between spawn and the written record is it lost.
BeforeRecord == adapterOp.kind = "poll" /\ adapterOp.at \in {"observe", "stop", "grace", "kill", "killed"}

ServiceCrashes ==
    /\ own # FreshMemory
    /\ Faulty(TRUE)
    /\ own' = FreshMemory
    /\ Ends
    /\ LetGo(own.child, BeforeRecord)
    /\ UNCHANGED <<procs, record, starts, signalled>>

ProcNext ==
    \/ \E p \in Pids : \/ ProcessExits(p) \/ StrangerStarts(p)
                       \/ WrapperExecs(p) \/ Listens(p)
                       \/ \E form \in {"wrapper", "engine"} : Spawn(p, form)
    \/ \E alias \in Aliases : BeginOperation("load", alias)
    \/ \E kind \in {"look", "unload", "close"} : BeginOperation(kind, "none")
    \/ \E blind, drift \in BOOLEAN : Own(blind, drift)
    \/ \E named \in BOOLEAN : Ask(named)
    \/ ArgvRefused \/ SpawnFails \/ ObserveWrapper \/ LoadFails \/ Poll \/ StopUnproved
    \/ \E written \in BOOLEAN : ObserveEngine(written)
    \/ \E blind \in BOOLEAN : Terminate(blind) \/ Kill(blind) \/ ExitSeen(blind)
    \/ GraceExpires \/ StopFails \/ ServiceCrashes

ProcSpec == ProcInit /\ [][ProcNext]_procVars

-----------------------------------------------------------------------------
(* Properties.                                                             *)

\* No signal ever reaches a process the adapter did not spawn: not after a
\* restart with an old record, not when a pid was reused, not when an engine
\* died between two signals (engines/ds4.py:1065, :1119).
StrangersUntouched ==
    \A p \in Pids : procs[p].owner = "stranger" => procs[p].start \notin signalled

\* Every engine that runs is known to the adapter's memory or to the record
\* a restarted service reads, and there is only one: except those let go of
\* knowingly (a probe that failed, a record the configuration disowns, a
\* child never identified, a crash or a failed clean-up before the record is
\* written).  No crash, pid reuse, failed write or refused signal loses an
\* engine otherwise (engines/ds4.py:989, :691).
EngineTracked ==
    LET live == {p \in Pids : procs[p].owner = "engine" /\ procs[p].start \notin givenUp}
    IN  /\ Cardinality(live) <= 1
        /\ \A p \in live : Identity(p) \in {record, own.meta, own.child}
=============================================================================
