---------------------------- MODULE MacUpdates ----------------------------
(***************************************************************************)
(* Engine runtime updates of the macOS service (runtime_updates.py and the *)
(* update operations of runtime.py): a version is staged beside the ones   *)
(* in use, moved into place, and made active by rewriting one pointer file *)
(* behind the coordinator's empty barrier; a rollback rewrites the pointer *)
(* again, and every transition is journalled.  Homebrew's oMLX is stopped, *)
(* upgraded and started under the same barrier.                            *)
(*                                                                         *)
(* One managed engine stands for llama.cpp, MFLUX and DS4, which differ in *)
(* how a directory is built but not in how it is used; version 0 is the    *)
(* runtime the application was shipped with.  Files are replaced           *)
(* atomically, so a crash leaves each of them old or new.                  *)
(***************************************************************************)
EXTENDS Naturals, Sequences

CONSTANTS MaxVersion,     \* bound on published versions
          JournalLimit,   \* _LIFECYCLE_LIMIT
          MaxMishaps      \* bound on crashes, damaged directories and journals

ASSUME UpdAssumption == /\ MaxVersion \in Nat \ {0} /\ JournalLimit \in Nat \ {0}
                        /\ MaxMishaps \in Nat

VARIABLES
    upstream,     \* the official version
    release,      \* _releases[engine], 0 when unknown
    directory,    \* [1..MaxVersion -> what stands at <root>/<engine>/<version>]
    staging,      \* leftovers and work below .staging
    pointer,      \* current.json
    job,          \* the update holding _runtime_update_lock
    journal,      \* lifecycle.json, "unreadable" when it cannot be parsed
    validation,   \* the version a self-test's record_validation has read, 0 for none
    told,         \* nothing moved since the last transition journalled
    serving,      \* the versions engine processes were started from
    omlx,         \* the external service: up or not, its version
    mishaps

updVars == <<upstream, release, directory, staging, pointer, job, journal, validation, told,
             serving, omlx, mishaps>>

Versions == 1..MaxVersion
NoJob == [at |-> "none", kind |-> "none", version |-> 0, before |-> 0]

\* An event names the version active after it.  Requests, preparations, rejections,
\* activations and rollbacks are transitions; a reset names no version.
Transition(v) == [kind |-> "transition", after |-> v]
Validated(v) == [kind |-> "inference_validated", after |-> v]
Reset == [kind |-> "journal_reset", after |-> 0]
Unreadable == <<[kind |-> "unreadable", after |-> 0]>>

\* _load_runtime_directory accepts the directory
Loadable(v) == v \in Versions /\ directory[v] = "complete"

\* resolve_active_runtime: an invalid pointer or directory means no override
Active == IF Loadable(pointer.version) THEN pointer.version ELSE 0

\* _rollback_version
RollbackVersion == IF Loadable(pointer.previous) THEN pointer.previous ELSE 0

UpdInit ==
    /\ upstream = 1 /\ release = 0
    /\ directory = [v \in Versions |-> "absent"]
    /\ staging = 0
    /\ pointer = [version |-> 0, previous |-> 0]
    /\ job = NoJob
    /\ journal = <<>> /\ validation = 0 /\ told = TRUE
    /\ serving = {}
    /\ omlx = [up |-> TRUE, version |-> 1]
    /\ mishaps = 0

-----------------------------------------------------------------------------
(* The journal                                                              *)

\* record_lifecycle appends, keeping the newest events; an unreadable journal is
\* replaced by one that starts with the reset.
Appended(e) ==
    LET kept == IF journal = Unreadable THEN <<Reset, e>>
                ELSE Append(journal, e)
    IN SubSeq(kept, (IF Len(kept) > JournalLimit THEN Len(kept) - JournalLimit ELSE 0) + 1,
              Len(kept))

\* _record_runtime_lifecycle: an evidence failure never fails the operation.
Record(e) == \/ journal' = Appended(e) /\ told' = TRUE
             \/ UNCHANGED journal /\ told' = FALSE

-----------------------------------------------------------------------------
(* Checking                                                                 *)

Publish ==
    /\ upstream < MaxVersion
    /\ upstream' = upstream + 1
    /\ UNCHANGED <<release, directory, staging, pointer, job, journal, told, validation,
                   serving, omlx, mishaps>>

\* _refresh_releases forgets every release it could not fetch again.
Refreshed == {upstream, 0}

\* check: refreshes and reports; it takes no part in installs.
CheckUpdates ==
    /\ release' \in Refreshed
    /\ UNCHANGED <<upstream, directory, staging, pointer, job, journal, told, validation,
                   serving, omlx, mishaps>>

-----------------------------------------------------------------------------
(* install_runtime_update                                                   *)

At(a) == [job EXCEPT !.at = a]

\* install_runtime_update, of any version the caller names; 0 for the current one
RequestInstall ==
    /\ job = NoJob
    /\ \E v \in Versions \union {0} :
         job' = [at |-> "prepare", kind |-> "install", version |-> v, before |-> Active]
    /\ Record(Transition(Active))
    /\ UNCHANGED <<upstream, release, directory, staging, pointer, validation, serving,
                   omlx, mishaps>>

\* The version asked for is the current release.
Current == release # 0 /\ job.version \in {0, release}

\* prepare asks upstream when a failed check forgot the release.
PrepareRefreshes ==
    /\ job.at = "prepare" /\ release = 0
    /\ release' = upstream
    /\ UNCHANGED <<upstream, directory, staging, pointer, job, journal, told, validation,
                   serving, omlx, mishaps>>

\* prepare refuses: the release is unknown, not the one asked for or incompatible, or
\* the directory in place does not load or has another source revision.
PrepareRejects ==
    /\ job.at = "prepare"
    /\ job' = NoJob
    /\ Record(Transition(Active))
    /\ UNCHANGED <<upstream, release, directory, staging, pointer, validation, serving,
                   omlx, mishaps>>

\* prepare finds the version in place.
PrepareReuses ==
    /\ job.at = "prepare" /\ Current
    /\ directory[release] = "complete"
    /\ job' = [At("prepared") EXCEPT !.version = release]
    /\ Record(Transition(job.before))
    /\ UNCHANGED <<upstream, release, directory, staging, pointer, validation, serving,
                   omlx, mishaps>>

PrepareStages ==
    /\ job.at = "prepare" /\ Current
    /\ directory[release] = "absent"
    /\ staging' = staging + 1
    /\ job' = [At("stage") EXCEPT !.version = release]
    /\ UNCHANGED <<upstream, release, directory, pointer, journal, told, validation,
                   serving, omlx, mishaps>>

\* The download, its digest, the build or the smoke test fails.
StageFails ==
    /\ job.at = "stage"
    /\ staging' = staging - 1
    /\ job' = NoJob
    /\ Record(Transition(Active))
    /\ UNCHANGED <<upstream, release, directory, pointer, validation, serving, omlx,
                   mishaps>>

\* The version in use is removed as soon as the new one is in place.
BugStagedReplaces ==
    /\ job.at = "stage"
    /\ directory' = [v \in Versions |-> IF v = job.version THEN "complete" ELSE "absent"]
    /\ staging' = staging - 1
    /\ job' = At("prepared")
    /\ Record(Transition(job.before))
    /\ UNCHANGED <<upstream, release, pointer, validation, serving, omlx, mishaps>>

\* The verified staging directory is moved into place by one rename.
Staged ==
    /\ job.at = "stage"
    /\ directory' = [directory EXCEPT ![job.version] = "complete"]
    /\ staging' = staging - 1
    /\ job' = At("prepared")
    /\ Record(Transition(job.before))
    /\ UNCHANGED <<upstream, release, pointer, validation, serving, omlx, mishaps>>

\* rollback_runtime_update
RequestRollback ==
    /\ job = NoJob
    /\ job' = [at |-> "prepared", kind |-> "rollback", version |-> 0, before |-> Active]
    /\ Record(Transition(Active))
    /\ UNCHANGED <<upstream, release, directory, staging, pointer, validation, serving,
                   omlx, mishaps>>

\* _upgrade_external_omlx
RequestOmlx ==
    /\ job = NoJob /\ release > omlx.version
    /\ job' = [at |-> "prepared", kind |-> "omlx", version |-> release, before |-> Active]
    /\ UNCHANGED <<upstream, release, directory, staging, pointer, journal, told,
                   validation, serving, omlx, mishaps>>

BugBarrierKeepsEngines ==
    /\ job.at = "prepared"
    /\ job' = At("empty")
    /\ UNCHANGED <<upstream, release, directory, staging, pointer, journal, told,
                   validation, serving, omlx, mishaps>>

\* run_empty_maintenance drained and unloaded everything; it holds the barrier
\* until the job leaves "empty", "stop", "upgrade", "start" and "verify".
Barrier ==
    /\ job.at = "prepared"
    /\ serving' = {}
    /\ job' = At("empty")
    /\ UNCHANGED <<upstream, release, directory, staging, pointer, journal, told,
                   validation, omlx, mishaps>>

BehindBarrier == job.at \in {"empty", "stop", "upgrade", "start", "verify"}

\* The rejection reports the version it was requested against.
BugReject ==
    /\ job' = NoJob
    /\ IF job.kind = "omlx" THEN UNCHANGED <<journal, told>>
       ELSE Record(Transition(job.before))

\* The operation failed: what is active now is read again, because the pointer may
\* have moved before the failure.  oMLX's own events are left out of the journal.
Reject ==
    /\ job' = NoJob
    /\ IF job.kind = "omlx" THEN UNCHANGED <<journal, told>>
       ELSE Record(Transition(Active))

\* The drain, the unload or its proof fails.
BarrierFails ==
    /\ job.at \in {"prepared", "empty"}
    /\ serving' = {} \/ (job.at = "prepared" /\ UNCHANGED serving)
    /\ Reject
    /\ UNCHANGED <<upstream, release, directory, staging, pointer, validation, omlx,
                   mishaps>>

\* activate: the directory is checked again, then the pointer is replaced.
Activate ==
    /\ job.at = "empty" /\ job.kind = "install"
    /\ Loadable(job.version)
    /\ pointer' = [version |-> job.version, previous |-> Active]
    /\ job' = At("verify")
    /\ UNCHANGED <<upstream, release, directory, staging, journal, told, validation,
                   serving, omlx, mishaps>>

\* rollback, to the previous version if it still loads
Rollback ==
    /\ job.at = "empty" /\ job.kind = "rollback"
    /\ RollbackVersion # 0
    /\ pointer' = [version |-> RollbackVersion, previous |-> Active]
    /\ job' = [At("verify") EXCEPT !.version = RollbackVersion]
    /\ UNCHANGED <<upstream, release, directory, staging, journal, told, validation,
                   serving, omlx, mishaps>>

\* activate or rollback raises; nothing was written.
OperationRaises ==
    /\ job.at = "empty"
    /\ \/ job.kind = "install" /\ ~Loadable(job.version)
       \/ job.kind = "rollback" /\ RollbackVersion = 0
    /\ Reject
    /\ UNCHANGED <<upstream, release, directory, staging, pointer, validation, serving,
                   omlx, mishaps>>

\* The closing inspection finds every engine empty, and the barrier reopens.
Verified ==
    /\ job.at = "verify"
    /\ job' = At("record")
    /\ UNCHANGED <<upstream, release, directory, staging, pointer, journal, told,
                   validation, serving, omlx, mishaps>>

VerifyFails ==
    /\ job.at = "verify"
    /\ Reject
    /\ UNCHANGED <<upstream, release, directory, staging, pointer, validation, serving,
                   omlx, mishaps>>

RecordOutcome ==
    /\ job.at = "record"
    /\ job' = NoJob
    /\ IF job.kind = "omlx" THEN UNCHANGED <<journal, told>>
       ELSE Record(Transition(job.version))
    /\ UNCHANGED <<upstream, release, directory, staging, pointer, validation, serving,
                   omlx, mishaps>>

-----------------------------------------------------------------------------
(* upgrade_omlx_homebrew                                                    *)

\* The installation is not Homebrew's stable formula, or the release moved on.
OmlxRefused ==
    /\ job.at = "empty" /\ job.kind = "omlx"
    /\ Reject
    /\ UNCHANGED <<upstream, release, directory, staging, pointer, validation, serving,
                   omlx, mishaps>>

\* "omlx stop" was called: it may have failed, and still have stopped the service.
OmlxStop ==
    /\ job.at = "empty" /\ job.kind = "omlx"
    /\ omlx' \in {omlx, [omlx EXCEPT !.up = FALSE]}
    /\ job' \in {At("upgrade"), At("start")}
    /\ UNCHANGED <<upstream, release, directory, staging, pointer, journal, told,
                   validation, serving, mishaps>>

\* brew update and upgrade; a failure is kept and the start attempted all the same.
OmlxUpgrade ==
    /\ job.at = "upgrade"
    /\ omlx' \in {omlx, [omlx EXCEPT !.version = job.version]}
    /\ job' = At("start")
    /\ UNCHANGED <<upstream, release, directory, staging, pointer, journal, told,
                   validation, serving, mishaps>>

\* "omlx start"; the requested version must then be observed with an empty control
\* plane.
OmlxStart ==
    /\ job.at = "start"
    /\ omlx' = [omlx EXCEPT !.up = TRUE]
    /\ \/ omlx.version = job.version /\ job' = At("verify") /\ UNCHANGED <<journal, told>>
       \/ Reject
    /\ UNCHANGED <<upstream, release, directory, staging, pointer, validation, serving,
                   mishaps>>

\* The start itself fails.
OmlxStartFails ==
    /\ job.at = "start" /\ mishaps < MaxMishaps
    /\ mishaps' = mishaps + 1
    /\ Reject
    /\ UNCHANGED <<upstream, release, directory, staging, pointer, validation, serving,
                   omlx>>

-----------------------------------------------------------------------------
(* Engines, crashes and outside interference                                *)

\* An engine process is started from whatever is active, in place of the one there
\* was; the barrier admits none.
StartEngine ==
    /\ ~BehindBarrier
    /\ serving' = {Active}
    /\ UNCHANGED <<upstream, release, directory, staging, pointer, job, journal,
                   validation, told, omlx, mishaps>>

\* record_validation, once a self-test has had its answer: it reads what is active,
\* whatever has been unloaded or is being updated meanwhile.
ReadValidation ==
    /\ validation = 0 /\ Active # 0
    /\ validation' = Active
    /\ UNCHANGED <<upstream, release, directory, staging, pointer, job, journal, told,
                   serving, omlx, mishaps>>

\* It appends what it read, or fails to; the journal's lock covers this much only.
RecordValidation ==
    /\ validation # 0
    /\ validation' = 0
    /\ journal' \in {journal, Appended(Validated(validation))}
    /\ UNCHANGED <<upstream, release, directory, staging, pointer, job, told, serving,
                   omlx, mishaps>>

\* The service dies: the job and what it knew are gone, engines are unloaded at the
\* next start, and nothing on disk is cleaned up.
CrashUpdates ==
    /\ mishaps < MaxMishaps /\ mishaps' = mishaps + 1
    /\ job' = NoJob /\ release' = 0 /\ serving' = {} /\ validation' = 0
    /\ told' = FALSE
    /\ UNCHANGED <<upstream, directory, staging, pointer, journal, omlx>>

\* Somebody damages an installed runtime, or the journal; an engine already started
\* runs on.
Damage ==
    /\ mishaps < MaxMishaps /\ mishaps' = mishaps + 1
    /\ \/ \E v \in Versions : /\ directory[v] = "complete"
                              /\ directory' = [directory EXCEPT ![v] = "damaged"]
                              /\ UNCHANGED journal
       \/ journal' = Unreadable /\ UNCHANGED directory
    /\ told' = FALSE
    /\ UNCHANGED <<upstream, release, staging, pointer, job, validation, serving, omlx>>

UpdNext ==
    \/ Publish \/ CheckUpdates
    \/ RequestInstall \/ PrepareRefreshes \/ PrepareRejects \/ PrepareReuses \/ PrepareStages
    \/ StageFails \/ Staged
    \/ RequestRollback \/ RequestOmlx
    \/ Barrier \/ BarrierFails \/ Activate \/ Rollback \/ OperationRaises
    \/ Verified \/ VerifyFails \/ RecordOutcome
    \/ OmlxRefused \/ OmlxStop \/ OmlxUpgrade \/ OmlxStart \/ OmlxStartFails
    \/ StartEngine \/ ReadValidation \/ RecordValidation \/ CrashUpdates \/ Damage

UpdSpec == UpdInit /\ [][UpdNext]_updVars

-----------------------------------------------------------------------------
(* Properties                                                               *)

\* No update, rollback, failure or crash, at any point, takes a working managed
\* runtime away: only outside damage does.
UpdateKeepsRuntime ==
    [][Active # 0 => Active' # 0 \/ (directory' # directory /\ mishaps' # mishaps)]_updVars

\* An engine process runs the version that is active, or the one still pointed to
\* whose directory was damaged under it: no update, rollback, failure or crash moves
\* the pointer beneath a resident, and none is started from a version left behind.
ServingIsActive == serving \subseteq (IF Active = 0 THEN {0, pointer.version} ELSE {Active})

\* Event k is the journal's last transition: only validations follow it.
LastTransition(k) ==
    /\ journal[k].kind # "inference_validated"
    /\ \A i \in k + 1..Len(journal) : journal[i].kind = "inference_validated"

\* The journal tells the truth: whenever no update is in progress, the last transition
\* in it names the version that is active (or pointed to, when its directory was
\* damaged meanwhile), also after an operation rejected once its pointer had moved.
JournalCurrent ==
    (job = NoJob /\ told) => \A k \in DOMAIN journal :
        LastTransition(k) => journal[k].after \in {Active, pointer.version}
=============================================================================
