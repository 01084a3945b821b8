----------------------------- MODULE MacLibrary -----------------------------
(***************************************************************************)
(* The model library of the macOS service: download jobs and their ledger  *)
(* (installer.py, install_store.py), and the configuration they, the       *)
(* settings window, the folder import and the deletion of a model rewrite  *)
(* under one lock (runtime.py).                                            *)
(*                                                                         *)
(* A profile is a pair <<alias, file>>.  Everything of the configuration   *)
(* that needs a restart to take effect is one switch, `engines`.           *)
(***************************************************************************)
EXTENDS Naturals, Sequences, FiniteSets, SequencesExt

CONSTANTS LibAliases,    \* names a user may choose
          LibFiles,      \* the files an install may select, of one repository
          LocalFiles,    \* files on disk before the service ever ran
          MaxInstalls,   \* ledger rows ever created
          MaxRestarts,   \* crashes and stops of the service
          MaxMoves       \* other requests of the user

ASSUME LibAssumption == MaxInstalls \in Nat /\ MaxRestarts \in Nat /\ MaxMoves \in Nat

VARIABLES installs,      \* the ledger, oldest row first
          tasks,         \* where the task of each row is
          strays,        \* files a worker without a task may still write
          files,         \* complete files on disk
          saved,         \* the configuration file
          live,          \* the configuration the service runs with
          built,         \* the switch the engine adapters were built from
          draft,         \* what the settings window last read
          scan,          \* what a folder scan found, before the import
          deletion,      \* the deletion in progress; it holds _reload_lock
          retrying,      \* retries between their read and their write
          abandoned,     \* rows whose task died before it settled them
          libUp, libRestarts, moves

libVars == <<installs, tasks, strays, files, saved, live, built, draft, scan,
             deletion, retrying, abandoned, libUp, libRestarts, moves>>
ledgerVars == <<installs, tasks, strays, retrying, abandoned>>
configVars == <<saved, live, built>>
userVars   == <<draft, scan, deletion>>
lifeVars   == <<libUp, libRestarts, moves>>

InstallActive == {"queued", "downloading", "registering"}
NoDraft    == [models |-> {}, engines |-> "none"]
NoDeletion == [at |-> "none"]
\* install_destination: one directory per engine and repository
Destination == LibFiles

LibInit ==
    /\ installs = <<>> /\ tasks = [i \in 1..MaxInstalls |-> "none"]
    /\ strays = {} /\ files = LocalFiles
    /\ saved = [models |-> {}, engines |-> "off"] /\ live = saved
    /\ built = "off" /\ draft = NoDraft /\ scan = {}
    /\ deletion = NoDeletion /\ retrying = <<>> /\ abandoned = {}
    /\ libUp = TRUE /\ libRestarts = 0 /\ moves = 0

Move == moves < MaxMoves /\ moves' = moves + 1 /\ UNCHANGED <<libUp, libRestarts>>

Unlocked == libUp /\ deletion.at = "none"
LibStatus(i) == installs[i].status
SetStatus(i, s) == installs' = [installs EXCEPT ![i].status = s]
TaskGoes(i, pc) == tasks' = [tasks EXCEPT ![i] = pc]
Used(models) == {p[1] : p \in models}
\* _restart_sensitive_configuration_changed
RestartSensitive(c) == c.engines # live.engines

-----------------------------------------------------------------------------
(* The download job of one ledger row (NativeInstaller).                   *)

\* InstallStore.create
NewRow(x, f) == [alias |-> x, file |-> f, status |-> "queued", hidden |-> FALSE]

\* POST /manager/model-library/installs, then create
StartInstall(x, f) ==
    /\ libUp /\ Len(installs) < MaxInstalls
    /\ x \notin Used(live.models)
    /\ installs' = Append(installs, NewRow(x, f))
    /\ TaskGoes(Len(installs) + 1, "new")
    /\ UNCHANGED <<strays, files, retrying, abandoned, configVars, userVars, lifeVars>>

TaskStarts(i) ==
    /\ tasks[i] = "new" /\ TaskGoes(i, "lane")
    /\ UNCHANGED <<installs, strays, files, retrying, abandoned, configVars, userVars, lifeVars>>

\* The semaphore is left before the clean-up of a cancelled task begins
HoldsLane(i) == tasks[i] \in {"spawn", "fetch", "register", "written"}

\* A row that says "registering" has its files and skips the download
TakeLane(i) ==
    /\ tasks[i] = "lane" /\ \A j \in DOMAIN installs : ~HoldsLane(j)
    /\ TaskGoes(i, IF LibStatus(i) = "registering" THEN "register" ELSE "spawn")
    /\ UNCHANGED <<installs, strays, files, retrying, abandoned, configVars, userVars, lifeVars>>

SpawnWorker(i) ==
    /\ tasks[i] = "spawn"
    /\ TaskGoes(i, "fetch") /\ SetStatus(i, "downloading")
    /\ UNCHANGED <<strays, files, retrying, abandoned, configVars, userVars, lifeVars>>

\* download_worker ran to its end
Downloaded(i) ==
    /\ tasks[i] = "fetch"
    /\ TaskGoes(i, "register") /\ SetStatus(i, "registering")
    /\ files' = files \union {installs[i].file}
    /\ UNCHANGED <<strays, retrying, abandoned, configVars, userVars, lifeVars>>

\* The volume, the helper or the worker fails; a worker is left running when
\* it was the size of the download that could not be read.
JobFails(i) ==
    /\ tasks[i] \in {"spawn", "fetch"}
    /\ TaskGoes(i, "none") /\ SetStatus(i, "failed")
    /\ strays' \in {strays} \union
                   (IF tasks[i] = "fetch" THEN {strays \union {installs[i].file}} ELSE {})
    /\ UNCHANGED <<files, retrying, abandoned, configVars, userVars, lifeVars>>

StrayEnds(f) ==
    /\ f \in strays /\ strays' = strays \ {f}
    /\ files' \in {files, files \union {f}}
    /\ UNCHANGED <<installs, tasks, retrying, abandoned, configVars, userVars, lifeVars>>

\* The configuration after a profile is added; applied unless a restart is due
BugWithProfile(p) ==
    LET new == [live EXCEPT !.models = @ \union {p}]
    IN  /\ saved' = new
        /\ live' = IF RestartSensitive(saved) THEN live ELSE new
WithProfile(p) ==
    LET new == [saved EXCEPT !.models = @ \union {p}]
    IN  /\ saved' = new
        /\ live' = IF RestartSensitive(saved) THEN live ELSE new

\* _register_installed_model under _reload_lock
Register(i) ==
    LET p == <<installs[i].alias, installs[i].file>>
    IN  /\ tasks[i] = "register" /\ Unlocked
        /\ \/ /\ p \in saved.models
              /\ TaskGoes(i, "written") /\ UNCHANGED <<installs, saved, live>>
           \/ /\ p[1] \notin Used(saved.models)
              /\ WithProfile(p)
              /\ TaskGoes(i, "written") /\ UNCHANGED installs
           \/ /\ p[1] \in Used(saved.models) /\ p \notin saved.models
              /\ TaskGoes(i, "none") /\ SetStatus(i, "downloaded")
              /\ UNCHANGED <<saved, live>>
        /\ UNCHANGED <<strays, files, built, retrying, abandoned, userVars, lifeVars>>

\* The profile is refused before the lock, or the oMLX rescan after it fails
RegisterFails(i) ==
    /\ tasks[i] \in {"register", "written"}
    /\ TaskGoes(i, "none") /\ SetStatus(i, "downloaded")
    /\ UNCHANGED <<strays, files, retrying, abandoned, configVars, userVars, lifeVars>>

RegisterDone(i) ==
    /\ tasks[i] = "written"
    /\ TaskGoes(i, "none") /\ SetStatus(i, "installed")
    /\ UNCHANGED <<strays, files, retrying, abandoned, configVars, userVars, lifeVars>>

\* cancel.  A task cancelled before its first step never reaches its own
\* clean-up, and a second cancellation cuts the clean-up short; so does a row
\* whose storage can no longer be read (CleanUpFails).
Cancel(i) ==
    /\ Move
    /\ libUp /\ LibStatus(i) \in InstallActive /\ tasks[i] # "none"
    /\ IF tasks[i] \in {"new", "closing"}
       THEN TaskGoes(i, "none") /\ abandoned' = abandoned \union {i} /\ UNCHANGED installs
       ELSE /\ TaskGoes(i, "closing") /\ UNCHANGED abandoned
            /\ \/ UNCHANGED installs
               \/ tasks[i] = "written" /\ SetStatus(i, "installed")
    /\ UNCHANGED <<strays, files, retrying, configVars, userVars>>

Settled(s) == CASE s \in {"queued", "downloading"} -> "cancelled"
                [] s = "registering" -> "downloaded"
                [] OTHER -> s

BugCleanUp(i) ==
    /\ tasks[i] = "closing"
    /\ TaskGoes(i, "none")
    /\ SetStatus(i, IF LibStatus(i) = "downloading" THEN "cancelled" ELSE LibStatus(i))
    /\ UNCHANGED <<strays, files, retrying, abandoned, configVars, userVars, lifeVars>>
CleanUp(i) ==
    /\ tasks[i] = "closing"
    /\ TaskGoes(i, "none") /\ SetStatus(i, Settled(LibStatus(i)))
    /\ UNCHANGED <<strays, files, retrying, abandoned, configVars, userVars, lifeVars>>

CleanUpFails(i) ==
    /\ tasks[i] \in {"closing", "spawn"}
    /\ TaskGoes(i, "none") /\ abandoned' = abandoned \union {i}
    /\ UNCHANGED <<installs, strays, files, retrying, configVars, userVars, lifeVars>>

\* retry: reads the row, waits for its task to return, then writes and schedules
RetryReads(i) ==
    /\ Move
    /\ libUp /\ LibStatus(i) \in {"failed", "cancelled", "partial", "downloaded"}
    /\ retrying' = Append(retrying,
                       [id |-> i, next |-> IF LibStatus(i) = "downloaded" THEN "registering"
                                           ELSE "queued"])
    /\ UNCHANGED <<installs, tasks, strays, files, abandoned, configVars, userVars>>

\* Of two retries of a row the second writes its status and, while the task of
\* the first runs, is refused
RetryWrites(k) ==
    LET i == retrying[k].id
    IN  /\ libUp
        /\ SetStatus(i, retrying[k].next) /\ retrying' = RemoveAt(retrying, k)
        /\ IF tasks[i] = "none"
           THEN TaskGoes(i, "new") /\ abandoned' = abandoned \ {i}
           ELSE UNCHANGED <<tasks, abandoned>>
        /\ UNCHANGED <<strays, files, configVars, userVars, lifeVars>>

Dismiss(i) ==
    /\ Move
    /\ libUp /\ LibStatus(i) \notin InstallActive /\ ~installs[i].hidden
    /\ installs' = [installs EXCEPT ![i].hidden = TRUE]
    /\ UNCHANGED <<tasks, strays, files, retrying, abandoned, configVars, userVars>>

-----------------------------------------------------------------------------
(* The settings window.                                                    *)

\* configuration_snapshot
TakeDraft ==
    /\ Move
    /\ Unlocked /\ draft' = saved
    /\ UNCHANGED <<ledgerVars, files, configVars, scan, deletion>>

\* save_configuration: the window's edit, which may drop profiles
SaveConfiguration(new) ==
    /\ Unlocked /\ draft = saved
    /\ saved' = new
    /\ live' = IF RestartSensitive(new) THEN live ELSE new
    /\ draft' = NoDraft
    /\ UNCHANGED <<ledgerVars, files, built, scan, deletion, lifeVars>>

Edits == [models : SUBSET draft.models, engines : {"on", "off"}]

ReloadProfiles ==
    /\ Move
    /\ Unlocked /\ ~RestartSensitive(saved)
    /\ live' = saved
    /\ UNCHANGED <<ledgerVars, files, saved, built, userVars>>

-----------------------------------------------------------------------------
(* Importing files that are already on disk.                               *)

\* discover_local_models, before the lock
Scan ==
    /\ Move
    /\ libUp /\ scan' = files
    /\ UNCHANGED <<ledgerVars, files, configVars, draft, deletion>>

\* adopt_local_models: a file already configured has its profile replaced,
\* under a new name if one is asked for that no other profile has
Prior(f) == {p \in saved.models : p[2] = f}
AdoptAllowed(x, f) == /\ Cardinality(Prior(f)) <= 1
                      /\ x \notin Used(saved.models \ Prior(f))
AdoptedModels(x, f) == (saved.models \ Prior(f)) \union {<<x, f>>}

\* An engine the import needs is switched on, which takes a restart
Adopt(x, f, engines) ==
    LET new == [models |-> AdoptedModels(x, f), engines |-> engines]
    IN  /\ Unlocked /\ f \in scan /\ AdoptAllowed(x, f)
        /\ engines \in {saved.engines, "on"}
        /\ saved' = new
        /\ live' = IF \/ RestartSensitive(saved) \/ engines # saved.engines
                      \/ engines # built
                   THEN live ELSE new
        /\ scan' = {}
        /\ UNCHANGED <<ledgerVars, files, built, draft, deletion, lifeVars>>

-----------------------------------------------------------------------------
(* delete_managed_model, one step per await; the lock is held throughout.  *)

\* latest_for_alias
Rows(x) == {i \in DOMAIN installs : installs[i].alias = x}
Latest(x) == CHOOSE i \in Rows(x) : \A j \in Rows(x) : j <= i
Managed(x) == Rows(x) # {} /\ LibStatus(Latest(x)) = "installed"

\* A managed download deletes its whole directory.  Any other model is found
\* again by a scan, and refused when another profile uses the same files.
CleanupPaths(p) ==
    IF Managed(p[1]) THEN Destination ELSE {p[2]}
CleanupAllowed(p) ==
    IF Managed(p[1]) THEN installs[Latest(p[1])].file = p[2]
    ELSE p[2] \in files /\ \A q \in saved.models : q[2] = p[2] => q = p

DeleteBegins(p) ==
    /\ Unlocked /\ draft = saved /\ p \in saved.models
    /\ CleanupAllowed(p)
    /\ deletion' = [at |-> "files", profile |-> p, paths |-> CleanupPaths(p),
                    row |-> IF Managed(p[1]) THEN Latest(p[1]) ELSE 0]
    /\ UNCHANGED <<ledgerVars, files, configVars, draft, scan, lifeVars>>

\* remove, behind the coordinator's barrier
DeleteFiles ==
    /\ deletion.at = "files"
    /\ files' = files \ deletion.paths
    /\ deletion' = [deletion EXCEPT !.at = "save"]
    /\ UNCHANGED <<ledgerVars, configVars, draft, scan, lifeVars>>

\* The barrier is not reached, or the helper refuses, fails or is killed
DeleteFails ==
    /\ deletion.at = "files"
    /\ files' \in {files, files \ deletion.paths}
    /\ deletion' = NoDeletion
    /\ UNCHANGED <<ledgerVars, configVars, draft, scan, lifeVars>>

\* The configuration read at the start, less the profile, is saved and
\* applied, whether or not a restart is due.
DeleteSaves ==
    /\ deletion.at = "save"
    /\ saved' = [saved EXCEPT !.models = @ \ {deletion.profile}]
    /\ live' = saved' /\ draft' = NoDraft
    /\ deletion' = IF deletion.row = 0 THEN NoDeletion ELSE [deletion EXCEPT !.at = "ledger"]
    /\ UNCHANGED <<ledgerVars, files, built, scan, lifeVars>>

DeleteRecords ==
    /\ deletion.at = "ledger"
    /\ installs' = [installs EXCEPT ![deletion.row].status = "deleted",
                                    ![deletion.row].hidden = TRUE]
    /\ deletion' = NoDeletion
    /\ UNCHANGED <<tasks, strays, files, retrying, abandoned, configVars, draft, scan, lifeVars>>

-----------------------------------------------------------------------------
(* The service stops, or dies, and starts again.                           *)

\* stop cancels every task; what each has written by then is open.  Workers
\* run in sessions of their own and outlive a crash.
ServiceEnds ==
    /\ libUp /\ libRestarts < MaxRestarts
    /\ libUp' = FALSE /\ libRestarts' = libRestarts + 1
    /\ \E settled \in SUBSET {i \in DOMAIN installs : tasks[i] # "none"} :
          installs' = [i \in DOMAIN installs |->
                         IF i \in settled
                         THEN [installs[i] EXCEPT !.status = Settled(@)] ELSE installs[i]]
    /\ tasks' = [i \in DOMAIN tasks |-> "none"]
    /\ strays' = strays \union {installs[i].file : i \in {j \in DOMAIN installs : tasks[j] = "fetch"}}
    /\ files' \in {files, files \ (IF deletion.at = "files" THEN deletion.paths ELSE {})}
    /\ deletion' = NoDeletion /\ retrying' = <<>> /\ scan' = {}
    /\ UNCHANGED <<abandoned, configVars, draft, moves>>

\* recover_interrupted, and the configuration is loaded
Recovered(s) == CASE s \in {"queued", "downloading"} -> "partial"
                  [] s = "registering" -> "downloaded"
                  [] OTHER -> s
LibStarts ==
    /\ ~libUp /\ libUp' = TRUE
    /\ installs' = [i \in DOMAIN installs |-> [installs[i] EXCEPT !.status = Recovered(@)]]
    /\ abandoned' = {}
    /\ live' = saved /\ built' = saved.engines
    /\ UNCHANGED <<tasks, strays, files, retrying, saved, userVars, libRestarts, moves>>

LibNext ==
    \/ \E x \in LibAliases, f \in LibFiles : StartInstall(x, f)
    \/ \E i \in DOMAIN installs :
          \/ TaskStarts(i) \/ TakeLane(i) \/ SpawnWorker(i) \/ Downloaded(i) \/ JobFails(i)
          \/ Register(i) \/ RegisterFails(i) \/ RegisterDone(i)
          \/ Cancel(i) \/ CleanUp(i) \/ CleanUpFails(i)
          \/ RetryReads(i) \/ Dismiss(i)
    \/ \E k \in DOMAIN retrying : RetryWrites(k)
    \/ \E f \in LibFiles : StrayEnds(f)
    \/ TakeDraft \/ ReloadProfiles \/ Scan
    \/ \E new \in Edits : SaveConfiguration(new)
    \/ \E x \in LibAliases, f \in scan, e \in {"on", "off"} : Adopt(x, f, e)
    \/ \E p \in saved.models : DeleteBegins(p)
    \/ DeleteFiles \/ DeleteFails \/ DeleteSaves \/ DeleteRecords
    \/ ServiceEnds \/ LibStarts

LibSpec == LibInit /\ [][LibNext]_libVars

-----------------------------------------------------------------------------
\* While the service runs, a ledger row that says it is queued, downloading
\* or registering has a task that will settle it, or a retry about to
\* schedule one; otherwise neither retry nor dismiss would ever accept it
\* (installer.py:92).  The exceptions are the rows whose clean-up was itself
\* cut short.
RowOwned ==
    libUp => \A i \in DOMAIN installs :
                LibStatus(i) \in InstallActive => tasks[i] # "none" \/ i \in abandoned

\* Every writer of the configuration keeps what the others wrote: a profile
\* leaves the file only by its own deletion, by an import that renames it, or
\* by a settings window that had read exactly this file (runtime.py:822).
ProfilesKept ==
    [][\A p \in saved.models \ saved'.models :
          \/ deletion.at = "save" /\ p = deletion.profile
          \/ draft = saved
          \/ \E x \in LibAliases : <<x, p[2]>> \in saved'.models]_libVars

\* A deletion leaves the files of every other profile alone
\* (src/macos/README.md:429).
DeleteSparesOthers ==
    [][\A q \in saved.models :
          q[2] \in files \ files' => deletion.at = "files" /\ q = deletion.profile]_libVars
=============================================================================
