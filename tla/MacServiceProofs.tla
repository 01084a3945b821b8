-------------------------- MODULE MacServiceProofs --------------------------
(***************************************************************************)
(* Theorems about the parts of the macOS service that keep state of their  *)
(* own beside the residency coordinator, each under its own specification. *)
(***************************************************************************)
EXTENDS MacUpdates, MacProcess, MacOmlx, MacLibrary, MacRequests, MacBenchmarks,
        FiniteSetTheorems, TLAPS

-----------------------------------------------------------------------------
(* Automatic engine choice                                                  *)

\* A good measurement of the alternative is on record.
Vouches(r) == r.engine = "alternative" /\ r.good

\* While the alternative is rejected nothing vouches for it, in the store or in the
\* cache that is reloaded from it.
EvidenceInv ==
    /\ \A r \in stored \union cached : {"engine", "good", "fresh"} \subseteq DOMAIN r
    /\ rejected \in BOOLEAN
    /\ rejected => \A r \in stored \union cached : ~Vouches(r)

\* An alternative that failed a request stays out of the automatic choice until it
\* has been measured well again, whatever is reloaded, aged or restarted
\* (reject_benchmark_evidence, choose_target).
THEOREM RejectionLasts == BenchSpec => []RejectedStaysOut
<1>1. BenchInit => EvidenceInv
  BY DEF BenchInit, EvidenceInv
<1>2. EvidenceInv /\ [BenchNext]_benchVars => EvidenceInv'
  <2> SUFFICES ASSUME EvidenceInv, [BenchNext]_benchVars
               PROVE  EvidenceInv'
    OBVIOUS
  <2>1. CASE UNCHANGED <<stored, cached, rejected>>
    BY <2>1 DEF EvidenceInv, Vouches
  <2>2. CASE stored' = {} /\ cached' = {} /\ rejected' \in BOOLEAN
    BY <2>2 DEF EvidenceInv
  <2>3. CASE cached' = stored /\ stored' = stored /\ rejected' = rejected
    BY <2>3 DEF EvidenceInv, Vouches
  <2>4. CASE RecordsAge
    <3>1. \A r \in stored \union cached :
            LET a == [r EXCEPT !.fresh = FALSE]
            IN  /\ DOMAIN a = DOMAIN r /\ a.engine = r.engine /\ a.good = r.good
      BY DEF EvidenceInv
    <3> QED
      BY <2>4, <3>1 DEF RecordsAge, EvidenceInv, Vouches
  <2>5. ASSUME NEW good \in BOOLEAN, NEW speed \in 1..2, CandidateMeasured(good, speed)
        PROVE  EvidenceInv'
    <3> DEFINE r == [engine |-> bench.todo[1], runtime |-> bench.runtime,
                     revision |-> bench.revision, good |-> good, speed |-> speed, fresh |-> TRUE]
    <3>1. /\ stored' = Upsert(r) /\ cached' = cached
          /\ rejected' = (rejected /\ ~(good /\ r.engine = "alternative"))
      BY <2>5 DEF CandidateMeasured
    <3>2. {"engine", "good", "fresh"} \subseteq DOMAIN r /\ r.good = good
      OBVIOUS
    <3> HIDE DEF r
    <3>3. \A o \in stored' : o \in stored \/ o = r
      BY <3>1 DEF Upsert
    <3> QED
      BY <3>1, <3>2, <3>3 DEF EvidenceInv, Vouches
  <2> QED
    BY <2>1, <2>2, <2>3, <2>4, <2>5
       DEF BenchNext, RuntimeChanges, SetupChanges, ServiceRestarts, Maintenance,
           ResolveAlternative, RejectAlternative, AlternativeServes, BenchAsked, BenchRefreshes,
           CandidateBegins, CandidateFails, BenchEnds, ContextEnds, ContextVerified, evidence,
           benchVars, EvidenceInv
<1>3. EvidenceInv => RejectedStaysOut
  BY DEF EvidenceInv, RejectedStaysOut, Choose, Matches, Vouches
<1> QED
  BY <1>1, <1>2, <1>3, PTL DEF BenchSpec

-----------------------------------------------------------------------------
(* The oMLX adapter                                                         *)

KnownModels == OmlxModels \union Pinned
ServiceType == [up : BOOLEAN, loaded : SUBSET KnownModels, loading : SUBSET KnownModels,
                leaving : SUBSET KnownModels]
OmlxOpType == [at : {"done", "settings", "rescan", "before", "post", "await", "next", "each",
                     "confirm"},
               kind : {"none", "load", "unload", "register"}, model : SUBSET KnownModels,
               error : {"none", "retryable", "fatal", "absent"}, todo : SUBSET KnownModels,
               outcome : {"none", "error", "handle", "empty"}]
OmlxTypeOK == service \in ServiceType /\ omlxOp \in OmlxOpType

\* A stopped service holds nothing; only an operation that has ended has an outcome.
StoppedEmpty == ~service.up => service.loaded = {} /\ service.loading = {}
OmlxInv == /\ OmlxTypeOK /\ OmlxOutcomeTrue /\ StoppedEmpty
           /\ omlxOp.outcome # "none" => omlxOp.at = "done"

\* The service's own steps keep types, and load nothing that was not already on its
\* way in.
LEMMA ServiceKeeps ==
  ASSUME OmlxInv, LateLoad \/ LoadAborts \/ LateUnload \/ ServiceStops \/ ServiceStarts
  PROVE  OmlxInv'
<1>0. service \in ServiceType /\ UNCHANGED omlxOp
  BY DEF OmlxInv, OmlxTypeOK, LateLoad, LoadAborts, LateUnload, ServiceStops, ServiceStarts,
         ServiceStep
<1>1. CASE LateLoad
  BY <1>0, <1>1 DEF OmlxInv, OmlxTypeOK, OmlxOutcomeTrue, StoppedEmpty, ServiceType, LateLoad, ServiceStep
<1>2. CASE LoadAborts
  BY <1>0, <1>2 DEF OmlxInv, OmlxTypeOK, OmlxOutcomeTrue, StoppedEmpty, ServiceType, LoadAborts, ServiceStep
<1>3. CASE LateUnload
  BY <1>0, <1>3 DEF OmlxInv, OmlxTypeOK, OmlxOutcomeTrue, StoppedEmpty, ServiceType, LateUnload, ServiceStep
<1>4. CASE ServiceStops
  BY <1>0, <1>4 DEF OmlxInv, OmlxTypeOK, OmlxOutcomeTrue, StoppedEmpty, ServiceType, ServiceStops, ServiceStep,
                    StoppedService
<1>5. CASE ServiceStarts
  BY <1>0, <1>5 DEF OmlxInv, OmlxTypeOK, OmlxOutcomeTrue, StoppedEmpty, ServiceType, ServiceStarts, ServiceStep,
                    StoppedService
<1> QED
  BY <1>1, <1>2, <1>3, <1>4, <1>5

\* A posted mutation leaves the operation without an outcome.
LEMMA PostKeeps ==
  ASSUME OmlxInv, PostLoad \/ PostUnload \/ Rescan
  PROVE  OmlxInv'
<1>1. omlxOp.outcome = "none"
  BY DEF OmlxInv, PostLoad, PostUnload, Rescan
<1>2. ASSUME NEW effects \in SUBSET {s \in ServiceType : s.up = service.up},
             NEW next \in {"await", "before"}, Posted(effects, next)
      PROVE  OmlxInv'
  <2>1. service' \in ServiceType /\ StoppedEmpty'
    BY <1>2 DEF Posted, OmlxInv, OmlxTypeOK, StoppedEmpty
  <2>2. omlxOp' \in OmlxOpType /\ omlxOp'.outcome = "none"
    BY <1>1, <1>2, ZenonT(40) DEF Posted, Answers, OmlxInv, OmlxTypeOK, OmlxOpType
  <2> QED
    BY <2>1, <2>2 DEF OmlxInv, OmlxTypeOK, OmlxOutcomeTrue
<1>3. /\ service \in ServiceType /\ omlxOp.model \in SUBSET KnownModels
      /\ Pinned \in SUBSET KnownModels
  BY DEF OmlxInv, OmlxTypeOK, OmlxOpType, KnownModels
<1>4. LoadEffects(omlxOp.model) \in SUBSET {s \in ServiceType : s.up = service.up}
  BY <1>3 DEF ServiceType, LoadEffects
<1>5. UnloadEffects(omlxOp.model) \in SUBSET {s \in ServiceType : s.up = service.up}
  BY <1>3 DEF ServiceType, UnloadEffects
<1>6. RescanEffects \in SUBSET {s \in ServiceType : s.up = service.up}
  BY <1>3 DEF ServiceType, RescanEffects
<1>7. CASE PostLoad
  BY <1>2, <1>4, <1>7 DEF PostLoad
<1>8. CASE PostUnload
  BY <1>2, <1>3, <1>5, <1>8 DEF PostUnload
<1>9. CASE Rescan
  BY <1>2, <1>6, <1>9 DEF Rescan
<1> QED
  BY <1>7, <1>8, <1>9

\* Reading an inventory or ending keeps types; an outcome is reported only on an
\* authoritative inventory, which nothing is loading behind.
LEMMA ReadKeeps ==
  ASSUME OmlxInv, NEW answer \in Answers, UNCHANGED service, omlxOp.at # "done",
         \/ \E at \in {"rescan", "post", "next", "confirm", "each"} : OmlxGoes(at)
         \/ OmlxEnds("error")
         \/ OmlxEnds("handle") /\ Inventory(answer).authoritative /\ ~Inventory(answer).stopped
            /\ Inventory(answer).residents = omlxOp.model
         \/ OmlxEnds("empty") /\ Inventory(answer).authoritative
            /\ Inventory(answer).residents = {}
         \/ omlxOp' = [omlxOp EXCEPT !.at = "next", !.todo = Inventory(answer).residents]
         \/ UNCHANGED omlxOp
  PROVE  OmlxInv'
<1>0. /\ omlxOp \in OmlxOpType /\ service' = service /\ service \in ServiceType
      /\ omlxOp.outcome = "none" /\ StoppedEmpty /\ StoppedEmpty'
  BY DEF OmlxInv, OmlxTypeOK, StoppedEmpty
<1>1. ASSUME omlxOp' \in OmlxOpType, omlxOp'.outcome \in {"none", "error"},
             omlxOp'.outcome # "none" => omlxOp'.at = "done"
      PROVE  OmlxInv'
  BY <1>0, <1>1 DEF OmlxInv, OmlxTypeOK, OmlxOutcomeTrue
<1>2. CASE \E at \in {"rescan", "post", "next", "confirm", "each"} : OmlxGoes(at)
  BY <1>0, <1>1, <1>2 DEF OmlxGoes, OmlxOpType
<1>3. CASE OmlxEnds("error")
  BY <1>0, <1>1, <1>3 DEF OmlxEnds, OmlxDone, OmlxOpType
<1>4. CASE omlxOp' = [omlxOp EXCEPT !.at = "next", !.todo = Inventory(answer).residents]
  <2>1. Inventory(answer).residents \in SUBSET KnownModels
    BY <1>0 DEF Inventory, ServiceType
  <2> QED
    BY <1>0, <1>1, <1>4, <2>1 DEF OmlxOpType
<1>5. CASE UNCHANGED omlxOp
  BY <1>0, <1>1, <1>5
<1>6. Inventory(answer).authoritative /\ ~Inventory(answer).stopped
        => service.loading = {} /\ Inventory(answer).residents = service.loaded
  BY DEF Inventory
<1>7. Inventory(answer).authoritative /\ Inventory(answer).residents = {}
        => service.loading = {} /\ service.loaded = {}
  BY <1>0 DEF Inventory, Answers, StoppedEmpty, ServiceType
<1>8. CASE /\ OmlxEnds("handle") /\ Inventory(answer).authoritative
           /\ ~Inventory(answer).stopped /\ Inventory(answer).residents = omlxOp.model
  <2>1. /\ omlxOp' \in OmlxOpType /\ omlxOp'.outcome = "handle" /\ omlxOp'.at = "done"
        /\ omlxOp'.model = omlxOp.model
    BY <1>0, <1>8 DEF OmlxEnds, OmlxDone, OmlxOpType
  <2> QED
    BY <1>0, <1>6, <1>8, <2>1 DEF OmlxInv, OmlxTypeOK, OmlxOutcomeTrue
<1>9. CASE /\ OmlxEnds("empty") /\ Inventory(answer).authoritative
           /\ Inventory(answer).residents = {}
  <2>1. omlxOp' \in OmlxOpType /\ omlxOp'.outcome = "empty" /\ omlxOp'.at = "done"
    BY <1>0, <1>9 DEF OmlxEnds, OmlxDone, OmlxOpType
  <2> QED
    BY <1>0, <1>7, <1>9, <2>1 DEF OmlxInv, OmlxTypeOK, OmlxOutcomeTrue
<1> QED
  BY <1>2, <1>3, <1>4, <1>5, <1>8, <1>9

\* What the adapter reported, an empty engine or its own model alone, stays true of
\* the service until the next operation (inspect's authority rule).
THEOREM OmlxReportsTrue == OmlxSpec => []OmlxOutcomeTrue
<1>1. OmlxInit => OmlxInv
  <2> SUFFICES ASSUME OmlxInit
               PROVE  OmlxInv
    OBVIOUS
  <2>1. service \in ServiceType /\ service.up
    BY DEF OmlxInit, ServiceType, StoppedService
  <2>2. omlxOp \in OmlxOpType /\ omlxOp.outcome = "none"
    BY DEF OmlxInit, OmlxOpType, OmlxDone
  <2> QED
    BY <2>1, <2>2 DEF OmlxInv, OmlxTypeOK, OmlxOutcomeTrue, StoppedEmpty
<1>2. OmlxInv /\ [OmlxNext]_omlxVars => OmlxInv'
  <2> SUFFICES ASSUME OmlxInv, [OmlxNext]_omlxVars
               PROVE  OmlxInv'
    OBVIOUS
  <2>0. omlxOp \in OmlxOpType /\ service \in ServiceType
    BY DEF OmlxInv, OmlxTypeOK
  <2>1. CASE UNCHANGED omlxVars
    BY <2>1 DEF omlxVars, OmlxInv, OmlxTypeOK, OmlxOutcomeTrue, StoppedEmpty
  <2>2. CASE LateLoad \/ LoadAborts \/ LateUnload \/ ServiceStops \/ ServiceStarts
    BY <2>2, ServiceKeeps
  <2>3. CASE PostLoad \/ PostUnload \/ Rescan
    BY <2>3, PostKeeps
  <2>4. ASSUME NEW kind \in {"load", "unload", "register"}, NEW model \in SUBSET OmlxModels,
               OmlxBegins(kind, model)
        PROVE  OmlxInv'
    <3>1. omlxOp' \in OmlxOpType /\ omlxOp'.outcome = "none" /\ service' = service
      BY <2>4 DEF OmlxBegins, OmlxDone, OmlxOpType, KnownModels
    <3> QED
      BY <2>0, <3>1 DEF OmlxInv, OmlxTypeOK, OmlxOutcomeTrue, StoppedEmpty
  <2>5. CASE AwaitExpires \/ UnloadNext
    <3>0. UNCHANGED service /\ omlxOp.at # "done" /\ omlxOp.outcome = "none"
      BY <2>5 DEF AwaitExpires, UnloadNext, OmlxInv
    <3>1. /\ omlxOp' \in OmlxOpType /\ omlxOp'.outcome \in {"none", "error"}
          /\ omlxOp'.outcome # "none" => omlxOp'.at = "done"
      <4>1. CASE AwaitExpires
        BY <2>0, <4>1 DEF AwaitExpires, OmlxEnds, OmlxDone, OmlxOpType
      <4>2. CASE OmlxGoes("confirm")
        BY <2>0, <3>0, <4>2 DEF OmlxGoes, OmlxOpType
      <4>3. CASE \E m \in omlxOp.todo :
                    omlxOp' = [omlxOp EXCEPT !.at = "each", !.model = {m}, !.todo = @ \ {m}]
        <5>1. PICK m \in omlxOp.todo :
                omlxOp' = [omlxOp EXCEPT !.at = "each", !.model = {m}, !.todo = @ \ {m}]
          BY <4>3
        <5>2. {m} \in SUBSET KnownModels /\ omlxOp.todo \ {m} \in SUBSET KnownModels
          BY <2>0 DEF OmlxOpType
        <5> QED
          BY <2>0, <3>0, <5>1, <5>2 DEF OmlxOpType
      <4> QED
        BY <2>5, <4>1, <4>2, <4>3 DEF UnloadNext
    <3> QED
      BY <2>0, <3>0, <3>1 DEF OmlxInv, OmlxTypeOK, OmlxOutcomeTrue, StoppedEmpty
  <2>6. ASSUME NEW answer \in Answers,
               \/ LoadBefore(answer) \/ AwaitLoaded(answer) \/ UnloadBefore(answer)
               \/ UnloadLooks(answer) \/ AwaitAbsent(answer) \/ ConfirmEmpty(answer)
               \/ ReadDirectories(answer)
        PROVE  OmlxInv'
    <3>1. UNCHANGED service /\ omlxOp.at # "done"
      BY <2>6 DEF LoadBefore, AwaitLoaded, UnloadBefore, UnloadLooks, AwaitAbsent, ConfirmEmpty,
                  ReadDirectories
    <3>2. CASE LoadBefore(answer) \/ AwaitLoaded(answer)
      BY <3>1, <3>2, ReadKeeps DEF LoadBefore, AwaitLoaded
    <3>3. CASE UnloadBefore(answer) \/ UnloadLooks(answer) \/ AwaitAbsent(answer)
      BY <3>1, <3>3, ReadKeeps DEF UnloadBefore, UnloadLooks, AwaitAbsent
    <3>4. CASE ConfirmEmpty(answer) \/ ReadDirectories(answer)
      BY <3>1, <3>4, ReadKeeps DEF ConfirmEmpty, ReadDirectories
    <3> QED
      BY <2>6, <3>2, <3>3, <3>4
  <2> QED
    BY <2>1, <2>2, <2>3, <2>4, <2>5, <2>6 DEF OmlxNext
<1>3. OmlxInv => OmlxOutcomeTrue
  BY DEF OmlxInv
<1> QED
  BY <1>1, <1>2, <1>3, PTL DEF OmlxSpec

-----------------------------------------------------------------------------
(* Runtime updates                                                          *)

EventKinds == {"transition", "inference_validated", "journal_reset", "unreadable"}
Events == [kind : EventKinds, after : 0..MaxVersion]
JobType == [at : {"none", "prepare", "stage", "prepared", "empty", "upgrade", "start", "verify",
                  "record"},
            kind : {"none", "install", "rollback", "omlx"},
            version : 0..MaxVersion, before : 0..MaxVersion]
UpdTypeOK ==
    /\ upstream \in 1..MaxVersion /\ release \in 0..MaxVersion
    /\ directory \in [Versions -> {"absent", "complete", "damaged"}]
    /\ pointer \in [version : 0..MaxVersion, previous : 0..MaxVersion]
    /\ job \in JobType
    /\ journal \in Seq(Events) /\ told \in BOOLEAN /\ validation \in 0..MaxVersion
    /\ mishaps \in Nat

\* How far each kind of job can be; behind the barrier the pointer is the one the job
\* wrote, and a version is staged where there is no directory.
JobInv ==
    /\ job.at = "none" <=> job = NoJob
    /\ job.kind = "none" <=> job = NoJob
    /\ job.at \in {"prepare", "stage"} => job.kind = "install"
    /\ job.at \in {"upgrade", "start"} => job.kind = "omlx"
    /\ job.at \in {"verify", "record"} /\ job.kind # "omlx" => pointer.version = job.version
    /\ job.at = "stage" => job.version \in Versions /\ directory[job.version] = "absent"

\* The pointer names no version or one with a directory, which outside damage leaves
\* there; the barrier has stopped the engines.
PointerInv == pointer.version # 0 => directory[pointer.version] # "absent"
BarrierInv == BehindBarrier => serving = {}

\* The journal is current also while Homebrew's oMLX, which it does not follow, is
\* being upgraded.
LastEventCurrent ==
    (job.kind \in {"none", "omlx"} /\ told)
        => /\ journal # Unreadable
           /\ \A k \in DOMAIN journal :
                LastTransition(k) => journal[k].after \in {Active, pointer.version}

UpdInv == /\ UpdTypeOK /\ JobInv /\ PointerInv /\ BarrierInv
          /\ ServingIsActive /\ LastEventCurrent

\* An appended event is the journal's last one, whatever had to be dropped.
LEMMA AppendedLast ==
  ASSUME journal \in Seq(Events), NEW e \in Events
  PROVE  /\ Appended(e) \in Seq(Events) /\ Len(Appended(e)) > 0
         /\ Appended(e)[Len(Appended(e))] = e
<1> DEFINE kept == IF journal = Unreadable THEN <<Reset, e>>
                   ELSE Append(journal, e)
           from == (IF Len(kept) > JournalLimit THEN Len(kept) - JournalLimit ELSE 0) + 1
<1>1. kept \in Seq(Events) /\ Len(kept) > 0 /\ kept[Len(kept)] = e
  <2>1. Reset \in Events
    BY UpdAssumption DEF Reset, Events, EventKinds
  <2>2. CASE journal = Unreadable
    BY <2>1, <2>2
  <2>3. CASE journal # Unreadable
    <3>1. Append(journal, e) \in Seq(Events) /\ Len(Append(journal, e)) = Len(journal) + 1
      OBVIOUS
    <3>2. Append(journal, e)[Len(journal) + 1] = e
      OBVIOUS
    <3> QED
      BY <2>3, <3>1, <3>2
  <2> QED
    BY <2>2, <2>3
<1>2. Appended(e) = SubSeq(kept, from, Len(kept))
  BY DEF Appended
<1> HIDE DEF kept
<1>3. from \in 1..Len(kept)
  BY <1>1, UpdAssumption
<1> HIDE DEF from
<1> QED
  BY <1>1, <1>2, <1>3

\* What is active is a version or the shipped runtime.
LEMMA ActiveType ==
  ASSUME UpdTypeOK
  PROVE  /\ Active \in 0..MaxVersion /\ RollbackVersion \in 0..MaxVersion
         /\ Active # 0 <=> Loadable(pointer.version)
         /\ RollbackVersion # 0 => Loadable(RollbackVersion)
BY UpdAssumption DEF UpdTypeOK, Active, RollbackVersion, Loadable, Versions

\* A recorded transition leaves the journal well typed and, when it was written, is
\* the last one in it.
LEMMA Recorded ==
  ASSUME UpdTypeOK, NEW v \in 0..MaxVersion, Record(Transition(v))
  PROVE  /\ journal' \in Seq(Events) /\ told' \in BOOLEAN
         /\ told' => /\ journal' # Unreadable
                     /\ \A k \in DOMAIN journal' : LastTransition(k)' => journal'[k].after = v
<1> DEFINE e == Transition(v)
<1>1. journal \in Seq(Events) /\ e \in Events /\ e.kind = "transition" /\ e.after = v
  BY DEF UpdTypeOK, Transition, Events, EventKinds
<1> HIDE DEF e
<1>2. CASE journal' = Appended(e) /\ told' = TRUE
  <2>1. /\ journal' \in Seq(Events) /\ Len(journal') > 0
        /\ journal'[Len(journal')] = e /\ told' \in BOOLEAN
    BY <1>1, <1>2, AppendedLast
  <2>2. Unreadable[Len(Unreadable)].kind = "unreadable"
    BY DEF Unreadable
  <2>3. journal' # Unreadable
    BY <1>1, <2>1, <2>2
  <2>4. ASSUME NEW k \in DOMAIN journal', LastTransition(k)'
        PROVE  journal'[k].after = v
    <3>1. k \in 1..Len(journal') /\ Len(journal') \in Nat
      BY <2>1
    <3>2. \A i \in k + 1..Len(journal') : journal'[i].kind = "inference_validated"
      BY <2>4 DEF LastTransition
    <3>3. k = Len(journal')
      BY <1>1, <2>1, <3>1, <3>2
    <3> QED
      BY <1>1, <2>1, <3>3
  <2> QED
    BY <2>1, <2>3, <2>4
<1>3. CASE UNCHANGED journal /\ told' = FALSE
  BY <1>1, <1>3
<1> QED
  BY <1>2, <1>3 DEF Record, e

\* A validation appended to a readable journal hides no transition and brings none
\* back, whatever it pushes out.
LEMMA ValidatedLast ==
  ASSUME journal \in Seq(Events), NEW v \in 0..MaxVersion,
         journal' \in {journal, Appended(Validated(v))}
  PROVE  /\ journal' \in Seq(Events)
         /\ journal # Unreadable
              => /\ journal' # Unreadable
                 /\ \A k \in DOMAIN journal' : LastTransition(k)' =>
                      \E j \in DOMAIN journal : LastTransition(j) /\ journal'[k] = journal[j]
<1> DEFINE e == Validated(v)
           kept == Append(journal, e)
           cut == IF Len(kept) > JournalLimit THEN Len(kept) - JournalLimit ELSE 0
<1>1. e \in Events /\ e.kind = "inference_validated"
  BY DEF Validated, Events, EventKinds
<1>2. CASE journal' = journal
  BY <1>2 DEF LastTransition
<1>3. CASE journal' = Appended(e)
  <2>1. /\ journal' \in Seq(Events) /\ Len(journal') > 0 /\ journal'[Len(journal')] = e
    BY <1>1, <1>3, AppendedLast
  <2> SUFFICES ASSUME journal # Unreadable
               PROVE  /\ journal' # Unreadable
                      /\ \A k \in DOMAIN journal' : LastTransition(k)' =>
                           \E j \in DOMAIN journal : LastTransition(j) /\ journal'[k] = journal[j]
    BY <2>1
  <2>2. journal' # Unreadable
    <3>1. Unreadable[Len(Unreadable)].kind = "unreadable"
      BY DEF Unreadable
    <3> QED
      BY <1>1, <2>1, <3>1
  <2>3. journal' = SubSeq(kept, cut + 1, Len(kept))
    BY <1>3 DEF Appended
  <2>4. /\ kept \in Seq(Events) /\ Len(kept) = Len(journal) + 1 /\ Len(journal) \in Nat
        /\ kept[Len(journal) + 1] = e /\ \A j \in 1..Len(journal) : kept[j] = journal[j]
    BY <1>1
  <2> HIDE DEF kept
  <2>5. cut \in 0..Len(journal)
    BY <2>4, UpdAssumption
  <2> HIDE DEF cut, e
  <2>6. /\ Len(journal') = Len(journal) + 1 - cut
        /\ \A k \in 1..Len(journal') : journal'[k] = kept[cut + k]
    BY <2>3, <2>4, <2>5
  <2>7. ASSUME NEW k \in DOMAIN journal', LastTransition(k)'
        PROVE  \E j \in DOMAIN journal : LastTransition(j) /\ journal'[k] = journal[j]
    <3>1. k \in 1..Len(journal') /\ journal'[k].kind # "inference_validated"
          /\ \A i \in k + 1..Len(journal') : journal'[i].kind = "inference_validated"
      BY <2>1, <2>7 DEF LastTransition
    <3>2. k # Len(journal')
      BY <1>1, <2>1, <3>1
    <3>3. cut + k \in 1..Len(journal) /\ journal'[k] = journal[cut + k]
      BY <2>4, <2>5, <2>6, <3>1, <3>2
    <3>4. ASSUME NEW i \in cut + k + 1..Len(journal)
          PROVE  journal[i].kind = "inference_validated"
      <4>1. i - cut \in k + 1..Len(journal') /\ i \in 1..Len(journal) /\ cut + (i - cut) = i
        BY <2>4, <2>5, <2>6, <3>1, <3>3
      <4>2. i - cut \in 1..Len(journal')
        BY <2>4, <2>5, <2>6, <3>1, <4>1
      <4>3. journal'[i - cut] = kept[i]
        BY <2>6, <4>1, <4>2
      <4> QED
        BY <2>4, <3>1, <4>1, <4>3
    <3>5. LastTransition(cut + k)
      BY <3>1, <3>3, <3>4 DEF LastTransition
    <3> QED
      BY <2>4, <3>3, <3>5
  <2> QED
    BY <2>2, <2>7
<1> QED
  BY <1>2, <1>3

\* Preparing an install or asking for a rollback touches no engine and no pointer.
LEMMA PrepareKeeps ==
  ASSUME UpdInv,
         \/ Publish \/ CheckUpdates \/ RequestInstall \/ PrepareRefreshes \/ PrepareRejects
         \/ PrepareReuses \/ PrepareStages \/ StageFails \/ RequestRollback \/ RequestOmlx
  PROVE  UpdInv'
<1>0. /\ UpdTypeOK /\ job \in JobType /\ Active \in 0..MaxVersion
      /\ upstream \in 1..MaxVersion /\ release \in 0..MaxVersion
  BY ActiveType DEF UpdInv, UpdTypeOK
<1>1. /\ UNCHANGED <<directory, pointer, validation, serving, mishaps>>
  BY DEF Publish, CheckUpdates, RequestInstall, PrepareRefreshes, PrepareRejects, PrepareReuses,
         PrepareStages, StageFails, RequestRollback, RequestOmlx
<1>2. PointerInv' /\ ServingIsActive'
  BY <1>1 DEF UpdInv, PointerInv, ServingIsActive, Active, Loadable
<1>3. Active' = Active
  BY <1>1 DEF Active, Loadable
<1>4. upstream' \in 1..MaxVersion /\ release' \in 0..MaxVersion
  BY <1>0, UpdAssumption
     DEF Publish, CheckUpdates, RequestInstall, PrepareRefreshes, PrepareRejects, PrepareReuses,
         PrepareStages, StageFails, RequestRollback, RequestOmlx, Refreshed
<1>5. /\ job' \in JobType /\ JobInv' /\ BarrierInv'
  <2>1. CASE UNCHANGED job
    BY <1>0, <1>1, <2>1 DEF UpdInv, JobInv, BarrierInv, BehindBarrier, Versions
  <2>2. CASE job' = NoJob
    BY <1>1, <2>2, UpdAssumption DEF NoJob, JobType, JobInv, BarrierInv, BehindBarrier
  <2>3. CASE RequestInstall
    <3>1. PICK v \in Versions \union {0} :
            job' = [at |-> "prepare", kind |-> "install", version |-> v, before |-> Active]
      BY <2>3 DEF RequestInstall
    <3>2. v \in 0..MaxVersion
      BY UpdAssumption DEF Versions
    <3> QED
      BY <1>0, <3>1, <3>2 DEF NoJob, JobType, JobInv, BarrierInv, BehindBarrier
  <2>6. CASE RequestRollback \/ RequestOmlx
    BY <1>0, <2>6, UpdAssumption
       DEF RequestRollback, RequestOmlx, NoJob, JobType, JobInv, BarrierInv, BehindBarrier
  <2>4. CASE PrepareReuses \/ PrepareStages
    <3>1. /\ job.kind = "install" /\ job' \in JobType /\ job'.version = release
          /\ job'.kind = job.kind /\ job'.at \in {"prepared", "stage"}
          /\ job'.at = "stage" => directory[release] = "absent"
      BY <1>0, <2>4 DEF PrepareReuses, PrepareStages, At, JobType, UpdInv, JobInv
    <3>2. release \in Versions
      BY <1>0, <2>4 DEF PrepareReuses, PrepareStages, Current, Versions
    <3> QED
      BY <1>1, <3>1, <3>2 DEF NoJob, JobInv, BarrierInv, BehindBarrier, Versions
  <2> QED
    BY <2>1, <2>2, <2>3, <2>4, <2>6
       DEF Publish, CheckUpdates, PrepareRefreshes, PrepareRejects, StageFails
<1>6. journal' \in Seq(Events) /\ told' \in BOOLEAN /\ LastEventCurrent'
  <2>1. CASE /\ UNCHANGED <<journal, told>>
             /\ job'.kind \in {"none", "omlx"} => job.kind \in {"none", "omlx"}
    BY <1>0, <1>1, <1>3, <2>1 DEF UpdInv, UpdTypeOK, LastEventCurrent, LastTransition
  <2>2. ASSUME NEW v \in 0..MaxVersion, Record(Transition(v)), v = Active \/ job'.kind = "install"
        PROVE  journal' \in Seq(Events) /\ told' \in BOOLEAN /\ LastEventCurrent'
    <3>1. /\ journal' \in Seq(Events) /\ told' \in BOOLEAN
          /\ told' => /\ journal' # Unreadable
                      /\ \A k \in DOMAIN journal' : LastTransition(k)' => journal'[k].after = v
      BY <1>0, <2>2, Recorded
    <3> QED
      BY <1>3, <2>2, <3>1 DEF LastEventCurrent
  <2>3. CASE RequestInstall \/ RequestRollback \/ PrepareRejects \/ StageFails
    BY <1>0, <2>2, <2>3 DEF RequestInstall, RequestRollback, PrepareRejects, StageFails
  <2>5. CASE PrepareReuses
    <3>1. job'.kind = "install" /\ job.before \in 0..MaxVersion
      BY <1>0, <2>5 DEF PrepareReuses, At, JobType, UpdInv, JobInv
    <3> QED
      BY <2>2, <2>5, <3>1 DEF PrepareReuses
  <2>6. CASE Publish \/ CheckUpdates \/ PrepareRefreshes
    BY <2>1, <2>6 DEF Publish, CheckUpdates, PrepareRefreshes
  <2>7. CASE PrepareStages
    <3>1. job'.kind = "install"
      BY <1>0, <2>7 DEF PrepareStages, At, JobType, UpdInv, JobInv
    <3> QED
      BY <2>1, <2>7, <3>1 DEF PrepareStages
  <2>8. CASE RequestOmlx
    BY <2>1, <2>8 DEF RequestOmlx, NoJob
  <2> QED
    BY <2>3, <2>5, <2>6, <2>7, <2>8
<1>7. UpdTypeOK'
  BY <1>0, <1>1, <1>4, <1>5, <1>6 DEF UpdTypeOK
<1> QED
  BY <1>2, <1>5, <1>6, <1>7 DEF UpdInv

\* The new directory is moved into place while engines run: it is not the one the
\* pointer names.
LEMMA StagedKeeps ==
  ASSUME UpdInv, Staged
  PROVE  UpdInv'
<1>0. /\ UpdTypeOK /\ job \in JobType /\ job.at = "stage" /\ job.kind = "install"
      /\ directory \in [Versions -> {"absent", "complete", "damaged"}]
      /\ job.version \in Versions /\ directory[job.version] = "absent"
  BY DEF UpdInv, UpdTypeOK, JobInv, Staged
<1>1. directory' = [directory EXCEPT ![job.version] = "complete"]
      /\ UNCHANGED <<upstream, release, pointer, validation, serving, mishaps>>
  BY DEF Staged
<1>2. directory' \in [Versions -> {"absent", "complete", "damaged"}]
  BY <1>0, <1>1
<1>3. job' \in JobType /\ job'.at = "prepared" /\ job'.kind = "install"
  BY <1>0 DEF Staged, At, JobType
<1>5. journal' \in Seq(Events) /\ told' \in BOOLEAN
  BY <1>0, Recorded DEF Staged, JobType
<1>6. UpdTypeOK'
  BY <1>0, <1>1, <1>2, <1>3, <1>5 DEF UpdTypeOK
<1>7. job.version # pointer.version
  BY <1>0, UpdAssumption DEF UpdInv, PointerInv, Versions
<1>8. \A v \in Versions : v # job.version => directory'[v] = directory[v]
  BY <1>0, <1>1
<1>9. JobInv' /\ BarrierInv' /\ LastEventCurrent'
  BY <1>3 DEF JobInv, BarrierInv, BehindBarrier, LastEventCurrent, NoJob
<1>10. PointerInv'
  BY <1>0, <1>1, <1>7, <1>8 DEF UpdInv, UpdTypeOK, PointerInv, Versions
<1>11. ServingIsActive'
  <2>1. Active' = Active
    BY <1>1, <1>7, <1>8 DEF Active, Loadable, Versions
  <2> QED
    BY <1>1, <2>1 DEF UpdInv, ServingIsActive
<1> QED
  BY <1>6, <1>9, <1>10, <1>11 DEF UpdInv

\* A failed operation is journalled with what is active after it.
LEMMA RejectKeeps ==
  ASSUME UpdInv, Reject, UNCHANGED <<upstream, release, directory, pointer, validation>>,
         mishaps' \in {mishaps, mishaps + 1}, serving' \in {serving, {}}
  PROVE  UpdInv'
<1>0. /\ UpdTypeOK /\ job \in JobType /\ Active \in 0..MaxVersion /\ mishaps \in Nat
      /\ mishaps' \in Nat
  BY ActiveType DEF UpdInv, UpdTypeOK
<1>1. job' = NoJob /\ job' \in JobType
  BY UpdAssumption DEF Reject, NoJob, JobType
<1>2. Active' = Active
  BY DEF Active, Loadable
<1>3. journal' \in Seq(Events) /\ told' \in BOOLEAN /\ LastEventCurrent'
  <2>1. CASE job.kind = "omlx"
    <3>1. UNCHANGED <<journal, told>>
      BY <2>1 DEF Reject
    <3> QED
      BY <1>0, <1>2, <2>1, <3>1 DEF UpdInv, UpdTypeOK, LastEventCurrent, LastTransition
  <2>2. CASE job.kind # "omlx"
    <3>1. Record(Transition(Active))
      BY <2>2 DEF Reject
    <3>2. /\ journal' \in Seq(Events) /\ told' \in BOOLEAN
          /\ told' => /\ journal' # Unreadable
                      /\ \A k \in DOMAIN journal' : LastTransition(k)' => journal'[k].after = Active
      BY <1>0, <3>1, Recorded
    <3> QED
      BY <1>2, <3>2 DEF LastEventCurrent
  <2> QED
    BY <2>1, <2>2
<1>4. UpdTypeOK'
  BY <1>0, <1>1, <1>3 DEF UpdTypeOK
<1>5. JobInv' /\ BarrierInv'
  BY <1>1 DEF JobInv, BarrierInv, BehindBarrier, NoJob, Versions
<1>6. PointerInv'
  BY DEF UpdInv, PointerInv
<1>7. ServingIsActive'
  BY <1>0, <1>2 DEF UpdInv, ServingIsActive
<1> QED
  BY <1>3, <1>4, <1>5, <1>6, <1>7 DEF UpdInv

\* Behind the barrier nothing serves, so the pointer may move.
LEMMA BarrierKeeps ==
  ASSUME UpdInv, Barrier \/ Activate \/ Rollback \/ Verified \/ OmlxStop \/ OmlxUpgrade
  PROVE  UpdInv'
<1>0. /\ UpdTypeOK /\ job \in JobType /\ Active \in 0..MaxVersion
      /\ RollbackVersion \in 0..MaxVersion
      /\ pointer \in [version : 0..MaxVersion, previous : 0..MaxVersion]
  BY ActiveType DEF UpdInv, UpdTypeOK
<1>1. UNCHANGED <<upstream, release, directory, journal, told, validation, mishaps>>
  BY DEF Barrier, Activate, Rollback, Verified, OmlxStop, OmlxUpgrade
<1>2. serving' = {}
  BY DEF Barrier, Activate, Rollback, Verified, OmlxStop, OmlxUpgrade, UpdInv, BarrierInv,
         BehindBarrier
<1>3. CASE Barrier \/ OmlxStop \/ OmlxUpgrade \/ Verified
  <2>1. pointer' = pointer /\ Active' = Active
    BY <1>1, <1>3 DEF Barrier, OmlxStop, OmlxUpgrade, Verified, Active, Loadable
  <2>2. /\ job' \in JobType /\ job'.kind = job.kind /\ job'.version = job.version
        /\ \/ Barrier /\ job'.at = "empty"
           \/ OmlxStop /\ job'.at \in {"upgrade", "start"} /\ job.kind = "omlx"
           \/ OmlxUpgrade /\ job'.at = "start" /\ job.kind = "omlx"
           \/ Verified /\ job'.at = "record" /\ job.at = "verify"
    BY <1>0, <1>3 DEF Barrier, OmlxStop, OmlxUpgrade, Verified, At, JobType, UpdInv, JobInv
  <2>3. job.at # "none" /\ job.kind # "none"
    BY <1>3 DEF Barrier, OmlxStop, OmlxUpgrade, Verified, UpdInv, JobInv, NoJob
  <2>4. JobInv'
    BY <2>1, <2>2, <2>3 DEF UpdInv, JobInv, NoJob
  <2>5. BarrierInv'
    BY <1>2, <2>2 DEF BarrierInv, BehindBarrier
  <2>6. UpdTypeOK' /\ PointerInv'
    BY <1>0, <1>1, <2>1, <2>2 DEF UpdInv, UpdTypeOK, PointerInv
  <2>7. ServingIsActive' /\ LastEventCurrent'
    BY <1>1, <1>2, <2>1, <2>2 DEF UpdInv, ServingIsActive, LastEventCurrent, LastTransition
  <2> QED
    BY <2>4, <2>5, <2>6, <2>7 DEF UpdInv
<1>4. CASE Activate \/ Rollback
  <2>0. \/ Activate /\ job.kind = "install" /\ job.at = "empty"
        \/ Rollback /\ job.kind = "rollback" /\ job.at = "empty"
    BY <1>4 DEF Activate, Rollback
  <2>1. /\ job' \in JobType /\ job'.kind = job.kind /\ job'.at = "verify"
        /\ pointer' \in [version : 0..MaxVersion, previous : 0..MaxVersion]
        /\ pointer'.version = job'.version
    <3>1. CASE Activate
      BY <1>0, <3>1 DEF Activate, At, JobType
    <3>2. CASE Rollback
      BY <1>0, <3>2 DEF Rollback, At, JobType
    <3> QED
      BY <1>4, <3>1, <3>2
  <2>2. Loadable(pointer.version)'
    <3>1. CASE Activate
      BY <1>0, <1>1, <3>1 DEF Activate, Loadable
    <3>2. CASE Rollback
      <4>1. Loadable(RollbackVersion)
        BY <1>0, <3>2, ActiveType DEF Rollback
      <4> QED
        BY <1>0, <1>1, <3>2, <4>1 DEF Rollback, Loadable
    <3> QED
      BY <1>4, <3>1, <3>2
  <2>3. serving' = {}
    BY <1>2
  <2>4. UpdTypeOK'
    BY <1>0, <1>1, <2>1 DEF UpdTypeOK
  <2>5. JobInv' /\ BarrierInv' /\ PointerInv' /\ ServingIsActive' /\ LastEventCurrent'
    BY <2>0, <2>1, <2>2, <2>3
       DEF JobInv, NoJob, BarrierInv, PointerInv, Loadable, ServingIsActive, LastEventCurrent
  <2> QED
    BY <2>4, <2>5 DEF UpdInv
<1> QED
  BY <1>3, <1>4

\* The remaining steps.
LEMMA UpdateKeeps ==
  ASSUME UpdInv, UpdNext
  PROVE  UpdInv'
<1>0. /\ UpdTypeOK /\ job \in JobType /\ Active \in 0..MaxVersion /\ mishaps \in Nat
      /\ pointer \in [version : 0..MaxVersion, previous : 0..MaxVersion]
      /\ directory \in [Versions -> {"absent", "complete", "damaged"}]
      /\ journal \in Seq(Events)
  BY ActiveType DEF UpdInv, UpdTypeOK
<1>1. CASE BarrierFails \/ OperationRaises \/ VerifyFails \/ OmlxRefused \/ OmlxStartFails
  BY <1>1, RejectKeeps DEF BarrierFails, OperationRaises, VerifyFails, OmlxRefused, OmlxStartFails
<1>2. CASE OmlxStart
  <2>1. CASE Reject
    BY <1>2, <2>1, RejectKeeps DEF OmlxStart
  <2>2. CASE job' = At("verify") /\ UNCHANGED <<journal, told>>
    <3>1. /\ job.kind = "omlx" /\ job' \in JobType /\ job'.kind = "omlx" /\ job'.at = "verify"
      BY <1>0, <1>2, <2>2 DEF OmlxStart, At, JobType, UpdInv, JobInv
    <3>2. /\ serving = {}
          /\ UNCHANGED <<upstream, release, directory, pointer, validation, serving, mishaps>>
      BY <1>2 DEF OmlxStart, UpdInv, BarrierInv, BehindBarrier
    <3>3. UpdTypeOK'
      BY <1>0, <2>2, <3>1, <3>2 DEF UpdTypeOK
    <3>4. JobInv' /\ BarrierInv' /\ PointerInv' /\ ServingIsActive'
      BY <3>1, <3>2 DEF UpdInv, JobInv, NoJob, BarrierInv, PointerInv, ServingIsActive
    <3>5. LastEventCurrent'
      BY <2>2, <3>1, <3>2 DEF UpdInv, LastEventCurrent, LastTransition, Active, Loadable
    <3> QED
      BY <3>3, <3>4, <3>5 DEF UpdInv
  <2> QED
    BY <1>2, <2>1, <2>2 DEF OmlxStart
<1>3. CASE RecordOutcome
  <2>1. /\ job' = NoJob /\ job.at = "record"
        /\ UNCHANGED <<upstream, release, directory, pointer, validation, serving, mishaps>>
    BY <1>3 DEF RecordOutcome
  <2>2. Active' = Active /\ job' \in JobType
    BY <2>1, UpdAssumption DEF Active, Loadable, NoJob, JobType
  <2>3. journal' \in Seq(Events) /\ told' \in BOOLEAN /\ LastEventCurrent'
    <3>1. CASE job.kind = "omlx"
      <4>1. UNCHANGED <<journal, told>>
        BY <1>3, <3>1 DEF RecordOutcome
      <4> QED
        BY <1>0, <2>1, <2>2, <3>1, <4>1 DEF UpdInv, UpdTypeOK, LastEventCurrent, LastTransition
    <3>2. CASE job.kind # "omlx"
      <4>1. job.version \in 0..MaxVersion /\ job.version = pointer.version
        BY <1>0, <2>1, <3>2 DEF JobType, UpdInv, JobInv
      <4>2. Record(Transition(job.version))
        BY <1>3, <3>2 DEF RecordOutcome
      <4>3. /\ journal' \in Seq(Events) /\ told' \in BOOLEAN
            /\ told' => /\ journal' # Unreadable
                        /\ \A k \in DOMAIN journal' :
                             LastTransition(k)' => journal'[k].after = job.version
        BY <1>0, <4>1, <4>2, Recorded
      <4> QED
        BY <2>1, <4>1, <4>3 DEF LastEventCurrent
    <3> QED
      BY <3>1, <3>2
  <2>4. UpdTypeOK'
    BY <1>0, <2>1, <2>2, <2>3 DEF UpdTypeOK
  <2>5. JobInv' /\ BarrierInv' /\ PointerInv' /\ ServingIsActive'
    BY <2>1, <2>2 DEF UpdInv, JobInv, NoJob, BarrierInv, BehindBarrier, PointerInv,
                      ServingIsActive
  <2> QED
    BY <2>3, <2>4, <2>5 DEF UpdInv
<1>4. CASE StartEngine
  <2>1. /\ ~BehindBarrier /\ serving' = {Active}
        /\ UNCHANGED <<upstream, release, directory, pointer, job, journal, validation, told,
                       mishaps>>
    BY <1>4 DEF StartEngine
  <2>2. Active' = Active
    BY <2>1 DEF Active, Loadable
  <2>3. UpdTypeOK' /\ JobInv' /\ PointerInv' /\ LastEventCurrent'
    BY <2>1, <2>2 DEF UpdInv, UpdTypeOK, JobInv, PointerInv, LastEventCurrent, LastTransition,
                      Versions
  <2>4. BarrierInv' /\ ServingIsActive'
    BY <2>1, <2>2 DEF BarrierInv, BehindBarrier, ServingIsActive
  <2> QED
    BY <2>3, <2>4 DEF UpdInv
<1>5. CASE ReadValidation \/ RecordValidation
  <2>1. /\ UNCHANGED <<upstream, release, directory, pointer, job, told, serving, mishaps>>
        /\ Active' = Active /\ validation' \in 0..MaxVersion
    BY <1>0, <1>5, UpdAssumption DEF ReadValidation, RecordValidation, Active, Loadable
  <2>2. /\ journal' \in Seq(Events)
        /\ journal # Unreadable
              => /\ journal' # Unreadable
                 /\ \A k \in DOMAIN journal' : LastTransition(k)' =>
                      \E j \in DOMAIN journal : LastTransition(j) /\ journal'[k] = journal[j]
    <3>1. CASE UNCHANGED journal
      BY <1>0, <3>1 DEF LastTransition
    <3>2. CASE RecordValidation
      BY <1>0, <3>2, ValidatedLast DEF RecordValidation, UpdTypeOK
    <3> QED
      BY <1>5, <3>1, <3>2 DEF ReadValidation
  <2>3. UpdTypeOK'
    BY <1>0, <2>1, <2>2 DEF UpdTypeOK
  <2>4. LastEventCurrent'
    <3> SUFFICES ASSUME LastEventCurrent, job.kind \in {"none", "omlx"}, told
                 PROVE  /\ journal' # Unreadable
                        /\ \A k \in DOMAIN journal' :
                             LastTransition(k)' => journal'[k].after \in {Active, pointer.version}
      BY <2>1 DEF UpdInv, LastEventCurrent
    <3> QED
      BY <2>2 DEF LastEventCurrent
  <2>5. JobInv' /\ PointerInv' /\ BarrierInv' /\ ServingIsActive'
    BY <2>1 DEF UpdInv, JobInv, PointerInv, BarrierInv, BehindBarrier, ServingIsActive, Versions
  <2> QED
    BY <2>3, <2>4, <2>5 DEF UpdInv
<1>6. CASE CrashUpdates
  <2>1. /\ job' = NoJob /\ release' = 0 /\ serving' = {} /\ told' = FALSE
        /\ validation' = 0
        /\ mishaps' = mishaps + 1 /\ UNCHANGED <<upstream, directory, pointer, journal>>
    BY <1>6 DEF CrashUpdates
  <2>2. UpdTypeOK'
    <3>1. mishaps' \in Nat /\ release' \in 0..MaxVersion /\ validation' \in 0..MaxVersion
      BY <1>0, <2>1, UpdAssumption
    <3>3. told' \in BOOLEAN
      BY <2>1
    <3>2. job' \in JobType
      BY <2>1, UpdAssumption DEF NoJob, JobType
    <3> QED
      BY <1>0, <2>1, <3>1, <3>2, <3>3 DEF UpdTypeOK
  <2>3. JobInv' /\ PointerInv' /\ BarrierInv' /\ ServingIsActive' /\ LastEventCurrent'
    BY <1>0, <2>1 DEF UpdInv, JobInv, NoJob, PointerInv, BarrierInv, ServingIsActive,
                      LastEventCurrent
  <2> QED
    BY <2>2, <2>3 DEF UpdInv
<1>7. CASE Damage
  <2>1. /\ mishaps' = mishaps + 1 /\ told' = FALSE
        /\ UNCHANGED <<upstream, release, pointer, job, validation, serving>>
    BY <1>7 DEF Damage
  <2>2. /\ directory' \in [Versions -> {"absent", "complete", "damaged"}]
        /\ journal' \in Seq(Events)
    <3>1. Unreadable \in Seq(Events)
      BY UpdAssumption DEF Unreadable, Events, EventKinds
    <3> QED
      BY <1>0, <1>7, <3>1 DEF Damage
  <2>3. \A v \in Versions : /\ directory'[v] = "absent" <=> directory[v] = "absent"
                            /\ directory'[v] = "complete" => directory[v] = "complete"
    BY <1>0, <1>7 DEF Damage
  <2>4. UpdTypeOK'
    <3>1. mishaps' \in Nat
      BY <1>0, <2>1
    <3>2. told' \in BOOLEAN
      BY <2>1
    <3> QED
      BY <1>0, <2>1, <2>2, <3>1, <3>2 DEF UpdTypeOK
  <2>5. JobInv' /\ BarrierInv' /\ LastEventCurrent'
    BY <1>0, <2>1, <2>3 DEF UpdInv, JobInv, BarrierInv, BehindBarrier, LastEventCurrent
  <2>6. PointerInv'
    BY <1>0, <2>1, <2>3 DEF UpdInv, PointerInv, Versions
  <2>7. ServingIsActive'
    <3>1. Active' = Active \/ (Active' = 0 /\ Active = pointer.version)
      <4>1. CASE Loadable(pointer.version)'
        <5>1. Loadable(pointer.version)
          BY <2>1, <2>3, <4>1 DEF Loadable, Versions
        <5> QED
          BY <2>1, <4>1, <5>1 DEF Active
      <4>2. CASE ~Loadable(pointer.version)'
        <5>1. Active' = 0
          BY <4>2 DEF Active
        <5>2. Active \in {0, pointer.version}
          BY DEF Active
        <5> QED
          BY <5>1, <5>2
      <4> QED
        BY <4>1, <4>2
    <3> QED
      BY <2>1, <3>1 DEF UpdInv, ServingIsActive
  <2> QED
    BY <2>4, <2>5, <2>6, <2>7 DEF UpdInv
<1> QED
  BY <1>1, <1>2, <1>3, <1>4, <1>5, <1>6, <1>7, PrepareKeeps, StagedKeeps, BarrierKeeps DEF UpdNext

\* The invariant of the updates holds in every reachable state.
LEMMA UpdHolds == UpdSpec => []UpdInv
<1>1. UpdInit => UpdInv
  <2> SUFFICES ASSUME UpdInit
               PROVE  UpdInv
    OBVIOUS
  <2>1. UpdTypeOK
    BY UpdAssumption DEF UpdInit, UpdTypeOK, NoJob, JobType
  <2> QED
    BY <2>1 DEF UpdInit, UpdInv, JobInv, PointerInv, BarrierInv, BehindBarrier, ServingIsActive,
                LastEventCurrent, NoJob, Unreadable
<1>2. UpdInv /\ [UpdNext]_updVars => UpdInv'
  <2> SUFFICES ASSUME UpdInv, [UpdNext]_updVars
               PROVE  UpdInv'
    OBVIOUS
  <2>1. CASE UNCHANGED updVars
    BY <2>1 DEF updVars, UpdInv, UpdTypeOK, JobInv, PointerInv, BarrierInv, BehindBarrier,
                ServingIsActive, LastEventCurrent, LastTransition, Active, Loadable, Versions
  <2> QED
    BY <2>1, UpdateKeeps
<1> QED
  BY <1>1, <1>2, PTL DEF UpdSpec

\* An engine process runs the version that is active, or the one still pointed to whose
\* directory was damaged under it, through updates, rollbacks, failures and crashes:
\* the pointer moves only behind the barrier, and a directory is moved into place only
\* where there was none (activate, rollback and prepare of runtime_updates.py).
THEOREM EnginesServeActive == UpdSpec => []ServingIsActive
<1>1. UpdInv => ServingIsActive
  BY DEF UpdInv
<1> QED
  BY <1>1, UpdHolds, PTL

\* Whenever no update is in progress the journal's last transition names what is
\* active, and no validation, however late it is appended, hides that
\* (record_lifecycle around every ending of install and rollback, record_validation).
THEOREM JournalTellsTruth == UpdSpec => []JournalCurrent
<1>1. UpdInv => JournalCurrent
  BY DEF UpdInv, LastEventCurrent, JournalCurrent, NoJob
<1> QED
  BY <1>1, UpdHolds, PTL

\* No step of an update, a rollback or a crash leaves the service without a managed
\* runtime it had (the pointer is only ever replaced by one that loads).
THEOREM RuntimeKept == UpdSpec => UpdateKeepsRuntime
<1>1. ASSUME UpdInv, [UpdNext]_updVars
      PROVE  [Active # 0 => Active' # 0 \/ (directory' # directory /\ mishaps' # mishaps)]_updVars
  <2>0. /\ UpdTypeOK /\ mishaps \in Nat
        /\ directory \in [Versions -> {"absent", "complete", "damaged"}]
    BY <1>1 DEF UpdInv, UpdTypeOK
  <2> SUFFICES ASSUME UpdNext, Loadable(pointer.version)
               PROVE  Loadable(pointer.version)' \/ (directory' # directory /\ mishaps' # mishaps)
    <3>1. Active # 0 => Loadable(pointer.version)
      BY DEF Active
    <3>2. Loadable(pointer.version)' => Active' # 0
      BY DEF Active, Loadable, Versions
    <3> QED
      BY <1>1, <3>1, <3>2
  <2>1. CASE Activate
    BY <2>1 DEF Activate, Loadable
  <2>2. CASE Rollback
    BY <2>2 DEF Rollback, RollbackVersion, Loadable
  <2>3. CASE Staged
    BY <2>0, <2>3 DEF Staged, Loadable
  <2>4. CASE Damage
    <3>1. CASE UNCHANGED <<directory, pointer>>
      BY <3>1 DEF Loadable
    <3>2. CASE \E v \in Versions : /\ directory[v] = "complete"
                                    /\ directory' = [directory EXCEPT ![v] = "damaged"]
      BY <2>0, <2>4, <3>2 DEF Damage
    <3> QED
      BY <2>4, <3>1, <3>2 DEF Damage
  <2>5. CASE UNCHANGED <<directory, pointer>>
    BY <2>5 DEF Loadable
  <2> QED
    BY <2>1, <2>2, <2>3, <2>4, <2>5
       DEF UpdNext, Publish, CheckUpdates, RequestInstall, PrepareRefreshes, PrepareRejects,
           PrepareReuses, PrepareStages, StageFails, RequestRollback, RequestOmlx, Barrier,
           BarrierFails, OperationRaises, Verified, VerifyFails, RecordOutcome, OmlxRefused,
           OmlxStop, OmlxUpgrade, OmlxStart, OmlxStartFails, StartEngine, ReadValidation,
           RecordValidation, CrashUpdates
<1> QED
  BY <1>1, UpdHolds, PTL DEF UpdSpec, UpdateKeepsRuntime

-----------------------------------------------------------------------------
(* Requests and their usage                                                 *)

\* Deleting rows leaves a sequence of exactly the others.
LEMMA WithoutKeeps ==
  ASSUME NEW T, NEW rows \in Seq(T), NEW S
  PROVE  /\ Without(rows, S) \in Seq(T)
         /\ ToSet(Without(rows, S)) = ToSet(rows) \ S
<1> DEFINE kept  == {i \in DOMAIN rows : rows[i] \notin S}
           upto(i) == {k \in kept : k <= i}
           Place(i) == Cardinality(upto(i))
           n == Cardinality(kept)
           f == [i \in kept |-> Place(i)]
           left == [j \in 1..n |-> rows[CHOOSE i \in kept : Place(i) = j]]
<1>1. Without(rows, S) = left
  BY DEF Without
<1>2. kept \subseteq 1..Len(rows) /\ IsFiniteSet(kept) /\ n \in Nat
  <2>1. kept \in SUBSET (1..Len(rows)) /\ Len(rows) \in Nat
    OBVIOUS
  <2>2. IsFiniteSet(1..Len(rows))
    BY <2>1, FS_Interval
  <2> HIDE DEF kept
  <2> QED
    BY <2>1, <2>2, FS_Subset, FS_CardinalityType
<1> HIDE DEF kept
<1>3. \A i \in kept : Place(i) \in 1..n
  <2> SUFFICES ASSUME NEW i \in kept
               PROVE  Place(i) \in 1..n
    OBVIOUS
  <2>1. upto(i) \in SUBSET kept /\ i \in upto(i)
    BY <1>2
  <2> HIDE DEF upto
  <2>2. IsFiniteSet(upto(i)) /\ Place(i) <= n /\ Place(i) \in Nat
    BY <1>2, <2>1, FS_Subset, FS_CardinalityType
  <2>3. Place(i) # 0
    BY <2>1, <2>2, FS_EmptySet
  <2> HIDE DEF Place, n
  <2> QED
    BY <1>2, <2>2, <2>3
<1>4. \A i, j \in kept : Place(i) = Place(j) => i = j
  <2>1. ASSUME NEW i \in kept, NEW j \in kept, i < j
        PROVE  Place(i) # Place(j)
    <3>0. i \in Int /\ j \in Int /\ \A k \in kept : k \in Int
      BY <1>2
    <3>1. /\ upto(i) \in SUBSET upto(j) /\ j \in upto(j) /\ j \notin upto(i)
          /\ upto(j) \in SUBSET kept
      <4>1. \A k \in kept : k <= i => k <= j
        BY <2>1, <3>0
      <4>2. j <= j /\ ~(j <= i)
        BY <2>1, <3>0
      <4> QED
        BY <4>1, <4>2
    <3> HIDE DEF upto
    <3>2. IsFiniteSet(upto(j))
      BY <1>2, <3>1, FS_Subset
    <3> QED
      BY <3>1, <3>2, FS_Subset
  <2> HIDE DEF Place
  <2> QED
    BY <1>2, <2>1
<1> HIDE DEF Place
<1>0. Cardinality(kept) = n
  OBVIOUS
<1> HIDE DEF n
<1>5. \A j \in 1..n : \E i \in kept : Place(i) = j
  <2> SUFFICES ASSUME NEW j \in 1..n, \A i \in kept : Place(i) # j
               PROVE  FALSE
    OBVIOUS
  <2>1. PICK U : U = (1..n) \ {j}
    OBVIOUS
  <2>2. IsFiniteSet(1..n) /\ Cardinality(1..n) = n
    BY <1>2, FS_Interval
  <2>3. IsFiniteSet(U) /\ Cardinality(U) = n - 1
    BY <2>1, <2>2, FS_RemoveElement
  <2>4. Cardinality(U) < Cardinality(kept)
    BY <1>0, <1>2, <2>3
  <2>5. f \in [kept -> U]
    BY <1>3, <2>1
  <2>6. \A x, y \in kept : f[x] = f[y] => x = y
    BY <1>4
  <2> HIDE DEF f
  <2> QED
    BY <1>2, <2>3, <2>4, <2>5, <2>6, FS_PigeonHole
<1>6. \A j \in 1..n : \E i \in kept : left[j] = rows[i] /\ Place(i) = j
  BY <1>5
<1>7. \A i \in kept : \E j \in 1..n : left[j] = rows[i]
  <2> SUFFICES ASSUME NEW i \in kept
               PROVE  left[Place(i)] = rows[i]
    BY <1>3
  <2>1. (CHOOSE k \in kept : Place(k) = Place(i)) = i
    BY <1>4
  <2> QED
    BY <1>3, <2>1
<1>8. left \in [1..n -> T]
  <2>1. \A j \in 1..n : left[j] \in T
    BY <1>2, <1>6
  <2> QED
    BY <2>1
<1>9. left \in Seq(T) /\ DOMAIN left = 1..n
  <2> HIDE DEF left
  <2> QED
    BY <1>2, <1>8
<1> HIDE DEF left
<1>10. ToSet(left) = ToSet(rows) \ S
  <2>1. \A i \in kept : i \in DOMAIN rows /\ rows[i] \notin S
    BY DEF kept
  <2>2. \A i \in DOMAIN rows : rows[i] \notin S => i \in kept
    BY DEF kept
  <2>3. ASSUME NEW x \in ToSet(left)
        PROVE  x \in ToSet(rows) \ S
    <3>1. PICK j \in 1..n : x = left[j]
      BY <1>9, <2>3 DEF ToSet
    <3>2. PICK i \in kept : left[j] = rows[i]
      BY <1>6
    <3> QED
      BY <2>1, <3>1, <3>2 DEF ToSet
  <2>4. ASSUME NEW x \in ToSet(rows) \ S
        PROVE  x \in ToSet(left)
    <3>1. PICK i \in DOMAIN rows : x = rows[i]
      BY <2>4 DEF ToSet
    <3>2. PICK j \in 1..n : left[j] = rows[i]
      BY <1>7, <2>2, <2>4, <3>1
    <3> QED
      BY <1>9, <3>1, <3>2 DEF ToSet
  <2> QED
    BY <2>3, <2>4
<1> QED
  BY <1>1, <1>9, <1>10

\* A batch that was written is in PostgreSQL when it is acknowledged.
FlushType == [at : {"none", "write", "ack"}, rows : Seq(Reqs)]
OutboxInv ==
    /\ outbox \in Seq(Reqs) /\ flush \in FlushType
    /\ flush.at = "ack" => ToSet(flush.rows) \subseteq pg
    /\ EventAccounted

\* Dropping the oldest rows leaves a sequence, and loses only them.
LEMMA SuffixKeeps ==
  ASSUME NEW T, NEW q \in Seq(T), NEW d \in 0..Len(q)
  PROVE  /\ SubSeq(q, d + 1, Len(q)) \in Seq(T)
         /\ ToSet(q) \subseteq ToSet(SubSeq(q, d + 1, Len(q))) \union {q[i] : i \in 1..d}
<1> DEFINE u == SubSeq(q, d + 1, Len(q))
<1>1. u \in Seq(T) /\ Len(u) = Len(q) - d /\ \A i \in 1..(Len(q) - d) : u[i] = q[d + i]
  OBVIOUS
<1> HIDE DEF u
<1>2. ASSUME NEW i \in 1..Len(q), i > d
      PROVE  q[i] \in ToSet(u)
  <2>1. i - d \in 1..(Len(q) - d) /\ d + (i - d) = i
    BY <1>2
  <2>2. u[i - d] = q[i] /\ i - d \in DOMAIN u
    BY <1>1, <2>1
  <2> QED
    BY <2>2 DEF ToSet
<1>3. ASSUME NEW x \in ToSet(q)
      PROVE  x \in ToSet(u) \union {q[i] : i \in 1..d}
  <2>1. PICK i \in 1..Len(q) : x = q[i]
    BY <1>3 DEF ToSet
  <2>2. CASE i > d
    BY <1>2, <2>1, <2>2
  <2>3. CASE ~(i > d)
    BY <2>1, <2>3
  <2> QED
    BY <2>2, <2>3
<1> QED
  BY <1>1, <1>3 DEF u

\* Every stored event is in the outbox, delivered, or pruned as one of the oldest of a
\* full outbox, through lost answers, crashes and rows that come and go while a batch
\* is on its way (record_batch, prune_outbox, flush_once, ack_outbox).
THEOREM EventsAccounted == ReqSpec => []EventAccounted
<1>1. ReqInit => OutboxInv
  BY DEF ReqInit, OutboxInv, EventAccounted, FlushType, NoFlush
<1>2. OutboxInv /\ [ReqNext]_reqVars => OutboxInv'
  <2> SUFFICES ASSUME OutboxInv, [ReqNext]_reqVars
               PROVE  OutboxInv'
    OBVIOUS
  <2>0. /\ outbox \in Seq(Reqs) /\ flush \in FlushType /\ Len(outbox) \in Nat
        /\ analytics \subseteq ToSet(outbox) \union pg \union pruned
    BY DEF OutboxInv, EventAccounted
  <2>1. CASE UNCHANGED <<analytics, outbox, pg, pruned, flush>>
    BY <2>1 DEF OutboxInv, EventAccounted
  <2>2. ASSUME NEW r \in Reqs, Stores(r)
        PROVE  OutboxInv'
    <3>1. /\ analytics' = analytics \union {r} /\ UNCHANGED <<pg, pruned, flush>>
          /\ outbox' = IF r \in ToSet(outbox) THEN outbox ELSE Append(outbox, r)
      BY <2>2 DEF Stores
    <3>2. /\ Append(outbox, r) \in Seq(Reqs) /\ Len(Append(outbox, r)) = Len(outbox) + 1
          /\ Append(outbox, r)[Len(outbox) + 1] = r
          /\ \A i \in 1..Len(outbox) : Append(outbox, r)[i] = outbox[i]
      BY <2>0
    <3>3. ToSet(outbox) \union {r} \subseteq ToSet(Append(outbox, r))
      <4>1. Len(outbox) + 1 \in DOMAIN Append(outbox, r)
        BY <2>0, <3>2
      <4>2. DOMAIN outbox = 1..Len(outbox) /\ 1..Len(outbox) \subseteq DOMAIN Append(outbox, r)
        BY <2>0, <3>2
      <4> QED
        BY <3>2, <4>1, <4>2 DEF ToSet
    <3>4. outbox' \in Seq(Reqs) /\ ToSet(outbox) \union {r} \subseteq ToSet(outbox')
      BY <2>0, <3>1, <3>2, <3>3
    <3> QED
      BY <2>0, <3>1, <3>4 DEF OutboxInv, EventAccounted
  <2>3. CASE PrunesOutbox
    <3> DEFINE drop == IF Len(outbox) > OutboxRows THEN Len(outbox) - OutboxRows ELSE 0
    <3>1. /\ outbox' = SubSeq(outbox, drop + 1, Len(outbox))
          /\ pruned' = pruned \union {outbox[i] : i \in 1..drop}
          /\ UNCHANGED <<analytics, pg, flush>>
      BY <2>3 DEF PrunesOutbox
    <3>2. drop \in 0..Len(outbox)
      BY <2>0, ReqAssumption
    <3> HIDE DEF drop
    <3>3. /\ outbox' \in Seq(Reqs)
          /\ ToSet(outbox) \subseteq ToSet(outbox') \union {outbox[i] : i \in 1..drop}
      BY <2>0, <3>1, <3>2, SuffixKeeps
    <3> QED
      BY <2>0, <3>1, <3>3 DEF OutboxInv, EventAccounted
  <2>4. CASE Peek
    <3>1. UNCHANGED <<analytics, outbox, pg, pruned>> /\ flush'.at = "write"
      BY <2>4 DEF Peek
    <3>2. flush' \in FlushType
      <4> DEFINE b == IF Len(outbox) < BatchRows THEN Len(outbox) ELSE BatchRows
      <4>1. b \in 0..Len(outbox)
        BY <2>0, ReqAssumption
      <4>2. flush' = [at |-> "write", rows |-> SubSeq(outbox, 1, b)]
        BY <2>4 DEF Peek
      <4> HIDE DEF b
      <4>3. SubSeq(outbox, 1, b) \in Seq(Reqs)
        BY <2>0, <4>1
      <4> QED
        BY <4>2, <4>3 DEF FlushType
    <3> QED
      BY <2>0, <3>1, <3>2 DEF OutboxInv, EventAccounted
  <2>5. CASE WriteBatch
    <3>1. /\ UNCHANGED <<analytics, outbox, pruned>> /\ pg' = pg \union ToSet(flush.rows)
          /\ flush' \in FlushType /\ flush'.rows = flush.rows
      BY <2>0, <2>5 DEF WriteBatch, FlushType
    <3> QED
      BY <2>0, <3>1 DEF OutboxInv, EventAccounted
  <2>6. CASE FlushBreaks
    <3>1. UNCHANGED <<analytics, outbox, pruned>> /\ pg \subseteq pg' /\ flush' = NoFlush
      BY <2>6 DEF FlushBreaks
    <3> QED
      BY <2>0, <3>1 DEF OutboxInv, EventAccounted, NoFlush, FlushType
  <2>7. CASE Ack
    <3>1. /\ UNCHANGED <<analytics, pg, pruned>> /\ flush' = NoFlush /\ flush.at = "ack"
          /\ outbox' = Without(outbox, ToSet(flush.rows))
      BY <2>7 DEF Ack
    <3>2. outbox' \in Seq(Reqs) /\ ToSet(outbox') = ToSet(outbox) \ ToSet(flush.rows)
      BY <2>0, <3>1, WithoutKeeps
    <3>3. ToSet(flush.rows) \subseteq pg
      BY <3>1 DEF OutboxInv
    <3> QED
      BY <2>0, <3>1, <3>2, <3>3 DEF OutboxInv, EventAccounted, NoFlush, FlushType
  <2>8. CASE ProcessEnds
    <3>1. UNCHANGED <<analytics, outbox, pg, pruned>> /\ flush' = NoFlush
      BY <2>8 DEF ProcessEnds
    <3> QED
      BY <2>0, <3>1 DEF OutboxInv, EventAccounted, NoFlush, FlushType
  <2>9. ASSUME NEW r \in Reqs,
               \/ \E b \in BOOLEAN : \/ ReqArrives(r, b) \/ Headers(r, b)
                                     \/ StreamEnds(r, b) \/ BodyFails(r, b)
               \/ Admitted(r) \/ FallsBack(r) \/ GivesUp(r) \/ UsageSeen(r) \/ BodyRead(r)
               \/ BodyCancelled(r) \/ LateCall(r)
               \/ RecordUsage(r) \/ RecordFails(r) \/ Prune(r) \/ PruneSkipped(r)
               \/ ClosesUpstream(r) \/ ReturnsLease(r) \/ CleanedUp(r) \/ HandlerReturns(r)
        PROVE  OutboxInv'
    BY <2>1, <2>2, <2>3, <2>9
       DEF ReqArrives, Headers, StreamEnds, BodyFails, Admitted, FallsBack, GivesUp, UsageSeen,
           BodyRead, BodyCancelled, LateCall, RecordFails, Prune, PruneSkipped, RecordUsage,
           ClosesUpstream, ReturnsLease, CleanedUp, HandlerReturns, storeVars
  <2> QED
    BY <2>1, <2>2, <2>3, <2>4, <2>5, <2>6, <2>7, <2>8, <2>9
       DEF ReqNext, StopBegins, Drained, StoreCloses, reqVars
<1>3. OutboxInv => EventAccounted
  BY DEF OutboxInv
<1> QED
  BY <1>1, <1>2, <1>3, PTL DEF ReqSpec

-----------------------------------------------------------------------------
(* Usage and the stop of the service (MacRequests)                         *)

RequestStates == {"idle", "admit", "send", "stream", "body", "ending", "over"}
CleanupStates == {"none", "record", "prune", "close", "done"}

RequestType ==
    [at : RequestStates, lease : BOOLEAN, upstream : BOOLEAN, image : BOOLEAN,
     alternative : BOOLEAN, usage : BOOLEAN, failed : BOOLEAN, cleanup : CleanupStates,
     cut : BOOLEAN, thread : {"none", "record", "prune"}]

\* Before its response a request has reported nothing; while the engine answers it,
\* and until its usage is recorded, it holds its lease; and it gets past the record
\* only with the usage stored, lost to a failure or left to a thread.
ResponseOrder(r) ==
    /\ req[r].at \in {"idle", "admit", "send"} => ~req[r].usage
    /\ req[r].at = "body" /\ req[r].cleanup = "none" => ~req[r].usage
    /\ req[r].at \in {"send", "stream", "body"} /\ req[r].cleanup = "none" => req[r].lease
    /\ req[r].at \in {"idle", "admit", "send", "stream"} => req[r].cleanup = "none"
    /\ req[r].at \in {"ending", "over"} => req[r].cleanup # "none"
    /\ req[r].cleanup = "record" => req[r].lease
    /\ /\ req[r].cleanup \in {"prune", "close", "done"}
       /\ req[r].usage /\ ~req[r].cut
       => r \in analytics \union excused

\* Past the drain of a stop, whoever still has a lease was given up on.
DrainedOrExcused(r) ==
    /\ node \in {"closing", "down"}
    /\ req[r].lease
    => r \in excused

StopInv ==
    /\ req \in [Reqs -> RequestType]
    /\ automatic \in BOOLEAN
    /\ node \in {"up", "stopping", "closing", "down"}
    /\ \A r \in Reqs : ResponseOrder(r) /\ DrainedOrExcused(r)

\* A step that leaves the requests, the store and the drain as they are
LEMMA StopInvStutters ==
  ASSUME StopInv, UNCHANGED <<req, automatic, analytics, node, excused>>
  PROVE  StopInv'
BY DEF StopInv, ResponseOrder, DrainedOrExcused

\* A step of one request: what holds of the others stays, as long as nothing
\* leaves the store or the list of what was excused.
LEMMA StopInvOneRequest ==
  ASSUME StopInv, NEW r \in Reqs, NEW new \in RequestType,
         Changed(r, new), automatic' \in BOOLEAN, node' = node,
         analytics \subseteq analytics', excused \subseteq excused',
         new.at \in {"idle", "admit", "send"} => ~new.usage,
         new.at = "body" /\ new.cleanup = "none" => ~new.usage,
         new.at \in {"send", "stream", "body"} /\ new.cleanup = "none" => new.lease,
         new.at \in {"idle", "admit", "send", "stream"} => new.cleanup = "none",
         new.at \in {"ending", "over"} => new.cleanup # "none",
         new.cleanup = "record" => new.lease,
         /\ new.cleanup \in {"prune", "close", "done"}
         /\ new.usage /\ ~new.cut
         => r \in analytics' \union excused',
         /\ node \in {"closing", "down"}
         /\ new.lease
         => r \in excused'
  PROVE  StopInv'
<1>1. req' \in [Reqs -> RequestType]
  BY DEF StopInv, Changed
<1>2. req'[r] = new /\ \A s \in Reqs \ {r} : req'[s] = req[s]
  BY DEF StopInv, Changed
<1>3. ResponseOrder(r)' /\ DrainedOrExcused(r)'
  BY <1>2 DEF ResponseOrder, DrainedOrExcused
<1>4. ASSUME NEW s \in Reqs \ {r} PROVE ResponseOrder(s)' /\ DrainedOrExcused(s)'
  <2>1. req'[s] = req[s] /\ ResponseOrder(s) /\ DrainedOrExcused(s)
    BY <1>2 DEF StopInv
  <2> QED
    BY <2>1 DEF ResponseOrder, DrainedOrExcused
<1> QED
  BY <1>1, <1>3, <1>4 DEF StopInv

\* What a request has when it holds
LEMMA RequestFacts ==
  ASSUME StopInv, NEW r \in Reqs
  PROVE  /\ req[r] \in RequestType
         /\ ResponseOrder(r) /\ DrainedOrExcused(r)
         /\ automatic \in BOOLEAN
         /\ \A b \in BOOLEAN : EvidenceAfter(r, b) \in BOOLEAN
BY DEF StopInv, EvidenceAfter, RequestType

\* Admission and the answer of the engine keep the order.
LEMMA AnswerKeepsOrder ==
  ASSUME StopInv, NEW r \in Reqs, NEW b \in BOOLEAN,
         \/ ReqArrives(r, b) \/ Headers(r, b) \/ StreamEnds(r, b) \/ BodyFails(r, b)
         \/ Admitted(r) \/ FallsBack(r) \/ GivesUp(r) \/ UsageSeen(r) \/ BodyRead(r)
  PROVE  StopInv'
<1>0. /\ req[r] \in RequestType /\ ResponseOrder(r) /\ DrainedOrExcused(r)
      /\ automatic \in BOOLEAN /\ \A c \in BOOLEAN : EvidenceAfter(r, c) \in BOOLEAN
  BY RequestFacts
<1>1. CASE ReqArrives(r, b)
  <2>1. PICK alternative \in {FALSE, automatic /\ ~b} :
           Changed(r, [NewReq EXCEPT !.at = "admit", !.image = b, !.alternative = alternative])
    BY <1>1 DEF ReqArrives
  <2> DEFINE new == [NewReq EXCEPT !.at = "admit", !.image = b, !.alternative = alternative]
  <2>2. alternative \in BOOLEAN
    BY <2>1, <1>0
  <2>3. /\ new \in RequestType /\ new.at = "admit" /\ ~new.usage /\ ~new.lease
        /\ new.cleanup = "none"
    BY <2>2 DEF NewReq, RequestType, RequestStates, CleanupStates
  <2>4. Changed(r, new) /\ UNCHANGED <<automatic, storeVars>>
    BY <1>1, <2>1 DEF ReqArrives
  <2> HIDE DEF new
  <2> QED
    BY <1>0, <2>3, <2>4, StopInvOneRequest DEF storeVars
<1>2. CASE Headers(r, b)
  <2> DEFINE new == [req[r] EXCEPT !.at = IF b THEN "stream" ELSE "body", !.upstream = TRUE]
  <2>1. req[r].at = "send" /\ Changed(r, new) /\ UNCHANGED storeVars
    BY <1>2 DEF Headers
  <2>2. automatic' \in BOOLEAN
    BY <1>0, <1>2 DEF Headers
  <2>3. /\ new \in RequestType /\ new.at \in {"stream", "body"}
        /\ new.usage = req[r].usage /\ new.lease = req[r].lease
        /\ new.cleanup = req[r].cleanup
    BY <1>0 DEF RequestType, RequestStates
  <2>4. ~req[r].usage /\ req[r].lease /\ req[r].cleanup = "none"
    BY <1>0, <2>1 DEF ResponseOrder
  <2> HIDE DEF new
  <2> QED
    BY <1>0, <2>1, <2>2, <2>3, <2>4, StopInvOneRequest DEF storeVars, DrainedOrExcused
<1>3. CASE StreamEnds(r, b)
  <2>1. PICK failed \in {b, TRUE} :
           Changed(r, [req[r] EXCEPT !.at = "ending", !.alternative = FALSE,
                               !.failed = failed, !.cleanup = "record"])
    BY <1>3 DEF StreamEnds
  <2> DEFINE new == [req[r] EXCEPT !.at = "ending", !.alternative = FALSE,
                               !.failed = failed, !.cleanup = "record"]
  <2>2. failed \in BOOLEAN
    BY <2>1
  <2>3. /\ new \in RequestType /\ new.at = "ending" /\ new.cleanup = "record"
        /\ new.usage = req[r].usage /\ new.lease = req[r].lease
    BY <1>0, <2>2 DEF RequestType, RequestStates, CleanupStates
  <2>4. req[r].at = "stream" /\ Changed(r, new) /\ UNCHANGED storeVars /\ automatic' \in BOOLEAN
    BY <1>0, <1>3, <2>1 DEF StreamEnds
  <2>5. req[r].lease
    BY <1>0, <2>4 DEF ResponseOrder
  <2> HIDE DEF new
  <2> QED
    BY <1>0, <2>3, <2>4, <2>5, StopInvOneRequest DEF storeVars, DrainedOrExcused
<1>4. CASE BodyFails(r, b)
  <2> DEFINE new == [req[r] EXCEPT !.at = "ending", !.alternative = FALSE,
                               !.failed = TRUE, !.cleanup = "close"]
  <2>1. /\ req[r].at = "body" /\ req[r].cleanup = "none" /\ Changed(r, new)
        /\ UNCHANGED storeVars /\ automatic' \in BOOLEAN
    BY <1>0, <1>4 DEF BodyFails
  <2>2. /\ new \in RequestType /\ new.at = "ending" /\ new.cleanup = "close"
        /\ new.usage = req[r].usage /\ new.lease = req[r].lease
    BY <1>0 DEF RequestType, RequestStates, CleanupStates
  <2>3. ~req[r].usage
    BY <1>0, <2>1 DEF ResponseOrder
  <2> HIDE DEF new
  <2> QED
    BY <1>0, <2>1, <2>2, <2>3, StopInvOneRequest DEF storeVars, DrainedOrExcused
<1>5. CASE Admitted(r)
  <2> DEFINE new == [req[r] EXCEPT !.at = "send", !.lease = TRUE]
  <2>1. /\ req[r].at = "admit" /\ node = "up"
        /\ Changed(r, new) /\ UNCHANGED <<automatic, storeVars>>
    BY <1>5 DEF Admitted
  <2>2. /\ new \in RequestType /\ new.at = "send" /\ new.lease
        /\ new.usage = req[r].usage /\ new.cleanup = req[r].cleanup
    BY <1>0 DEF RequestType, RequestStates
  <2>3. ~req[r].usage /\ req[r].cleanup = "none"
    BY <1>0, <2>1 DEF ResponseOrder
  <2> HIDE DEF new
  <2> QED
    BY <1>0, <2>1, <2>2, <2>3, StopInvOneRequest DEF storeVars
<1>6. CASE FallsBack(r)
  <2> DEFINE new == [req[r] EXCEPT !.alternative = FALSE]
  <2>1. req[r].at = "admit" /\ Changed(r, new) /\ UNCHANGED storeVars /\ automatic' \in BOOLEAN
    BY <1>0, <1>6 DEF FallsBack
  <2>2. /\ new \in RequestType /\ new.at = req[r].at /\ new.lease = req[r].lease
        /\ new.usage = req[r].usage /\ new.cleanup = req[r].cleanup
    BY <1>0 DEF RequestType
  <2> HIDE DEF new
  <2> QED
    BY <1>0, <2>1, <2>2, StopInvOneRequest DEF storeVars, ResponseOrder, DrainedOrExcused
<1>7. CASE GivesUp(r)
  <2> DEFINE new == [req[r] EXCEPT !.at = "ending", !.alternative = FALSE,
                               !.failed = TRUE, !.cleanup = "close"]
  <2>1. /\ req[r].at \in {"admit", "send"} /\ Changed(r, new) /\ UNCHANGED storeVars
        /\ automatic' \in BOOLEAN
    BY <1>0, <1>7 DEF GivesUp
  <2>2. /\ new \in RequestType /\ new.at = "ending" /\ new.cleanup = "close"
        /\ new.usage = req[r].usage /\ new.lease = req[r].lease
    BY <1>0 DEF RequestType, RequestStates, CleanupStates
  <2>3. ~req[r].usage
    BY <1>0, <2>1 DEF ResponseOrder
  <2> HIDE DEF new
  <2> QED
    BY <1>0, <2>1, <2>2, <2>3, StopInvOneRequest DEF storeVars, DrainedOrExcused
<1>8. CASE UsageSeen(r)
  <2> DEFINE new == [req[r] EXCEPT !.usage = TRUE]
  <2>1. req[r].at = "stream" /\ Changed(r, new) /\ UNCHANGED <<automatic, storeVars>>
    BY <1>8 DEF UsageSeen
  <2>2. /\ new \in RequestType /\ new.at = req[r].at /\ new.lease = req[r].lease
        /\ new.cleanup = req[r].cleanup
    BY <1>0 DEF RequestType
  <2>3. req[r].lease /\ req[r].cleanup = "none"
    BY <1>0, <2>1 DEF ResponseOrder
  <2> HIDE DEF new
  <2> QED
    BY <1>0, <2>1, <2>2, <2>3, StopInvOneRequest DEF storeVars, DrainedOrExcused
<1>9. CASE BodyRead(r)
  <2>1. PICK usage \in {FALSE, ~req[r].image} :
           Changed(r, [req[r] EXCEPT !.usage = usage, !.cleanup = "record", !.alternative = FALSE])
    BY <1>9 DEF BodyRead
  <2> DEFINE new == [req[r] EXCEPT !.usage = usage, !.cleanup = "record", !.alternative = FALSE]
  <2>2. usage \in BOOLEAN
    BY <2>1
  <2>4. /\ req[r].at = "body" /\ req[r].cleanup = "none"
        /\ Changed(r, new) /\ UNCHANGED <<automatic, storeVars>>
    BY <1>9, <2>1 DEF BodyRead
  <2>3. /\ new \in RequestType /\ new.at = "body" /\ new.cleanup = "record"
        /\ new.lease = req[r].lease
    BY <1>0, <2>2, <2>4 DEF RequestType, RequestStates, CleanupStates
  <2>5. req[r].lease
    BY <1>0, <2>4 DEF ResponseOrder
  <2> HIDE DEF new
  <2> QED
    BY <1>0, <2>3, <2>4, <2>5, StopInvOneRequest DEF storeVars, DrainedOrExcused
<1> QED
  BY <1>1, <1>2, <1>3, <1>4, <1>5, <1>6, <1>7, <1>8, <1>9

\* The clean-up keeps the order: it records, or says it could not, before it
\* gives the lease back.
LEMMA CleanupKeepsOrder ==
  ASSUME StopInv, NEW r \in Reqs,
         \/ RecordUsage(r) \/ RecordFails(r) \/ Prune(r) \/ PruneSkipped(r)
         \/ ClosesUpstream(r) \/ ReturnsLease(r) \/ CleanedUp(r) \/ HandlerReturns(r)
         \/ BodyCancelled(r) \/ LateCall(r)
  PROVE  StopInv'
<1>0. /\ req[r] \in RequestType /\ ResponseOrder(r) /\ DrainedOrExcused(r)
      /\ automatic \in BOOLEAN
  BY RequestFacts
<1>1. CASE RecordUsage(r)
  <2> DEFINE new == [req[r] EXCEPT !.cleanup = IF req[r].usage THEN "prune" ELSE "close"]
  <2>1. /\ req[r].cleanup = "record" /\ Changed(r, new)
        /\ UNCHANGED <<automatic, node, excused>>
        /\ analytics \subseteq analytics' /\ (req[r].usage => r \in analytics')
    BY <1>1 DEF RecordUsage, Stores, storeVars
  <2>2. /\ new \in RequestType /\ new.at = req[r].at /\ new.cleanup \in {"prune", "close"}
        /\ new.usage = req[r].usage /\ new.lease = req[r].lease
        /\ new.cut = req[r].cut
    BY <1>0 DEF RequestType, CleanupStates
  <2>3. new.at \notin {"idle", "admit", "send", "stream"}
    BY <1>0, <2>1, <2>2 DEF ResponseOrder
  <2> HIDE DEF new
  <2> QED
    BY <1>0, <2>1, <2>2, <2>3, StopInvOneRequest DEF DrainedOrExcused
<1>2. CASE RecordFails(r)
  <2> DEFINE new == [req[r] EXCEPT !.cleanup = "close"]
  <2>1. /\ req[r].cleanup = "record" /\ Changed(r, new)
        /\ UNCHANGED <<automatic, analytics, node>>
    BY <1>2 DEF RecordFails
  <2>2. /\ new \in RequestType /\ new.at = req[r].at /\ new.cleanup = "close"
        /\ new.usage = req[r].usage /\ new.lease = req[r].lease
        /\ new.cut = req[r].cut
    BY <1>0 DEF RequestType, CleanupStates
  <2>3. new.at \notin {"idle", "admit", "send", "stream"} /\ req[r].lease
    BY <1>0, <2>1, <2>2 DEF ResponseOrder
  <2>4. excused \subseteq excused' /\ r \in excused'
    BY <1>0, <1>2, <2>3 DEF RecordFails, StoreOpen, DrainedOrExcused
  <2> HIDE DEF new
  <2> QED
    BY <1>0, <2>1, <2>2, <2>3, <2>4, StopInvOneRequest
<1>3. CASE Prune(r) \/ PruneSkipped(r)
  <2> DEFINE new == [req[r] EXCEPT !.cleanup = "close"]
  <2>1. /\ req[r].cleanup = "prune" /\ Changed(r, new)
        /\ UNCHANGED <<automatic, analytics, node, excused>>
    BY <1>3 DEF Prune, PrunesOutbox, PruneSkipped, storeVars
  <2>2. /\ new \in RequestType /\ new.at = req[r].at /\ new.cleanup = "close"
        /\ new.usage = req[r].usage /\ new.lease = req[r].lease
        /\ new.cut = req[r].cut
    BY <1>0 DEF RequestType, CleanupStates
  <2> HIDE DEF new
  <2> QED
    BY <1>0, <2>1, <2>2, StopInvOneRequest DEF ResponseOrder, DrainedOrExcused
<1>4. CASE ClosesUpstream(r)
  <2> DEFINE new == [req[r] EXCEPT !.upstream = FALSE]
  <2>1. Changed(r, new) /\ UNCHANGED <<automatic, storeVars>>
    BY <1>4 DEF ClosesUpstream
  <2>2. /\ new \in RequestType /\ new.at = req[r].at /\ new.cleanup = req[r].cleanup
        /\ new.usage = req[r].usage /\ new.lease = req[r].lease
        /\ new.cut = req[r].cut
    BY <1>0 DEF RequestType
  <2> HIDE DEF new
  <2> QED
    BY <1>0, <2>1, <2>2, StopInvOneRequest DEF ResponseOrder, DrainedOrExcused, storeVars
<1>5. CASE ReturnsLease(r)
  <2> DEFINE new == [req[r] EXCEPT !.lease = FALSE]
  <2>1. req[r].cleanup = "close" /\ Changed(r, new) /\ UNCHANGED <<automatic, storeVars>>
    BY <1>5 DEF ReturnsLease
  <2>2. /\ new \in RequestType /\ new.at = req[r].at /\ new.cleanup = req[r].cleanup
        /\ new.usage = req[r].usage /\ ~new.lease /\ new.cut = req[r].cut
    BY <1>0 DEF RequestType
  <2> HIDE DEF new
  <2> QED
    BY <1>0, <2>1, <2>2, StopInvOneRequest DEF ResponseOrder, DrainedOrExcused, storeVars
<1>6. CASE CleanedUp(r)
  <2> DEFINE new == [req[r] EXCEPT !.cleanup = "done"]
  <2>1. req[r].cleanup = "close" /\ Changed(r, new) /\ UNCHANGED <<automatic, storeVars>>
    BY <1>6 DEF CleanedUp
  <2>2. /\ new \in RequestType /\ new.at = req[r].at /\ new.cleanup = "done"
        /\ new.usage = req[r].usage /\ new.lease = req[r].lease
        /\ new.cut = req[r].cut
    BY <1>0 DEF RequestType, CleanupStates
  <2> HIDE DEF new
  <2> QED
    BY <1>0, <2>1, <2>2, StopInvOneRequest DEF ResponseOrder, DrainedOrExcused, storeVars
<1>7. CASE HandlerReturns(r)
  <2> DEFINE new == [req[r] EXCEPT !.at = "over"]
  <2>1. /\ req[r].cleanup \in {"close", "done"} /\ Changed(r, new)
        /\ UNCHANGED <<automatic, storeVars>>
    BY <1>7 DEF HandlerReturns
  <2>2. /\ new \in RequestType /\ new.at = "over" /\ new.cleanup = req[r].cleanup
        /\ new.usage = req[r].usage /\ new.lease = req[r].lease
        /\ new.cut = req[r].cut
    BY <1>0 DEF RequestType, RequestStates
  <2> HIDE DEF new
  <2> QED
    BY <1>0, <2>1, <2>2, StopInvOneRequest DEF ResponseOrder, DrainedOrExcused, storeVars
<1>8. CASE BodyCancelled(r)
  <2>1. PICK call \in {"none", req[r].cleanup} :
           Changed(r, [req[r] EXCEPT !.at = "ending", !.alternative = FALSE,
                               !.failed = TRUE, !.cleanup = "close",
                                     !.cut = (@ \/ req[r].cleanup = "record"), !.thread = call])
    BY <1>8 DEF BodyCancelled
  <2> DEFINE new == [req[r] EXCEPT !.at = "ending", !.alternative = FALSE,
                               !.failed = TRUE, !.cleanup = "close",
                                   !.cut = (@ \/ req[r].cleanup = "record"), !.thread = call]
  <2>2. /\ req[r].usage /\ req[r].cleanup \in {"record", "prune"}
        /\ Changed(r, new) /\ UNCHANGED <<automatic, storeVars>>
    BY <1>8, <2>1 DEF BodyCancelled
  <2>3. call \in {"none", "record", "prune"}
    BY <2>1, <2>2
  <2>4. /\ new \in RequestType /\ new.at = "ending" /\ new.cleanup = "close"
        /\ new.usage = req[r].usage /\ new.lease = req[r].lease
        /\ new.cut = (req[r].cut \/ req[r].cleanup = "record")
    BY <1>0, <2>3 DEF RequestType, RequestStates, CleanupStates
  <2>5. ~new.cut => r \in analytics \union excused
    BY <1>0, <2>2, <2>4 DEF ResponseOrder
  <2> HIDE DEF new
  <2> QED
    BY <1>0, <2>2, <2>4, <2>5, StopInvOneRequest DEF DrainedOrExcused, storeVars
<1>9. CASE LateCall(r)
  <2> DEFINE new == [req[r] EXCEPT !.thread = "none"]
  <2>1. Changed(r, new) /\ UNCHANGED <<automatic, node, excused>> /\ analytics \subseteq analytics'
    BY <1>9 DEF LateCall, Stores, PrunesOutbox, storeVars
  <2>2. /\ new \in RequestType /\ new.at = req[r].at /\ new.cleanup = req[r].cleanup
        /\ new.usage = req[r].usage /\ new.lease = req[r].lease
        /\ new.cut = req[r].cut
    BY <1>0 DEF RequestType
  <2> HIDE DEF new
  <2> QED
    BY <1>0, <2>1, <2>2, StopInvOneRequest DEF ResponseOrder, DrainedOrExcused
<1> QED
  BY <1>1, <1>2, <1>3, <1>4, <1>5, <1>6, <1>7, <1>8, <1>9

\* A service that stops in good order loses no usage: with the store closed, what a
\* response reported is stored, or its own write failed, or the drain gave up on it, or
\* its request was not streamed and was cancelled in the middle of the write
\* (app.py:473, app.py:968, runtime.py:699).  Otherwise the order ties the lease to the
\* record, and the drain of the leases ties the record to the stop.
THEOREM UsageOutlivesStop == ReqSpec => []StopKeepsUsage
<1>1. ReqInit => StopInv
  BY DEF ReqInit, StopInv, ResponseOrder, DrainedOrExcused, NewReq, RequestType,
         RequestStates, CleanupStates
<1>2. StopInv => StopKeepsUsage
  <2> SUFFICES ASSUME StopInv, node = "down", NEW r \in Reqs, req[r].usage, ~req[r].cut
               PROVE  r \in analytics \union excused
    BY DEF StopKeepsUsage
  <2>1. req[r] \in RequestType /\ ResponseOrder(r) /\ DrainedOrExcused(r)
    BY RequestFacts
  <2> QED
    BY <2>1 DEF ResponseOrder, DrainedOrExcused, RequestType, RequestStates, CleanupStates
<1>3. StopInv /\ [ReqNext]_reqVars => StopInv'
  <2> SUFFICES ASSUME StopInv, [ReqNext]_reqVars PROVE StopInv'
    OBVIOUS
  <2>1. CASE UNCHANGED reqVars \/ Peek \/ WriteBatch \/ FlushBreaks \/ Ack
    BY <2>1, StopInvStutters DEF reqVars, Peek, WriteBatch, FlushBreaks, Ack
  <2>2. CASE StopBegins
    BY <2>2 DEF StopBegins, StopInv, ResponseOrder, DrainedOrExcused
  <2>3. CASE Drained
    <3>1. /\ UNCHANGED <<req, automatic, analytics>> /\ node' = "closing"
          /\ excused \subseteq excused' /\ \A r \in Reqs : req[r].lease => r \in excused'
      BY <2>3 DEF Drained
    <3> QED
      BY <3>1 DEF StopInv, ResponseOrder, DrainedOrExcused
  <2>4. CASE StoreCloses
    BY <2>4 DEF StoreCloses, StopInv, ResponseOrder, DrainedOrExcused
  <2>5. CASE ProcessEnds
    <3>1. /\ UNCHANGED <<automatic, analytics>> /\ node' = "up"
          /\ \A r \in Reqs : req[r].usage /\ ~req[r].cut => r \in analytics \union excused'
      <4>1. CASE node = "down"
        BY <2>5, <4>1, <1>2 DEF ProcessEnds, StopKeepsUsage
      <4>2. CASE node # "down"
        <5>1. excused' = excused \union {r \in Reqs : req[r].at # "idle"}
          BY <2>5, <4>2 DEF ProcessEnds
        <5>2. \A r \in Reqs : req[r].usage => req[r].at # "idle"
          BY DEF StopInv, ResponseOrder
        <5> QED
          BY <2>5, <5>1, <5>2 DEF ProcessEnds
      <4> QED
        BY <4>1, <4>2
    <3>2. req' = [r \in Reqs |-> IF req[r].at = "idle" THEN NewReq
                    ELSE [NewReq EXCEPT !.at = "over", !.cleanup = "done",
                                        !.usage = req[r].usage, !.cut = req[r].cut]]
      BY <2>5 DEF ProcessEnds
    <3>3. ASSUME NEW r \in Reqs
          PROVE  req'[r] \in RequestType /\ ResponseOrder(r)' /\ DrainedOrExcused(r)'
      <4>1. req[r] \in RequestType
        BY RequestFacts
      <4>2. CASE req[r].at = "idle"
        BY <3>1, <3>2, <4>2 DEF NewReq, RequestType, RequestStates, CleanupStates,
           ResponseOrder, DrainedOrExcused
      <4>3. CASE req[r].at # "idle"
        <5>1. /\ req'[r] \in RequestType /\ req'[r].at = "over" /\ req'[r].cleanup = "done"
              /\ ~req'[r].lease /\ req'[r].usage = req[r].usage /\ req'[r].cut = req[r].cut
          <6> DEFINE fresh == [NewReq EXCEPT !.at = "over", !.cleanup = "done",
                                             !.usage = req[r].usage, !.cut = req[r].cut]
          <6>1. req'[r] = fresh
            BY <3>2, <4>3
          <6>2. req[r].usage \in BOOLEAN /\ req[r].cut \in BOOLEAN
            BY <4>1 DEF RequestType
          <6>3. /\ fresh \in RequestType /\ fresh.at = "over" /\ fresh.cleanup = "done"
                /\ ~fresh.lease /\ fresh.usage = req[r].usage /\ fresh.cut = req[r].cut
            BY <6>2 DEF NewReq, RequestType, RequestStates, CleanupStates
          <6> HIDE DEF fresh
          <6> QED
            BY <6>1, <6>3
        <5> QED
          BY <3>1, <5>1 DEF ResponseOrder, DrainedOrExcused
      <4> QED
        BY <4>2, <4>3
    <3>4. req' \in [Reqs -> RequestType]
      BY <3>2, <3>3
    <3> QED
      BY <3>1, <3>3, <3>4 DEF StopInv
  <2>6. ASSUME NEW r \in Reqs, NEW b \in BOOLEAN,
               \/ ReqArrives(r, b) \/ Headers(r, b) \/ StreamEnds(r, b) \/ BodyFails(r, b)
        PROVE  StopInv'
    BY <2>6, AnswerKeepsOrder
  <2>7. ASSUME NEW r \in Reqs,
               \/ Admitted(r) \/ FallsBack(r) \/ GivesUp(r) \/ UsageSeen(r) \/ BodyRead(r)
        PROVE  StopInv'
    BY <2>7, AnswerKeepsOrder, TRUE \in BOOLEAN
  <2>8. ASSUME NEW r \in Reqs,
               \/ RecordUsage(r) \/ RecordFails(r) \/ Prune(r) \/ PruneSkipped(r)
               \/ ClosesUpstream(r) \/ ReturnsLease(r) \/ CleanedUp(r) \/ HandlerReturns(r)
               \/ BodyCancelled(r) \/ LateCall(r)
        PROVE  StopInv'
    BY <2>8, CleanupKeepsOrder
  <2> QED
    BY <2>1, <2>2, <2>3, <2>4, <2>5, <2>6, <2>7, <2>8 DEF ReqNext
<1> QED
  BY <1>1, <1>2, <1>3, PTL DEF ReqSpec

-----------------------------------------------------------------------------
(* The ledger and the configuration (MacLibrary)                           *)

InstallStatuses ==
    InstallActive \union {"failed", "cancelled", "partial", "downloaded", "installed", "deleted"}
LedgerRow ==
    [alias : LibAliases, file : LibFiles, status : InstallStatuses, hidden : BOOLEAN]
RetryType == [id : 1..MaxInstalls, next : {"queued", "registering"}]
AnyFile == LibFiles \union LocalFiles
ConfigType == [models : SUBSET (LibAliases \X AnyFile), engines : {"on", "off"}]

LedgerTypeOK ==
    /\ installs \in Seq(LedgerRow) /\ Len(installs) <= MaxInstalls
    /\ tasks \in [1..MaxInstalls -> {"none", "new", "lane", "spawn", "fetch", "register",
                                     "written", "closing"}]
    /\ retrying \in Seq(RetryType)
ConfigTypeOK ==
    /\ files \subseteq AnyFile /\ strays \subseteq LibFiles /\ scan \subseteq AnyFile
    /\ saved \in ConfigType

LibInv == LedgerTypeOK /\ ConfigTypeOK /\ RowOwned

\* Settling a status, and recovering it at the start, leave none that waits
\* for a task.
LEMMA SettledIsInactive ==
  ASSUME NEW s \in InstallStatuses
  PROVE  /\ Settled(s) \in InstallStatuses \ InstallActive
         /\ Recovered(s) \in InstallStatuses \ InstallActive
BY DEF Settled, Recovered, InstallStatuses, InstallActive

\* A row of the ledger has the type of one.
LEMMA RowAt ==
  ASSUME LedgerTypeOK, NEW i \in DOMAIN installs
  PROVE  /\ installs[i] \in LedgerRow
         /\ installs[i].alias \in LibAliases /\ installs[i].file \in LibFiles
         /\ installs[i].status \in InstallStatuses
<1>1. installs[i] \in LedgerRow
  BY DEF LedgerTypeOK
<1> QED
  BY <1>1 DEF LedgerRow

\* One row gets a new status and one task moves on: the ledger keeps its
\* type, and its rows their owners, if that row has a task or is settled.
LEMMA OneRowStep ==
  ASSUME LedgerTypeOK, RowOwned, NEW i \in DOMAIN installs,
         NEW s \in InstallStatuses,
         NEW pc \in {"none", "new", "lane", "spawn", "fetch", "register", "written", "closing"},
         SetStatus(i, s), TaskGoes(i, pc), libUp' = libUp,
         retrying' \in Seq(RetryType),
         \A j \in abandoned : j = i \/ j \in abandoned',
         \/ pc # "none" \/ i \in abandoned' \/ s \notin InstallActive
  PROVE  LedgerTypeOK' /\ RowOwned'
<1>1. installs' \in Seq(LedgerRow) /\ Len(installs') = Len(installs)
  <2>1. [installs[i] EXCEPT !.status = s] \in LedgerRow
    BY RowAt DEF LedgerRow
  <2>2. installs' = [installs EXCEPT ![i] = [installs[i] EXCEPT !.status = s]]
    BY DEF SetStatus
  <2> QED
    BY <2>1, <2>2 DEF LedgerTypeOK
<1>2. DOMAIN installs' = DOMAIN installs /\ i \in 1..MaxInstalls
  BY <1>1, LibAssumption DEF LedgerTypeOK
<1>3. installs'[i].status = s /\ \A j \in DOMAIN installs \ {i} : installs'[j] = installs[j]
  <2>1. installs[i] \in LedgerRow
    BY DEF LedgerTypeOK
  <2> QED
    BY <2>1, <1>2 DEF LedgerTypeOK, SetStatus, LedgerRow
<1>4. tasks'[i] = pc /\ \A j \in DOMAIN installs \ {i} : tasks'[j] = tasks[j]
  BY <1>2, LibAssumption DEF LedgerTypeOK, TaskGoes
<1>5. LedgerTypeOK'
  BY <1>1, <1>2 DEF LedgerTypeOK, TaskGoes
<1>6. RowOwned'
  <2> SUFFICES ASSUME libUp', NEW j \in DOMAIN installs, LibStatus(j)' \in InstallActive
               PROVE  (tasks[j] # "none" \/ j \in abandoned)'
    BY <1>2 DEF RowOwned
  <2>1. CASE j = i
    BY <2>1, <1>3, <1>4 DEF LibStatus
  <2>2. CASE j # i
    BY <2>2, <1>3, <1>4 DEF LibStatus, RowOwned
  <2> QED
    BY <2>1, <2>2
<1> QED
  BY <1>5, <1>6

\* A task moves on and its row stays as it is
LEMMA TaskStep ==
  ASSUME LedgerTypeOK, RowOwned, NEW i \in DOMAIN installs,
         NEW pc \in {"none", "new", "lane", "spawn", "fetch", "register", "written", "closing"},
         UNCHANGED <<installs, retrying>>, TaskGoes(i, pc), libUp' = libUp,
         abandoned \subseteq abandoned',
         pc # "none" \/ i \in abandoned'
  PROVE  LedgerTypeOK' /\ RowOwned'
<1>1. i \in 1..MaxInstalls /\ \A j \in DOMAIN installs : j \in 1..MaxInstalls
  BY LibAssumption DEF LedgerTypeOK
<1>2. tasks'[i] = pc /\ \A j \in DOMAIN installs \ {i} : tasks'[j] = tasks[j]
  BY <1>1 DEF LedgerTypeOK, TaskGoes
<1>3. LedgerTypeOK'
  BY DEF LedgerTypeOK, TaskGoes
<1>4. RowOwned'
  BY <1>2 DEF RowOwned, LibStatus
<1> QED
  BY <1>3, <1>4

\* A step that does not write the ledger
LEMMA LedgerStutters ==
  ASSUME LedgerTypeOK, RowOwned, UNCHANGED <<installs, tasks, retrying, abandoned, libUp>>
  PROVE  LedgerTypeOK' /\ RowOwned'
BY DEF LedgerTypeOK, RowOwned, LibStatus

\* Every step keeps the ledger's rows owned.
LEMMA LedgerStep ==
  ASSUME LibInv, LibNext
  PROVE  LedgerTypeOK' /\ RowOwned'
<1>0. LedgerTypeOK /\ ConfigTypeOK /\ RowOwned
  BY DEF LibInv
<1> USE DEF configVars, userVars, lifeVars, ledgerVars
<1>1. ASSUME NEW x \in LibAliases, NEW f \in LibFiles, StartInstall(x, f)
      PROVE  LedgerTypeOK' /\ RowOwned'
  <2> DEFINE n == Len(installs) + 1
  <2>1. /\ installs' = Append(installs, NewRow(x, f)) /\ Len(installs) < MaxInstalls
        /\ tasks' = [tasks EXCEPT ![n] = "new"] /\ UNCHANGED <<retrying, abandoned, libUp>>
    BY <1>1 DEF StartInstall, TaskGoes
  <2>2. NewRow(x, f) \in LedgerRow
    BY DEF NewRow, LedgerRow, InstallStatuses, InstallActive
  <2>3. installs' \in Seq(LedgerRow) /\ Len(installs') = n /\ n \in 1..MaxInstalls
        /\ \A j \in DOMAIN installs : j # n /\ installs'[j] = installs[j]
        /\ DOMAIN installs' = DOMAIN installs \union {n}
    BY <1>0, <2>1, <2>2, LibAssumption DEF LedgerTypeOK
  <2>4. tasks'[n] = "new" /\ \A j \in DOMAIN installs : tasks'[j] = tasks[j]
    BY <1>0, <2>1, <2>3, LibAssumption DEF LedgerTypeOK
  <2> HIDE DEF n
  <2>5. LedgerTypeOK'
    BY <1>0, <2>1, <2>3, LibAssumption DEF LedgerTypeOK
  <2>6. RowOwned'
    BY <1>0, <2>1, <2>3, <2>4 DEF RowOwned, LibStatus
  <2> QED
    BY <2>5, <2>6
<1>2. ASSUME NEW i \in DOMAIN installs,
             TaskStarts(i) \/ TakeLane(i) \/ CleanUpFails(i)
      PROVE  LedgerTypeOK' /\ RowOwned'
  BY <1>0, <1>2, TaskStep DEF TaskStarts, TakeLane, CleanUpFails
<1>3. ASSUME NEW i \in DOMAIN installs, SpawnWorker(i)
      PROVE  LedgerTypeOK' /\ RowOwned'
  BY <1>0, <1>3, OneRowStep
     DEF SpawnWorker, InstallStatuses, InstallActive, LedgerTypeOK
<1>4. ASSUME NEW i \in DOMAIN installs, Downloaded(i)
      PROVE  LedgerTypeOK' /\ RowOwned'
  BY <1>0, <1>4, OneRowStep
     DEF Downloaded, InstallStatuses, InstallActive, LedgerTypeOK
<1>5. ASSUME NEW i \in DOMAIN installs, JobFails(i) \/ RegisterFails(i) \/ RegisterDone(i)
      PROVE  LedgerTypeOK' /\ RowOwned'
  BY <1>0, <1>5, OneRowStep
     DEF JobFails, RegisterFails, RegisterDone, InstallStatuses, InstallActive, LedgerTypeOK
<1>6. ASSUME NEW i \in DOMAIN installs, Register(i)
      PROVE  LedgerTypeOK' /\ RowOwned'
  <2>1. UNCHANGED <<retrying, abandoned, libUp>>
    BY <1>6 DEF Register
  <2>2. CASE TaskGoes(i, "written") /\ UNCHANGED installs
    BY <1>0, <2>1, <2>2, TaskStep
  <2>3. CASE TaskGoes(i, "none") /\ SetStatus(i, "downloaded")
    BY <1>0, <2>1, <2>3, OneRowStep DEF InstallStatuses, InstallActive, LedgerTypeOK
  <2> QED
    BY <1>6, <2>2, <2>3 DEF Register
<1>7. ASSUME NEW i \in DOMAIN installs, Cancel(i)
      PROVE  LedgerTypeOK' /\ RowOwned'
  <2>1. UNCHANGED <<retrying, libUp>> /\ abandoned \subseteq abandoned'
    BY <1>7 DEF Cancel, Move
  <2>2. CASE tasks[i] \in {"new", "closing"}
    BY <1>0, <1>7, <2>1, <2>2, TaskStep DEF Cancel
  <2>3. CASE tasks[i] \notin {"new", "closing"} /\ UNCHANGED installs
    BY <1>0, <1>7, <2>1, <2>3, TaskStep DEF Cancel
  <2>4. CASE tasks[i] \notin {"new", "closing"} /\ SetStatus(i, "installed")
    BY <1>0, <1>7, <2>1, <2>4, OneRowStep
       DEF Cancel, InstallStatuses, InstallActive, LedgerTypeOK
  <2> QED
    BY <1>7, <2>2, <2>3, <2>4 DEF Cancel
<1>8. ASSUME NEW i \in DOMAIN installs, CleanUp(i)
      PROVE  LedgerTypeOK' /\ RowOwned'
  <2>1. LibStatus(i) \in InstallStatuses
    BY <1>0, RowAt DEF LibStatus
  <2>2. Settled(LibStatus(i)) \in InstallStatuses \ InstallActive
    BY <2>1, SettledIsInactive
  <2> QED
    BY <1>0, <1>8, <2>2, OneRowStep DEF CleanUp, LedgerTypeOK
<1>9. ASSUME NEW i \in DOMAIN installs, RetryReads(i)
      PROVE  LedgerTypeOK' /\ RowOwned'
  <2> DEFINE e == [id |-> i, next |-> IF LibStatus(i) = "downloaded" THEN "registering"
                                      ELSE "queued"]
  <2>1. UNCHANGED <<installs, tasks, abandoned, libUp>> /\ retrying' = Append(retrying, e)
    BY <1>9 DEF RetryReads, Move
  <2>2. e \in RetryType
    BY <1>0, LibAssumption DEF RetryType, LedgerTypeOK
  <2> HIDE DEF e
  <2> QED
    BY <1>0, <2>1, <2>2 DEF LedgerTypeOK, RowOwned, LibStatus
<1>10. ASSUME NEW i \in DOMAIN installs, Dismiss(i)
       PROVE  LedgerTypeOK' /\ RowOwned'
  <2>1. /\ UNCHANGED <<tasks, retrying, abandoned, libUp>>
        /\ installs' = [installs EXCEPT ![i] = [installs[i] EXCEPT !.hidden = TRUE]]
    BY <1>10 DEF Dismiss, Move
  <2>2. /\ [installs[i] EXCEPT !.hidden = TRUE] \in LedgerRow
        /\ [installs[i] EXCEPT !.hidden = TRUE].status = installs[i].status
    BY <1>0, RowAt DEF LedgerRow
  <2>3. /\ installs' \in Seq(LedgerRow) /\ Len(installs') = Len(installs)
        /\ DOMAIN installs' = DOMAIN installs
        /\ \A j \in DOMAIN installs : installs'[j].status = installs[j].status
    BY <1>0, <2>1, <2>2 DEF LedgerTypeOK
  <2> QED
    BY <1>0, <2>1, <2>3 DEF LedgerTypeOK, RowOwned, LibStatus
<1>11. ASSUME NEW k \in DOMAIN retrying, RetryWrites(k)
       PROVE  LedgerTypeOK' /\ RowOwned'
  <2>1. PICK e \in RetryType : e = retrying[k]
    BY <1>0 DEF LedgerTypeOK
  <2>2. /\ SetStatus(e.id, e.next) /\ retrying' = RemoveAt(retrying, k)
        /\ IF tasks[e.id] = "none"
           THEN TaskGoes(e.id, "new") /\ abandoned' = abandoned \ {e.id}
           ELSE UNCHANGED <<tasks, abandoned>>
        /\ libUp' = libUp
    BY <1>11, <2>1 DEF RetryWrites
  <2>3. e.id \in 1..MaxInstalls /\ e.next \in InstallStatuses
    BY <2>1 DEF RetryType, InstallStatuses, InstallActive
  <2>4. retrying' \in Seq(RetryType)
    BY <1>0, <2>2, SMTT(30) DEF LedgerTypeOK, RemoveAt
  <2>5. CASE e.id \in DOMAIN installs
    <3>1. CASE tasks[e.id] = "none"
      BY <1>0, <2>2, <2>3, <2>4, <2>5, <3>1, OneRowStep
    <3>2. CASE tasks[e.id] # "none"
      <4>1. /\ TaskGoes(e.id, tasks[e.id])
            /\ tasks[e.id] \in {"none", "new", "lane", "spawn", "fetch", "register", "written",
                                "closing"}
        BY <1>0, <2>2, <2>3, <3>2 DEF TaskGoes, LedgerTypeOK
      <4> QED
        BY <1>0, <2>2, <2>3, <2>4, <2>5, <3>2, <4>1, OneRowStep
    <3> QED
      BY <3>1, <3>2
  <2>6. CASE e.id \notin DOMAIN installs
    <3>1. installs' = installs
      BY <1>0, <2>2, <2>6 DEF SetStatus, LedgerTypeOK
    <3>2. \A j \in DOMAIN installs : tasks'[j] = tasks[j] /\ (j \in abandoned => j \in abandoned')
      BY <1>0, <2>2, <2>6, LibAssumption DEF TaskGoes, LedgerTypeOK
    <3> QED
      BY <1>0, <2>2, <2>4, <3>1, <3>2 DEF LedgerTypeOK, RowOwned, LibStatus, TaskGoes
  <2> QED
    BY <2>5, <2>6
<1>12. CASE DeleteRecords
  <2>1. PICK n : n = deletion.row
    OBVIOUS
  <2>2. /\ UNCHANGED <<tasks, retrying, abandoned, libUp>>
        /\ installs' = [installs EXCEPT ![n].status = "deleted", ![n].hidden = TRUE]
    BY <1>12, <2>1 DEF DeleteRecords
  <2>3. CASE n \in DOMAIN installs
    <3> DEFINE row == [[installs[n] EXCEPT !.status = "deleted"] EXCEPT !.hidden = TRUE]
    <3>1. row \in LedgerRow /\ row.status = "deleted"
      BY <1>0, <2>3, RowAt DEF LedgerRow, InstallStatuses
    <3>2. installs' = [installs EXCEPT ![n] = row]
      BY <1>0, <2>2, <2>3 DEF LedgerTypeOK
    <3> HIDE DEF row
    <3>3. /\ installs' \in Seq(LedgerRow) /\ Len(installs') = Len(installs)
          /\ DOMAIN installs' = DOMAIN installs
          /\ \A j \in DOMAIN installs :
                installs'[j].status \in {installs[j].status, "deleted"}
      BY <1>0, <2>3, <3>1, <3>2 DEF LedgerTypeOK
    <3> QED
      BY <1>0, <2>2, <3>3 DEF LedgerTypeOK, RowOwned, LibStatus, InstallActive
  <2>4. CASE n \notin DOMAIN installs
    <3>1. installs' = installs
      BY <1>0, <2>2, <2>4 DEF LedgerTypeOK
    <3> QED
      BY <1>0, <2>2, <3>1, LedgerStutters
  <2> QED
    BY <2>3, <2>4
<1>13. CASE ServiceEnds
  <2>1. /\ ~libUp' /\ tasks' = [i \in DOMAIN tasks |-> "none"] /\ retrying' = <<>>
    BY <1>13 DEF ServiceEnds
  <2>2. PICK settled \in SUBSET {i \in DOMAIN installs : tasks[i] # "none"} :
           installs' = [i \in DOMAIN installs |->
                          IF i \in settled
                          THEN [installs[i] EXCEPT !.status = Settled(@)] ELSE installs[i]]
    BY <1>13 DEF ServiceEnds
  <2>3. ASSUME NEW i \in DOMAIN installs PROVE installs'[i] \in LedgerRow
    <3>1. installs[i] \in LedgerRow /\ installs[i].status \in InstallStatuses
      BY <1>0, RowAt
    <3>2. PICK s \in InstallStatuses : s = Settled(installs[i].status)
      BY <3>1, SettledIsInactive
    <3>3. [installs[i] EXCEPT !.status = s] \in LedgerRow
      BY <3>1 DEF LedgerRow
    <3> QED
      BY <2>2, <3>1, <3>2, <3>3
  <2>4. installs' \in Seq(LedgerRow) /\ Len(installs') = Len(installs)
    BY <1>0, <2>2, <2>3 DEF LedgerTypeOK
  <2> QED
    BY <1>0, <2>1, <2>4 DEF LedgerTypeOK, RowOwned
<1>14. CASE LibStarts
  <2>1. /\ installs' = [i \in DOMAIN installs |->
                          [installs[i] EXCEPT !.status = Recovered(@)]]
        /\ UNCHANGED <<tasks, retrying>>
    BY <1>14 DEF LibStarts
  <2>2. ASSUME NEW i \in DOMAIN installs
        PROVE  installs'[i] \in LedgerRow /\ installs'[i].status \notin InstallActive
    <3>1. installs[i] \in LedgerRow /\ installs[i].status \in InstallStatuses
      BY <1>0, RowAt
    <3>2. PICK s \in InstallStatuses \ InstallActive : s = Recovered(installs[i].status)
      BY <3>1, SettledIsInactive
    <3>3. /\ [installs[i] EXCEPT !.status = s] \in LedgerRow
          /\ [installs[i] EXCEPT !.status = s].status = s
      BY <3>1, <3>2 DEF LedgerRow
    <3> QED
      BY <2>1, <3>1, <3>2, <3>3
  <2>3. DOMAIN installs' = 1..Len(installs) /\ DOMAIN installs = 1..Len(installs)
    BY <1>0, <2>1 DEF LedgerTypeOK
  <2>4. installs' \in Seq(LedgerRow)
    <3> DEFINE Row(i) == [installs[i] EXCEPT !.status = Recovered(@)]
    <3>1. installs' = [i \in 1..Len(installs) |-> Row(i)]
      BY <2>1, <2>3
    <3>2. \A i \in 1..Len(installs) : Row(i) \in LedgerRow
      BY <2>1, <2>2, <2>3
    <3>3. Len(installs) \in Nat
      BY <1>0 DEF LedgerTypeOK
    <3> HIDE DEF Row
    <3> QED
      BY <3>1, <3>2, <3>3
  <2>5. Len(installs') = Len(installs)
    BY <1>0, <2>3, <2>4 DEF LedgerTypeOK
  <2> QED
    BY <1>0, <2>1, <2>2, <2>3, <2>4, <2>5 DEF LedgerTypeOK, RowOwned, LibStatus
<1>15. CASE \/ \E f \in LibFiles : StrayEnds(f)
            \/ TakeDraft \/ ReloadProfiles \/ Scan
            \/ \E new \in Edits : SaveConfiguration(new)
            \/ \E x \in LibAliases, f \in scan, e \in {"on", "off"} : Adopt(x, f, e)
            \/ \E p \in saved.models : DeleteBegins(p)
            \/ DeleteFiles \/ DeleteFails \/ DeleteSaves
  <2>1. UNCHANGED <<installs, tasks, retrying, abandoned, libUp>>
    BY <1>15 DEF StrayEnds, TakeDraft, ReloadProfiles, Scan, SaveConfiguration, Adopt,
       DeleteBegins, DeleteFiles, DeleteFails, DeleteSaves, Move
  <2> QED
    BY <1>0, <2>1, LedgerStutters
<1> QED
  BY <1>1, <1>2, <1>3, <1>4, <1>5, <1>6, <1>7, <1>8, <1>9, <1>10, <1>11, <1>12, <1>13, <1>14,
     <1>15 DEF LibNext

\* What a step may do to the configuration file: nothing, add a profile, take
\* the place of what a window had read, rename by import, or drop the profile
\* of the deletion.
LEMMA ConfigStep ==
  ASSUME LibInv, LibNext
  PROVE  /\ ConfigTypeOK'
         /\ \A p \in saved.models \ saved'.models :
               \/ deletion.at = "save" /\ p = deletion.profile
               \/ draft = saved
               \/ \E x \in LibAliases : <<x, p[2]>> \in saved'.models
<1>0. LedgerTypeOK /\ ConfigTypeOK /\ saved \in ConfigType
  BY DEF LibInv, ConfigTypeOK
<1> DEFINE Kept == \A p \in saved.models \ saved'.models :
                      \/ deletion.at = "save" /\ p = deletion.profile
                      \/ draft = saved
                      \/ \E x \in LibAliases : <<x, p[2]>> \in saved'.models
<1> USE DEF configVars, userVars, lifeVars, ledgerVars
<1>1. ASSUME NEW i \in DOMAIN installs, Register(i)
      PROVE  ConfigTypeOK' /\ Kept
  <2>1. UNCHANGED <<strays, files, scan>>
    BY <1>1 DEF Register
  <2>2. CASE saved' = saved
    BY <1>0, <2>1, <2>2 DEF ConfigTypeOK
  <2>3. CASE WithProfile(<<installs[i].alias, installs[i].file>>)
    <3>1. PICK p \in LibAliases \X AnyFile : p = <<installs[i].alias, installs[i].file>>
      BY <1>0, RowAt DEF AnyFile
    <3>2. saved' = [saved EXCEPT !.models = @ \union {p}]
      BY <2>3, <3>1 DEF WithProfile
    <3>3. saved' \in ConfigType /\ saved.models \subseteq saved'.models
      BY <1>0, <3>2 DEF ConfigType
    <3> QED
      BY <1>0, <2>1, <3>3 DEF ConfigTypeOK
  <2> QED
    BY <1>1, <2>2, <2>3 DEF Register
<1>2. ASSUME NEW new \in Edits, SaveConfiguration(new)
      PROVE  ConfigTypeOK' /\ Kept
  <2>1. draft = saved /\ saved' = new /\ UNCHANGED <<strays, files, scan>>
    BY <1>2 DEF SaveConfiguration
  <2>2. new \in ConfigType
    BY <1>0, <2>1 DEF Edits, ConfigType
  <2> QED
    BY <1>0, <2>1, <2>2 DEF ConfigTypeOK
<1>3. ASSUME NEW x \in LibAliases, NEW f \in scan, NEW e \in {"on", "off"}, Adopt(x, f, e)
      PROVE  ConfigTypeOK' /\ Kept
  <2>1. /\ saved' = [models |-> AdoptedModels(x, f), engines |-> e]
        /\ scan' = {} /\ UNCHANGED <<strays, files>>
    BY <1>3 DEF Adopt
  <2>2. saved'.models = (saved.models \ Prior(f)) \union {<<x, f>>}
    BY <2>1 DEF AdoptedModels
  <2>3. saved' \in ConfigType
    BY <1>0, <2>1 DEF ConfigType, ConfigTypeOK, AdoptedModels
  <2>4. Kept
    BY <2>2 DEF Prior
  <2> QED
    BY <1>0, <2>1, <2>3, <2>4 DEF ConfigTypeOK
<1>4. CASE DeleteSaves
  <2>1. /\ deletion.at = "save" /\ saved' = [saved EXCEPT !.models = @ \ {deletion.profile}]
        /\ UNCHANGED <<strays, files, scan>>
    BY <1>4 DEF DeleteSaves
  <2>2. saved' \in ConfigType /\ saved'.models = saved.models \ {deletion.profile}
    BY <1>0, <2>1 DEF ConfigType
  <2> QED
    BY <1>0, <2>1, <2>2 DEF ConfigTypeOK
<1>5. ASSUME NEW i \in DOMAIN installs, Downloaded(i) \/ JobFails(i)
      PROVE  ConfigTypeOK' /\ Kept
  <2>1. installs[i].file \in LibFiles
    BY <1>0, RowAt
  <2>2. /\ saved' = saved /\ scan' = scan
        /\ files' \in {files, files \union {installs[i].file}}
        /\ strays' \in {strays, strays \union {installs[i].file}}
    BY <1>5 DEF Downloaded, JobFails
  <2> QED
    BY <1>0, <2>1, <2>2 DEF ConfigTypeOK, AnyFile
<1>6. ASSUME NEW f \in LibFiles, StrayEnds(f)
      PROVE  ConfigTypeOK' /\ Kept
  BY <1>0, <1>6 DEF StrayEnds, ConfigTypeOK, AnyFile
<1>7. CASE Scan
  BY <1>0, <1>7 DEF Scan, ConfigTypeOK
<1>8. CASE ServiceEnds
  <2>1. /\ saved' = saved /\ scan' = {} /\ files' \subseteq files
        /\ strays' = strays \union
              {installs[i].file : i \in {j \in DOMAIN installs : tasks[j] = "fetch"}}
    BY <1>8 DEF ServiceEnds
  <2>2. \A i \in DOMAIN installs : installs[i].file \in LibFiles
    BY <1>0, RowAt
  <2> QED
    BY <1>0, <2>1, <2>2 DEF ConfigTypeOK
<1>9. ASSUME NEW i \in DOMAIN installs,
             \/ TaskStarts(i) \/ TakeLane(i) \/ SpawnWorker(i)
             \/ RegisterFails(i) \/ RegisterDone(i)
             \/ Cancel(i) \/ CleanUp(i) \/ CleanUpFails(i) \/ RetryReads(i) \/ Dismiss(i)
      PROVE  ConfigTypeOK' /\ Kept
  <2>1. UNCHANGED <<saved, files, strays, scan>>
    BY <1>9 DEF TaskStarts, TakeLane, SpawnWorker, RegisterFails, RegisterDone, Cancel,
       CleanUp, CleanUpFails, RetryReads, Dismiss, Move
  <2> QED
    BY <1>0, <2>1 DEF ConfigTypeOK
<1>10. CASE \/ \E x \in LibAliases, f \in LibFiles : StartInstall(x, f)
            \/ \E k \in DOMAIN retrying : RetryWrites(k)
            \/ TakeDraft \/ ReloadProfiles
            \/ \E p \in saved.models : DeleteBegins(p)
            \/ DeleteFiles \/ DeleteFails \/ DeleteRecords \/ LibStarts
  <2>1. UNCHANGED <<saved, strays, scan>> /\ files' \subseteq files
    BY <1>10 DEF StartInstall, RetryWrites, TakeDraft, ReloadProfiles, DeleteBegins, DeleteFiles,
       DeleteFails, DeleteRecords, LibStarts
  <2> QED
    BY <1>0, <2>1 DEF ConfigTypeOK
<1> QED
  BY <1>1, <1>2, <1>3, <1>4, <1>5, <1>6, <1>7, <1>8, <1>9, <1>10 DEF LibNext

\* The ledger invariant holds of every behaviour.
LEMMA LibInvariant == LibSpec => []LibInv
<1>1. LibInit => LibInv
  BY LibAssumption DEF LibInit, LibInv, LedgerTypeOK, ConfigTypeOK, RowOwned, ConfigType, AnyFile
<1>2. LibInv /\ [LibNext]_libVars => LibInv'
  <2> SUFFICES ASSUME LibInv, [LibNext]_libVars PROVE LibInv'
    OBVIOUS
  <2>1. CASE LibNext
    BY <2>1, LedgerStep, ConfigStep DEF LibInv
  <2>2. CASE UNCHANGED libVars
    BY <2>2 DEF libVars, LibInv, LedgerTypeOK, ConfigTypeOK, RowOwned, LibStatus
  <2> QED
    BY <2>1, <2>2
<1> QED
  BY <1>1, <1>2, PTL DEF LibSpec

\* While the service runs, no ledger row is left in a status that only a task
\* can settle without such a task, whatever is retried, cancelled, deleted or
\* interrupted, except where a clean-up was itself cut short (installer.py:92).
THEOREM RowsOwned == LibSpec => []RowOwned
<1>1. LibInv => RowOwned
  BY DEF LibInv
<1> QED
  BY <1>1, LibInvariant, PTL

\* A profile leaves the configuration file only by its own deletion, by an
\* import of its file under another name, or by a settings window that had
\* read exactly this file (runtime.py:822): a download that registers itself
\* meanwhile loses nobody's profile.
THEOREM ProfilesOutlastWriters == LibSpec => ProfilesKept
<1>1. LibInv /\ [LibNext]_libVars =>
        [\A p \in saved.models \ saved'.models :
            \/ deletion.at = "save" /\ p = deletion.profile
            \/ draft = saved
            \/ \E x \in LibAliases : <<x, p[2]>> \in saved'.models]_libVars
  BY ConfigStep
<1> QED
  BY <1>1, LibInvariant, PTL DEF LibSpec, ProfilesKept

-----------------------------------------------------------------------------
(* The engine process (MacProcess)                                         *)

AliasOrNone == Aliases \union {"none"}
IdentityType == [pid : Pids \union {0}, start : Nat, alias : AliasOrNone]
ProcessType ==
    [owner : {"nobody", "stranger", "engine"}, start : Nat, form : {"none", "wrapper", "engine"},
     alias : AliasOrNone, up : BOOLEAN]
MemoryType ==
    [loaded : BOOLEAN, meta : IdentityType, transient : IdentityType, child : IdentityType]
OperationPlaces ==
    {"idle", "own", "ask", "spawn", "observe", "poll", "stop", "grace", "kill", "killed"}
OperationType ==
    [at : OperationPlaces,
     kind : {"none", "look", "load", "unload", "close", "poll", "confirm"},
     alias : AliasOrNone]

ProcTypeOK ==
    /\ procs \in [Pids -> ProcessType] /\ \A p \in Pids : procs[p].start <= starts
    /\ starts \in Nat
    /\ record \in IdentityType /\ own \in MemoryType /\ adapterOp \in OperationType

\* What an identity says is true for good: its start was handed out, and the
\* process that has it, while there is one, is the engine it names.
TrueIn(id, ps, n) ==
    \/ id = NoIdentity
    \/ /\ id.pid \in Pids /\ 0 < id.start /\ id.start <= n
       /\ \A p \in Pids : ps[p].start = id.start =>
             p = id.pid /\ ps[p].alias = id.alias /\ ps[p].owner = "engine"
IdentitiesTrue ==
    /\ TrueIn(record, procs, starts) /\ TrueIn(own.meta, procs, starts)
    /\ TrueIn(own.transient, procs, starts) /\ TrueIn(own.child, procs, starts)

\* The memory and the record name one process between them.
OneSubject ==
    /\ own.loaded => record \in {NoIdentity, own.meta}
    /\ ~own.loaded => own = FreshMemory
    /\ own.meta # NoIdentity /\ own.child # NoIdentity => own.meta = own.child
    /\ own.transient # NoIdentity => own.meta = NoIdentity /\ own.transient = own.child

\* Where an operation is, and what it knows there
OperationKnows ==
    /\ adapterOp.at # "idle" => adapterOp.kind # "none"
    /\ adapterOp.at = "ask" => adapterOp.kind # "close"
    /\ adapterOp.at \notin {"idle", "own"} => own.loaded
    /\ adapterOp.at = "spawn" => own.meta = NoIdentity
    /\ adapterOp.at = "observe" => own.meta = NoIdentity /\ adapterOp.kind = "poll"
    /\ adapterOp.at = "observe" => own.child # NoIdentity

\* An engine that runs and was not let go of
Tended(id) == Running(id) /\ id.start \notin givenUp

\* Only a start-up in progress has an engine that is in no record.
StartupOnly ==
    /\ own.child # NoIdentity /\ Tended(own.child) => own.meta = own.child \/ BeforeRecord
    /\ own.meta # NoIdentity /\ Tended(own.meta) /\ record # own.meta
          => own.meta = own.child /\ BeforeRecord

Known ==
    \A p \in Pids : procs[p].owner = "engine" /\ procs[p].start \notin givenUp
                       => Identity(p) \in {record, own.meta, own.child}

ProcInv ==
    /\ ProcTypeOK /\ IdentitiesTrue /\ OneSubject /\ OperationKnows
    /\ StartupOnly /\ Known /\ signalled \subseteq 1..starts /\ StrangersUntouched

\* An identity stays true when a process exits, changes form or opens its
\* port, and when a process starts under the next start identity.
LEMMA TrueInKept ==
  ASSUME NEW ps \in [Pids -> ProcessType], NEW n \in Nat, NEW m \in Nat, n <= m,
         NEW id \in IdentityType, TrueIn(id, ps, n),
         NEW qs \in [Pids -> ProcessType], NEW p \in Pids,
         \A q \in Pids \ {p} : qs[q] = ps[q],
         \/ qs[p].start = 0
         \/ qs[p].start > n
         \/ /\ qs[p].start = ps[p].start /\ qs[p].alias = ps[p].alias
            /\ qs[p].owner = ps[p].owner
  PROVE  TrueIn(id, qs, m)
BY DEF TrueIn, IdentityType, ProcessType

\* A probe of a true identity that does not fail tells whether its process
\* still runs.
LEMMA ProbeTells ==
  ASSUME ProcTypeOK, NEW id \in IdentityType, id # NoIdentity, TrueIn(id, procs, starts),
         NEW blind \in BOOLEAN
  PROVE  /\ ~blind /\ ProbeIdentity(id.pid, blind) # id => ~Running(id)
         /\ ProbeIdentity(id.pid, blind) = id => Running(id)
<1>1. /\ id.pid \in Pids /\ 0 < id.start
      /\ procs[id.pid].start = id.start => procs[id.pid].alias = id.alias
  BY DEF TrueIn
<1>2. procs[id.pid] \in ProcessType
  BY <1>1 DEF ProcTypeOK
<1>3. id = [pid |-> id.pid, start |-> id.start, alias |-> id.alias] /\ id.start \in Nat
  BY DEF IdentityType
<1>4. procs[id.pid] = NoProcess => procs[id.pid].start = 0
  BY DEF NoProcess
<1>5. ASSUME Running(id), ~blind PROVE ProbeIdentity(id.pid, blind) = id
  <2>1. procs[id.pid].start = id.start /\ procs[id.pid] # NoProcess
    BY <1>1, <1>3, <1>4, <1>5 DEF Running
  <2> QED
    BY <1>1, <1>3, <1>5, <2>1 DEF ProbeIdentity, Identity
<1>6. ASSUME ProbeIdentity(id.pid, blind) = id PROVE Running(id)
  <2>1. Identity(id.pid) = id
    BY <1>6 DEF ProbeIdentity
  <2> QED
    BY <1>1, <1>3, <2>1 DEF Identity, Running
<1> QED
  BY <1>5, <1>6

\* The engines that run and were not let go of have the identities known.
LEMMA TendedIsKnown ==
  ASSUME ProcInv, NEW p \in Pids, procs[p].owner = "engine", procs[p].start \notin givenUp
  PROVE  /\ Identity(p) # NoIdentity
         /\ \/ record = Identity(p) /\ Tended(record)
            \/ own.meta = Identity(p) /\ Tended(own.meta)
            \/ own.child = Identity(p) /\ Tended(own.child)
<1>1. Identity(p) \in {record, own.meta, own.child}
  BY DEF ProcInv, Known
<1>2. Identity(p).pid = p /\ Identity(p).start = procs[p].start
  BY DEF Identity
<1>3. Identity(p) # NoIdentity
  BY <1>2, ProcAssumption DEF NoIdentity
<1> QED
  BY <1>1, <1>2, <1>3 DEF Tended, Running

\* A step of the kernel: an exit, a stranger, or an engine that goes on
LEMMA KernelKeeps ==
  ASSUME ProcInv, NEW p \in Pids, NEW new \in ProcessType, KernelStep(p, new),
         \/ new = NoProcess /\ starts' = starts
         \/ /\ new.owner = "stranger" /\ new.start = starts + 1
            /\ starts' = starts + 1
         \/ /\ new.owner = procs[p].owner /\ new.start = procs[p].start
            /\ new.alias = procs[p].alias /\ starts' = starts
  PROVE  ProcInv'
<1>0. /\ ProcTypeOK /\ IdentitiesTrue /\ OneSubject /\ OperationKnows
      /\ StartupOnly /\ Known /\ signalled \subseteq 1..starts /\ StrangersUntouched
  BY DEF ProcInv
<1>1. /\ UNCHANGED <<record, own, adapterOp, signalled, givenUp>>
      /\ procs' = [procs EXCEPT ![p] = new]
  BY DEF KernelStep
<1>2. procs' \in [Pids -> ProcessType] /\ procs'[p] = new /\ \A q \in Pids \ {p} : procs'[q] = procs[q]
  BY <1>0, <1>1 DEF ProcTypeOK
<1>3. starts \in Nat /\ starts' \in Nat /\ starts <= starts'
  BY <1>0 DEF ProcTypeOK
<1>4. \/ new.start = 0 /\ new.owner = "nobody"
      \/ new.start = starts + 1 /\ new.owner = "stranger" /\ starts' = starts + 1
      \/ /\ new.owner = procs[p].owner /\ new.start = procs[p].start
         /\ new.alias = procs[p].alias
  BY DEF NoProcess
<1>5. ProcTypeOK'
  <2>1. \A q \in Pids : procs'[q].start <= starts'
    <3>1. \A q \in Pids : procs[q].start <= starts /\ procs[q].start \in Nat
      BY <1>0 DEF ProcTypeOK, ProcessType
    <3> QED
      BY <1>2, <1>3, <1>4, <3>1
  <2> QED
    BY <1>0, <1>1, <1>2, <1>3, <2>1 DEF ProcTypeOK
<1>6. IdentitiesTrue'
  <2>1. \/ procs'[p].start = 0
        \/ procs'[p].start > starts
        \/ /\ procs'[p].start = procs[p].start /\ procs'[p].alias = procs[p].alias
           /\ procs'[p].owner = procs[p].owner
    BY <1>2, <1>3, <1>4
  <2>2. /\ record \in IdentityType /\ own.meta \in IdentityType
        /\ own.transient \in IdentityType /\ own.child \in IdentityType
        /\ procs \in [Pids -> ProcessType]
    BY <1>0 DEF ProcTypeOK, MemoryType
  <2>3. ASSUME NEW id \in IdentityType, TrueIn(id, procs, starts)
        PROVE  TrueIn(id, procs', starts')
    BY <1>2, <1>3, <2>1, <2>2, <2>3, TrueInKept
  <2> QED
    BY <1>0, <1>1, <2>2, <2>3 DEF IdentitiesTrue
<1>7. StartupOnly'
  <2>1. own.meta \in IdentityType /\ own.child \in IdentityType
    BY <1>0 DEF ProcTypeOK, MemoryType
  <2>2. TrueIn(own.meta, procs, starts) /\ TrueIn(own.child, procs, starts)
    BY <1>0 DEF IdentitiesTrue
  <2>3. own.meta # NoIdentity /\ Tended(own.meta)' => Tended(own.meta)
    BY <1>1, <1>2, <1>3, <1>4, <2>1, <2>2 DEF Tended, Running, TrueIn, IdentityType
  <2>4. own.child # NoIdentity /\ Tended(own.child)' => Tended(own.child)
    BY <1>1, <1>2, <1>3, <1>4, <2>1, <2>2 DEF Tended, Running, TrueIn, IdentityType
  <2> QED
    BY <1>0, <1>1, <2>3, <2>4 DEF StartupOnly, BeforeRecord
<1>8. Known'
  <2> SUFFICES ASSUME NEW q \in Pids, procs'[q].owner = "engine", procs'[q].start \notin givenUp
               PROVE  Identity(q)' \in {record, own.meta, own.child}
    BY <1>1 DEF Known
  <2>1. /\ procs[q].owner = "engine" /\ procs[q].start = procs'[q].start
        /\ procs[q].alias = procs'[q].alias
    BY <1>2, <1>4
  <2> QED
    BY <1>0, <2>1 DEF Known, Identity
<1>9. signalled' \subseteq 1..starts'
  BY <1>0, <1>1, <1>3
<1>10. StrangersUntouched'
  <2> SUFFICES ASSUME NEW q \in Pids, procs'[q].owner = "stranger"
               PROVE  procs'[q].start \notin signalled
    BY <1>1 DEF StrangersUntouched
  <2>1. CASE q = p /\ new.start = starts + 1
    BY <1>0, <1>2, <1>3, <2>1
  <2>2. CASE q # p \/ new.start # starts + 1
    <3>1. procs[q].owner = "stranger" /\ procs[q].start = procs'[q].start
      BY <1>2, <1>4, <2>2
    <3> QED
      BY <1>0, <3>1 DEF StrangersUntouched
  <2> QED
    BY <2>1, <2>2
<1> QED
  BY <1>0, <1>1, <1>5, <1>6, <1>7, <1>8, <1>9, <1>10 DEF ProcInv, OneSubject, OperationKnows

\* A step of the operation alone, or one that also signals the process whose
\* identity it has just seen
LEMMA OperationMoves ==
  ASSUME ProcInv, UNCHANGED <<procs, record, own, starts, givenUp>>,
         adapterOp' \in OperationType, OperationKnows', BeforeRecord => BeforeRecord',
         \/ signalled' = signalled
         \/ \E p \in Pids : /\ procs[p].owner = "engine" /\ procs[p].start \in 1..starts
                            /\ \A q \in Pids : procs[q].start = procs[p].start => q = p
                            /\ signalled' = signalled \union {procs[p].start}
  PROVE  ProcInv'
<1>0. /\ ProcTypeOK /\ IdentitiesTrue /\ OneSubject
      /\ StartupOnly /\ Known /\ signalled \subseteq 1..starts /\ StrangersUntouched
  BY DEF ProcInv
<1>1. ProcTypeOK' /\ IdentitiesTrue' /\ OneSubject' /\ Known'
  BY <1>0 DEF ProcTypeOK, IdentitiesTrue, OneSubject, Known, Identity
<1>2. StartupOnly'
  BY <1>0 DEF StartupOnly, Tended, Running
<1>3. signalled' \subseteq 1..starts'
  BY <1>0
<1>4. StrangersUntouched'
  BY <1>0 DEF StrangersUntouched
<1> QED
  BY <1>1, <1>2, <1>3, <1>4 DEF ProcInv

\* The subject of a stop is forgotten, in memory and on disk, once it does
\* not run or was let go of.
LEMMA SubjectForgotten ==
  ASSUME ProcInv, adapterOp.at \in {"stop", "grace", "kill", "killed"},
         UNCHANGED <<procs, starts, signalled>>,
         record' = RecordWithout(own.meta),
         own' \in MemoryType, own'.meta = NoIdentity, own'.transient = NoIdentity,
         own'.child = NoIdentity, own' = FreshMemory \/ own'.loaded,
         adapterOp' \in OperationType, adapterOp'.at \in {"idle", "own"},
         adapterOp'.at = "own" => adapterOp'.kind # "none",
         givenUp \subseteq givenUp',
         own.meta # NoIdentity => ~Running(own.meta) \/ own.meta.start \in givenUp',
         own.child # NoIdentity => ~Running(own.child) \/ own.child.start \in givenUp'
  PROVE  ProcInv'
<1>0. /\ ProcTypeOK /\ IdentitiesTrue /\ OneSubject /\ OperationKnows
      /\ StartupOnly /\ Known /\ signalled \subseteq 1..starts /\ StrangersUntouched
  BY DEF ProcInv
<1>1. record \in {NoIdentity, own.meta} /\ record' = NoIdentity
  BY <1>0 DEF OperationKnows, OneSubject, RecordWithout
<1>2. NoIdentity \in IdentityType
  BY DEF NoIdentity, IdentityType, AliasOrNone
<1>3. ProcTypeOK'
  BY <1>0, <1>1, <1>2 DEF ProcTypeOK
<1>4. IdentitiesTrue'
  BY <1>1 DEF IdentitiesTrue, TrueIn
<1>5. OneSubject'
  BY <1>1 DEF OneSubject, FreshMemory
<1>6. OperationKnows' /\ StartupOnly'
  BY DEF OperationKnows, StartupOnly
<1>7. Known'
  <2> SUFFICES ASSUME NEW p \in Pids, procs[p].owner = "engine", procs[p].start \notin givenUp'
               PROVE  FALSE
    BY DEF Known
  <2>1. /\ Identity(p) # NoIdentity
        /\ \/ record = Identity(p) /\ Tended(record)
           \/ own.meta = Identity(p) /\ Tended(own.meta)
           \/ own.child = Identity(p) /\ Tended(own.child)
    BY TendedIsKnown
  <2>2. Identity(p).start = procs[p].start
    BY DEF Identity
  <2> QED
    BY <1>1, <2>1, <2>2 DEF Tended
<1> QED
  BY <1>0, <1>3, <1>4, <1>5, <1>6, <1>7 DEF ProcInv, StrangersUntouched

\* An operation, or the service, ends: what still runs is in the record or
\* was let go of.
LEMMA OperationEnds ==
  ASSUME ProcInv, UNCHANGED <<procs, record, starts, signalled>>,
         Ends, own' = own \/ own' = FreshMemory,
         givenUp \subseteq givenUp',
         /\ own.meta # NoIdentity /\ Running(own.meta)
         /\ own.meta.start \notin givenUp'
         => record = own.meta,
         /\ own.child # NoIdentity /\ Running(own.child)
         /\ own.child.start \notin givenUp'
         => record = own.child
  PROVE  ProcInv'
<1>0. /\ ProcTypeOK /\ IdentitiesTrue /\ OneSubject /\ OperationKnows
      /\ StartupOnly /\ Known /\ signalled \subseteq 1..starts /\ StrangersUntouched
  BY DEF ProcInv
<1>1. NoIdentity \in IdentityType
  BY DEF NoIdentity, IdentityType, AliasOrNone
<1>2. FreshMemory \in MemoryType /\ NoOperation \in OperationType
  BY <1>1 DEF FreshMemory, MemoryType, NoOperation, OperationType, OperationPlaces, AliasOrNone
<1>3. ProcTypeOK'
  BY <1>0, <1>2 DEF ProcTypeOK, Ends
<1>4. IdentitiesTrue'
  BY <1>0 DEF IdentitiesTrue, TrueIn, FreshMemory
<1>5. OneSubject'
  BY <1>0 DEF OneSubject, FreshMemory
<1>6. OperationKnows'
  BY DEF OperationKnows, Ends, NoOperation
<1>7. StartupOnly'
  <2>1. CASE own' = FreshMemory
    BY <2>1 DEF StartupOnly, FreshMemory
  <2>2. CASE own' = own
    <3>1. own.child # NoIdentity /\ record = own.child => own.meta = own.child
      BY <1>0 DEF OneSubject, FreshMemory
    <3> QED
      BY <2>2, <3>1 DEF StartupOnly, Tended, Running
  <2> QED
    BY <2>1, <2>2
<1>8. Known'
  <2> SUFFICES ASSUME NEW p \in Pids, procs[p].owner = "engine", procs[p].start \notin givenUp'
               PROVE  Identity(p) = record
    BY DEF Known, Identity
  <2>1. /\ Identity(p) # NoIdentity
        /\ \/ record = Identity(p) /\ Tended(record)
           \/ own.meta = Identity(p) /\ Tended(own.meta)
           \/ own.child = Identity(p) /\ Tended(own.child)
    BY TendedIsKnown
  <2>2. Identity(p).start = procs[p].start
    BY DEF Identity
  <2> QED
    BY <2>1, <2>2 DEF Tended
<1> QED
  BY <1>0, <1>3, <1>4, <1>5, <1>6, <1>7, <1>8 DEF ProcInv, StrangersUntouched

\* Letting go
LEMMA LetGoFacts ==
  ASSUME NEW id, NEW accepted \in BOOLEAN, LetGo(id, accepted)
  PROVE  givenUp \subseteq givenUp' /\ (accepted /\ Running(id) => id.start \in givenUp')
BY DEF LetGo

\* The facts the steps of an operation start from
LEMMA ProcFacts ==
  ASSUME ProcInv
  PROVE  /\ ProcTypeOK /\ IdentitiesTrue /\ OneSubject /\ OperationKnows
         /\ StartupOnly /\ Known
         /\ record \in IdentityType /\ own \in MemoryType /\ adapterOp \in OperationType
         /\ own.meta \in IdentityType /\ own.transient \in IdentityType
         /\ own.child \in IdentityType /\ NoIdentity \in IdentityType
         /\ FreshMemory \in MemoryType /\ NoOperation \in OperationType
<1>1. NoIdentity \in IdentityType
  BY DEF NoIdentity, IdentityType, AliasOrNone
<1>2. FreshMemory \in MemoryType /\ NoOperation \in OperationType
  BY <1>1 DEF FreshMemory, MemoryType, NoOperation, OperationType, OperationPlaces, AliasOrNone
<1>3. record \in IdentityType /\ own \in MemoryType /\ adapterOp \in OperationType
  BY DEF ProcInv, ProcTypeOK
<1>4. own.meta \in IdentityType /\ own.transient \in IdentityType /\ own.child \in IdentityType
  BY <1>3 DEF MemoryType
<1> QED
  BY <1>1, <1>2, <1>3, <1>4 DEF ProcInv

\* Steps that only move the operation
LEMMA PlainMoves ==
  ASSUME ProcInv,
         \/ \E alias \in Aliases : BeginOperation("load", alias)
         \/ \E kind \in {"look", "unload", "close"} : BeginOperation(kind, "none")
         \/ \E named \in BOOLEAN : Ask(named)
         \/ ArgvRefused \/ SpawnFails \/ LoadFails \/ Poll \/ GraceExpires
  PROVE  ProcInv'
<1>0. OperationKnows /\ adapterOp \in OperationType /\ NoOperation \in OperationType
  BY ProcFacts
<1>1. UNCHANGED <<procs, record, own, starts, givenUp, signalled>>
  BY DEF BeginOperation, Ask, ArgvRefused, SpawnFails, LoadFails, Poll, GraceExpires
<1>2. CASE \/ \E alias \in Aliases : BeginOperation("load", alias)
           \/ \E kind \in {"look", "unload", "close"} : BeginOperation(kind, "none")
  <2>1. /\ adapterOp.at = "idle" /\ adapterOp'.at = "own" /\ adapterOp' \in OperationType
        /\ adapterOp'.kind # "none"
    BY <1>2 DEF BeginOperation, OperationType, OperationPlaces, AliasOrNone
  <2> QED
    BY <1>1, <2>1, OperationMoves DEF OperationKnows, BeforeRecord
<1>3. ASSUME NEW named \in BOOLEAN, Ask(named)
      PROVE  ProcInv'
  <2>1. /\ adapterOp.at = "ask" /\ own.loaded
        /\ adapterOp.kind \in {"look", "confirm", "unload", "load", "poll"}
    BY <1>0, <1>3 DEF Ask, OperationKnows, OperationType
  <2>2. \/ Ends
        \/ Goes("stop")
        \/ Goes("poll")
        \/ Goes("spawn") /\ own.meta = NoIdentity
    BY <1>3, <2>1 DEF Ask, AskToUnload, AskToLoad, AskWhetherReady, Resident, Owned
  <2>3. /\ adapterOp' \in OperationType /\ (adapterOp'.at # "idle" => adapterOp'.kind # "none")
        /\ \/ adapterOp'.at \in {"idle", "stop", "poll"}
           \/ adapterOp'.at = "spawn" /\ own.meta = NoIdentity
    BY <1>0, <2>1, <2>2 DEF Ends, Goes, OperationType, OperationPlaces, NoOperation
  <2> QED
    BY <1>1, <2>1, <2>3, OperationMoves DEF OperationKnows, BeforeRecord
<1>4. CASE ArgvRefused \/ SpawnFails
  <2>1. adapterOp.at = "spawn" /\ adapterOp' = NoOperation
    BY <1>4 DEF ArgvRefused, SpawnFails, Ends
  <2>2. adapterOp'.at = "idle"
    BY <2>1 DEF NoOperation
  <2> QED
    BY <1>0, <1>1, <2>1, <2>2, OperationMoves DEF OperationKnows, BeforeRecord
<1>5. CASE LoadFails
  <2>1. /\ adapterOp.at \in {"observe", "poll"}
        /\ adapterOp' \in OperationType /\ adapterOp'.at = "stop"
        /\ adapterOp'.kind = adapterOp.kind
    BY <1>0, <1>5 DEF LoadFails, Goes, OperationType, OperationPlaces
  <2> QED
    BY <1>0, <1>1, <2>1, OperationMoves DEF OperationKnows, BeforeRecord
<1>6. CASE Poll
  <2>1. /\ adapterOp.at = "poll" /\ adapterOp' \in OperationType /\ adapterOp'.at = "own"
        /\ adapterOp'.kind = adapterOp.kind
    BY <1>0, <1>6 DEF Poll, Goes, OperationType, OperationPlaces
  <2> QED
    BY <1>0, <1>1, <2>1, OperationMoves DEF OperationKnows, BeforeRecord
<1>7. CASE GraceExpires
  <2>1. /\ adapterOp.at = "grace" /\ adapterOp' \in OperationType /\ adapterOp'.at = "kill"
        /\ adapterOp'.kind = adapterOp.kind
    BY <1>0, <1>7 DEF GraceExpires, Goes, OperationType, OperationPlaces
  <2> QED
    BY <1>0, <1>1, <2>1, OperationMoves DEF OperationKnows, BeforeRecord
<1> QED
  BY <1>2, <1>3, <1>4, <1>5, <1>6, <1>7

\* What AfterStop leaves in memory
LEMMA AfterStopFacts ==
  ASSUME ProcInv, adapterOp.at \in {"stop", "grace", "kill", "killed"},
         NEW place \in {"own", "idle"}, AfterStop(place)
  PROVE  /\ own' \in MemoryType /\ own'.meta = NoIdentity /\ own'.transient = NoIdentity
         /\ own'.child = NoIdentity /\ (own' = FreshMemory \/ own'.loaded)
         /\ adapterOp' \in OperationType /\ adapterOp'.at \in {"idle", "own"}
         /\ adapterOp'.at = "own" => adapterOp'.kind # "none"
<1>0. /\ OperationKnows /\ own \in MemoryType /\ adapterOp \in OperationType
      /\ NoIdentity \in IdentityType /\ FreshMemory \in MemoryType
      /\ NoOperation \in OperationType
  BY ProcFacts
<1>1. own.loaded
  BY <1>0 DEF OperationKnows
<1>2. CASE adapterOp.kind = "close"
  <2>1. adapterOp' = NoOperation /\ own' = FreshMemory
    BY <1>2 DEF AfterStop, Ends
  <2> QED
    BY <1>0, <2>1 DEF NoOperation, FreshMemory
<1>3. CASE adapterOp.kind # "close"
  <2>1. own' = [own EXCEPT !.meta = NoIdentity, !.transient = NoIdentity, !.child = NoIdentity]
    BY <1>3 DEF AfterStop
  <2>2. /\ own' \in MemoryType /\ own'.meta = NoIdentity /\ own'.transient = NoIdentity
        /\ own'.child = NoIdentity /\ own'.loaded
    BY <1>0, <1>1, <2>1 DEF MemoryType
  <2>3. /\ adapterOp' \in OperationType /\ adapterOp'.at \in {"idle", "own"}
        /\ adapterOp'.at = "own" => adapterOp'.kind # "none"
    BY <1>0, <1>3 DEF AfterStop, OperationType, OperationPlaces, NoOperation
  <2> QED
    BY <2>2, <2>3
<1> QED
  BY <1>2, <1>3

\* The subject of a stop: what it is, and that it is all the stop may forget
LEMMA SubjectFacts ==
  ASSUME ProcInv, StopSubject # NoIdentity
  PROVE  /\ StopSubject \in IdentityType /\ TrueIn(StopSubject, procs, starts)
         /\ own.meta # NoIdentity => own.meta = StopSubject
         /\ own.child # NoIdentity => own.child = StopSubject
BY ProcFacts DEF StopSubject, Owned, IdentitiesTrue, OneSubject

\* Probe and signal: the process that is signalled is the subject.
LEMMA SignalKeeps ==
  ASSUME ProcInv, NEW next \in {"grace", "killed"}, NEW blind \in BOOLEAN,
         adapterOp.at = IF next = "grace" THEN "stop" ELSE "kill",
         StopSubject # NoIdentity, SignalSubject(next, blind)
  PROVE  ProcInv'
<1>0. ProcTypeOK /\ OperationKnows /\ adapterOp \in OperationType
  BY ProcFacts
<1>1. /\ StopSubject \in IdentityType /\ TrueIn(StopSubject, procs, starts)
      /\ own.meta # NoIdentity => own.meta = StopSubject
      /\ own.child # NoIdentity => own.child = StopSubject
  BY SubjectFacts
<1> DEFINE seen == ProbeIdentity(StopSubject.pid, blind)
<1>2. /\ ~blind /\ seen # StopSubject => ~Running(StopSubject)
      /\ seen = StopSubject => Running(StopSubject)
  BY <1>0, <1>1, ProbeTells
<1>3. adapterOp.at \in {"stop", "grace", "kill", "killed"} /\ UNCHANGED <<procs, starts>>
  BY DEF SignalSubject
<1>4. CASE seen = NoIdentity
  <2>1. Forget /\ LetGo(StopSubject, blind) /\ UNCHANGED signalled
    BY <1>4 DEF SignalSubject
  <2>2. record' = RecordWithout(own.meta)
        /\ \E place \in {"own", "idle"} : AfterStop(place)
    BY <2>1 DEF Forget
  <2>3. givenUp \subseteq givenUp' /\ (blind /\ Running(StopSubject) => StopSubject.start \in givenUp')
    BY <2>1, LetGoFacts
  <2>4. /\ own' \in MemoryType /\ own'.meta = NoIdentity /\ own'.transient = NoIdentity
        /\ own'.child = NoIdentity /\ (own' = FreshMemory \/ own'.loaded)
        /\ adapterOp' \in OperationType /\ adapterOp'.at \in {"idle", "own"}
        /\ adapterOp'.at = "own" => adapterOp'.kind # "none"
    BY <1>3, <2>2, AfterStopFacts
  <2>5. ~Running(StopSubject) \/ StopSubject.start \in givenUp'
    BY <1>2, <1>4, <2>3
  <2> QED
    BY <1>1, <1>3, <2>1, <2>2, <2>3, <2>4, <2>5, SubjectForgotten
<1>5. CASE seen = StopSubject
  <2>1. /\ signalled' = signalled \union {procs[StopSubject.pid].start}
        /\ Goes(next) /\ UNCHANGED <<record, own, givenUp>>
    BY <1>5 DEF SignalSubject, MatchesIdentity
  <2>2. PICK p \in Pids : p = StopSubject.pid /\ procs[p].start = StopSubject.start
    BY <1>2, <1>5 DEF Running
  <2>3. /\ procs[p].owner = "engine"
        /\ \A q \in Pids : procs[q].start = procs[p].start => q = p
    BY <1>1, <2>2 DEF TrueIn
  <2>4. procs[p].start \in 1..starts
    <3>1. procs[p].start \in Nat /\ starts \in Nat
      BY <1>0 DEF ProcTypeOK, ProcessType
    <3> QED
      BY <1>1, <2>2, <3>1 DEF TrueIn
  <2>5. /\ adapterOp' \in OperationType /\ adapterOp'.at = next
        /\ adapterOp'.kind = adapterOp.kind
    BY <1>0, <2>1 DEF Goes, OperationType, OperationPlaces
  <2>6. OperationKnows'
    BY <1>0, <1>3, <2>1, <2>5 DEF OperationKnows
  <2>7. BeforeRecord => BeforeRecord'
    BY <1>3, <2>5 DEF BeforeRecord
  <2> QED
    BY <1>3, <2>1, <2>2, <2>3, <2>4, <2>5, <2>6, <2>7, OperationMoves
<1>6. CASE seen # NoIdentity /\ seen # StopSubject
  <2>1. /\ record' = RecordWithout(own.meta) /\ AfterStop("idle")
        /\ UNCHANGED <<signalled, givenUp>>
    BY <1>6 DEF SignalSubject, MatchesIdentity
  <2>2. /\ own' \in MemoryType /\ own'.meta = NoIdentity /\ own'.transient = NoIdentity
        /\ own'.child = NoIdentity /\ (own' = FreshMemory \/ own'.loaded)
        /\ adapterOp' \in OperationType /\ adapterOp'.at \in {"idle", "own"}
        /\ adapterOp'.at = "own" => adapterOp'.kind # "none"
    BY <1>3, <2>1, AfterStopFacts
  <2>3. ~Running(StopSubject)
    BY <1>2, <1>6 DEF ProbeIdentity
  <2> QED
    BY <1>1, <1>3, <2>1, <2>2, <2>3, SubjectForgotten
<1> QED
  BY <1>4, <1>5, <1>6

\* The rest of a stop: the exit that is seen, the child that is left alone,
\* the signal that is refused; and the crash of the service
LEMMA StopKeeps ==
  ASSUME ProcInv,
         \/ \E blind \in BOOLEAN : Terminate(blind) \/ Kill(blind) \/ ExitSeen(blind)
         \/ StopUnproved \/ StopFails \/ ServiceCrashes
  PROVE  ProcInv'
<1>0. /\ ProcTypeOK /\ IdentitiesTrue /\ OneSubject /\ OperationKnows /\ StartupOnly
      /\ own.meta \in IdentityType
  BY ProcFacts
<1>1. ASSUME NEW blind \in BOOLEAN, Terminate(blind)
      PROVE  ProcInv'
  <2>1. adapterOp.at = "stop" /\ StopSubject # NoIdentity /\ SignalSubject("grace", blind)
    BY <1>1 DEF Terminate, SignalOwned, SignalTransient, StopSubject, Owned
  <2> QED
    BY <2>1, SignalKeeps
<1>2. ASSUME NEW blind \in BOOLEAN, Kill(blind)
      PROVE  ProcInv'
  <2>1. adapterOp.at = "kill" /\ StopSubject # NoIdentity /\ SignalSubject("killed", blind)
    BY <1>2 DEF Kill, SignalOwned, SignalTransient, StopSubject, Owned
  <2> QED
    BY <2>1, SignalKeeps
<1>3. ASSUME NEW blind \in BOOLEAN, ExitSeen(blind)
      PROVE  ProcInv'
  <2>1. /\ adapterOp.at \in {"stop", "grace", "kill", "killed"}
        /\ UNCHANGED <<procs, starts, signalled>>
        /\ record' = RecordWithout(own.meta)
        /\ \E place \in {"own", "idle"} : AfterStop(place)
    BY <1>3 DEF ExitSeen, Forget
  <2>2. /\ own' \in MemoryType /\ own'.meta = NoIdentity /\ own'.transient = NoIdentity
        /\ own'.child = NoIdentity /\ (own' = FreshMemory \/ own'.loaded)
        /\ adapterOp' \in OperationType /\ adapterOp'.at \in {"idle", "own"}
        /\ adapterOp'.at = "own" => adapterOp'.kind # "none"
    BY <2>1, AfterStopFacts
  <2>3. CASE OwnedExit(blind)
    <3>1. own.meta # NoIdentity /\ LetGo(own.meta, blind)
      BY <2>3 DEF OwnedExit, Owned
    <3>2. givenUp \subseteq givenUp' /\ (blind /\ Running(own.meta) => own.meta.start \in givenUp')
      BY <3>1, LetGoFacts
    <3>3. own.child # NoIdentity => own.child = own.meta
      BY <1>0, <3>1 DEF OneSubject
    <3>4. ~Running(own.meta) \/ own.meta.start \in givenUp'
      <4>1. CASE own.child # NoIdentity
        BY <2>3, <3>3, <4>1 DEF OwnedExit
      <4>2. CASE own.child = NoIdentity
        <5>1. ProbeIdentity(own.meta.pid, blind) # own.meta
          BY <2>3, <4>2 DEF OwnedExit, MatchesIdentity
        <5>2. ~blind => ~Running(own.meta)
          BY <1>0, <3>1, <5>1, ProbeTells DEF IdentitiesTrue
        <5> QED
          BY <3>2, <5>2
      <4> QED
        BY <4>1, <4>2
    <3> QED
      BY <2>1, <2>2, <3>2, <3>3, <3>4, SubjectForgotten
  <2>4. CASE TransientExit
    <3>1. own.meta = NoIdentity /\ ~Running(own.child) /\ givenUp' = givenUp
      BY <2>4 DEF TransientExit, Owned
    <3> QED
      BY <2>1, <2>2, <3>1, SubjectForgotten
  <2> QED
    BY <1>3, <2>3, <2>4 DEF ExitSeen
<1>4. CASE StopUnproved
  <2>1. /\ adapterOp.at = "stop" /\ own.meta = NoIdentity /\ own.transient = NoIdentity
        /\ UNCHANGED <<procs, record, starts, signalled>>
    BY <1>4 DEF StopUnproved, StopSubject, Owned
  <2>2. CASE Running(own.child)
    <3>1. LetGo(own.child, TRUE) /\ Ends /\ (own' = own \/ own' = FreshMemory)
      BY <1>4, <2>2 DEF StopUnproved
    <3>2. givenUp \subseteq givenUp' /\ own.child.start \in givenUp'
      BY <2>2, <3>1, LetGoFacts
    <3> QED
      BY <2>1, <3>1, <3>2, OperationEnds
  <2>3. CASE ~Running(own.child)
    <3>1. AfterStop("idle") /\ UNCHANGED givenUp
      BY <1>4, <2>3 DEF StopUnproved
    <3>2. /\ own' \in MemoryType /\ own'.meta = NoIdentity /\ own'.transient = NoIdentity
          /\ own'.child = NoIdentity /\ (own' = FreshMemory \/ own'.loaded)
          /\ adapterOp' \in OperationType /\ adapterOp'.at \in {"idle", "own"}
          /\ adapterOp'.at = "own" => adapterOp'.kind # "none"
      BY <2>1, <3>1, AfterStopFacts
    <3>3. record' = RecordWithout(own.meta)
      BY <2>1 DEF RecordWithout
    <3> QED
      BY <2>1, <2>3, <3>1, <3>2, <3>3, SubjectForgotten
  <2> QED
    BY <2>2, <2>3
<1>5. CASE StopFails
  <2>1. /\ StopSubject # NoIdentity /\ adapterOp.at \in {"stop", "kill", "killed"}
        /\ LetGo(StopSubject, record # StopSubject)
        /\ Ends /\ (own' = own \/ own' = FreshMemory)
        /\ UNCHANGED <<procs, record, starts, signalled>>
    BY <1>5 DEF StopFails
  <2>2. /\ own.meta # NoIdentity => own.meta = StopSubject
        /\ own.child # NoIdentity => own.child = StopSubject
    BY <2>1, SubjectFacts
  <2>3. PICK accepted \in BOOLEAN : accepted = (record # StopSubject)
    OBVIOUS
  <2>4. LetGo(StopSubject, accepted)
    BY <2>1, <2>3
  <2>5. /\ givenUp \subseteq givenUp'
        /\ accepted /\ Running(StopSubject) => StopSubject.start \in givenUp'
    BY <2>4, LetGoFacts
  <2> QED
    BY <2>1, <2>2, <2>3, <2>5, OperationEnds
<1>6. CASE ServiceCrashes
  <2>1. /\ own' = FreshMemory /\ Ends /\ LetGo(own.child, BeforeRecord)
        /\ UNCHANGED <<procs, record, starts, signalled>>
    BY <1>6 DEF ServiceCrashes
  <2>2. PICK accepted \in BOOLEAN : accepted = BeforeRecord
    BY DEF BeforeRecord
  <2>3. LetGo(own.child, accepted)
    BY <2>1, <2>2
  <2>4. /\ givenUp \subseteq givenUp'
        /\ accepted /\ Running(own.child) => own.child.start \in givenUp'
    BY <2>3, LetGoFacts
  <2>5. /\ own.meta # NoIdentity /\ Running(own.meta)
        /\ own.meta.start \notin givenUp'
        => record = own.meta
    BY <1>0, <2>2, <2>4 DEF StartupOnly, Tended
  <2>6. /\ own.child # NoIdentity /\ Running(own.child)
        /\ own.child.start \notin givenUp'
        => record = own.child
    BY <1>0, <2>2, <2>4, <2>5 DEF StartupOnly, Tended
  <2> QED
    BY <2>1, <2>4, <2>5, <2>6, OperationEnds
<1> QED
  BY <1>1, <1>2, <1>3, <1>4, <1>5, <1>6

\* The memory holds identities it had, or the one of a child just spawned.
LEMMA MemoryStep ==
  ASSUME ProcInv, UNCHANGED <<procs, starts, signalled>>,
         record' \in {NoIdentity, record, own.child},
         own' \in MemoryType, adapterOp' \in OperationType,
         own'.meta \in {NoIdentity, record, own.meta, own.child},
         own'.transient \in {NoIdentity, own.transient, own.child},
         own'.child \in {NoIdentity, own.child},
         OneSubject', OperationKnows', StartupOnly', Known'
  PROVE  ProcInv'
<1>0. /\ ProcTypeOK /\ IdentitiesTrue
      /\ record \in IdentityType /\ own.child \in IdentityType /\ NoIdentity \in IdentityType
  BY ProcFacts
<1>1. ProcTypeOK'
  BY <1>0 DEF ProcTypeOK
<1>2. TrueIn(NoIdentity, procs, starts)
  BY DEF TrueIn
<1>3. IdentitiesTrue'
  BY <1>0, <1>2 DEF IdentitiesTrue
<1> QED
  BY <1>1, <1>3 DEF ProcInv, StrangersUntouched

\* Ownership is established: an engine is disowned only when it is known not
\* to run, or is let go of.
LEMMA OwnKeeps ==
  ASSUME ProcInv, NEW blind \in BOOLEAN, NEW drift \in BOOLEAN, Own(blind, drift)
  PROVE  ProcInv'
<1>0. /\ ProcTypeOK /\ IdentitiesTrue /\ OneSubject /\ OperationKnows /\ StartupOnly /\ Known
      /\ record \in IdentityType /\ own \in MemoryType /\ adapterOp \in OperationType
      /\ own.meta \in IdentityType /\ NoIdentity \in IdentityType
  BY ProcFacts
<1> DEFINE loading   == ~own.loaded /\ own.child = NoIdentity
           candidate == IF loading THEN record ELSE own.meta
           kept      == \/ ~loading /\ ~(adapterOp.kind # "close")
                        \/ /\ ~(loading /\ drift)
                           /\ MatchesIdentity(candidate, ProbeIdentity(candidate.pid, blind))
<1>1. /\ adapterOp.at = "own" /\ UNCHANGED <<procs, starts, signalled>>
      /\ EstablishOwnership(adapterOp.kind # "close", blind, drift)
      /\ Goes(IF adapterOp.kind = "close" THEN "stop" ELSE "ask")
  BY DEF Own
<1>2. /\ adapterOp' \in OperationType /\ adapterOp'.kind = adapterOp.kind
      /\ adapterOp'.kind # "none" /\ adapterOp'.at \in {"stop", "ask"}
      /\ adapterOp'.at = "ask" => adapterOp'.kind # "close"
  BY <1>0, <1>1 DEF Goes, OperationType, OperationPlaces, OperationKnows
<1>3. /\ loading <=> ~own.loaded
      /\ loading => own.meta = NoIdentity /\ own.transient = NoIdentity
      /\ candidate \in IdentityType /\ TrueIn(candidate, procs, starts)
      /\ own.meta # NoIdentity => candidate = own.meta
      /\ record # NoIdentity => candidate = record
  BY <1>0 DEF OneSubject, FreshMemory, IdentitiesTrue
<1>4. ~BeforeRecord
  BY <1>1 DEF BeforeRecord
<1>5. /\ own.child # NoIdentity /\ Tended(own.child) => own.meta = own.child
      /\ own.meta # NoIdentity /\ Tended(own.meta) => record = own.meta
  BY <1>0, <1>4 DEF StartupOnly
<1>6. CASE candidate = NoIdentity
  <2>1. own' = [own EXCEPT !.loaded = TRUE] /\ UNCHANGED <<record, givenUp>>
    BY <1>1, <1>6 DEF EstablishOwnership
  <2>2. /\ own' \in MemoryType /\ own'.loaded /\ own'.meta = own.meta
        /\ own'.transient = own.transient /\ own'.child = own.child
    BY <1>0, <2>1 DEF MemoryType
  <2>3. record = NoIdentity /\ own.meta = NoIdentity
    BY <1>3, <1>6
  <2> HIDE DEF loading, candidate, kept
  <2>4. OneSubject' /\ OperationKnows'
    BY <1>0, <1>2, <2>1, <2>2, <2>3 DEF OneSubject, OperationKnows, FreshMemory
  <2>5. StartupOnly'
    BY <1>1, <1>5, <2>1, <2>2 DEF StartupOnly, Tended, Running
  <2>6. Known'
    BY <1>0, <1>1, <2>1, <2>2 DEF Known, Identity
  <2> QED
    BY <1>1, <1>2, <2>1, <2>2, <2>4, <2>5, <2>6, MemoryStep
<1>7. CASE candidate # NoIdentity /\ kept
  <2>1. /\ own' = [own EXCEPT !.loaded = TRUE, !.meta = candidate]
        /\ UNCHANGED <<record, givenUp>>
    BY <1>1, <1>7 DEF EstablishOwnership
  <2>2. /\ own' \in MemoryType /\ own'.loaded /\ own'.meta = candidate
        /\ own'.transient = own.transient /\ own'.child = own.child
    BY <1>0, <1>3, <2>1 DEF MemoryType
  <2>3. /\ candidate \in {record, own.meta}
        /\ own.child # NoIdentity => candidate = own.meta
        /\ own.transient # NoIdentity => candidate = own.meta
    BY <1>3
  <2> HIDE DEF loading, candidate, kept
  <2>4. OneSubject'
    <3>1. record \in {NoIdentity, candidate}
      BY <1>3
    <3> QED
      BY <1>0, <1>7, <2>1, <2>2, <2>3, <3>1 DEF OneSubject
  <2>5. OperationKnows'
    BY <1>2, <2>2 DEF OperationKnows
  <2>6. StartupOnly'
    BY <1>1, <1>5, <1>7, <2>1, <2>2, <2>3 DEF StartupOnly, Tended, Running
  <2>7. Known'
    <3>1. ASSUME NEW p \in Pids, procs[p].owner = "engine", procs[p].start \notin givenUp
          PROVE  Identity(p) \in {record, candidate, own.child}
      <4>1. Identity(p) # NoIdentity /\ Identity(p) \in {record, own.meta, own.child}
        BY <3>1, TendedIsKnown
      <4> QED
        BY <1>3, <4>1
    <3> QED
      BY <1>1, <2>1, <2>2, <3>1 DEF Known, Identity
  <2> QED
    BY <1>1, <1>2, <2>1, <2>2, <2>3, <2>4, <2>5, <2>6, <2>7, MemoryStep
<1>8. CASE candidate # NoIdentity /\ ~kept
  <2>1. /\ own' = [own EXCEPT !.loaded = TRUE, !.meta = NoIdentity, !.child = NoIdentity]
        /\ record' = RecordWithout(candidate) /\ LetGo(candidate, blind \/ drift)
    BY <1>1, <1>8 DEF EstablishOwnership
  <2>2. /\ own' \in MemoryType /\ own'.loaded /\ own'.meta = NoIdentity
        /\ own'.transient = own.transient /\ own'.child = NoIdentity
    BY <1>0, <2>1 DEF MemoryType
  <2>3. record' = NoIdentity
    BY <1>3, <2>1 DEF RecordWithout
  <2>4. own.transient = NoIdentity
    BY <1>0, <1>3, <1>8 DEF OneSubject
  <2>5. PICK accepted \in BOOLEAN : accepted = (blind \/ drift)
    OBVIOUS
  <2>6. givenUp \subseteq givenUp' /\ (accepted /\ Running(candidate) => candidate.start \in givenUp')
    BY <2>1, <2>5, LetGoFacts
  <2>7. ~Running(candidate) \/ candidate.start \in givenUp'
    <3>1. CASE accepted
      BY <2>6, <3>1
    <3>2. CASE ~accepted
      <4>1. ProbeIdentity(candidate.pid, blind) # candidate /\ ~blind
        BY <1>8, <2>5, <3>2 DEF MatchesIdentity
      <4> HIDE DEF loading, candidate, kept
      <4> QED
        BY <1>0, <1>3, <1>8, <4>1, ProbeTells
    <3> QED
      BY <3>1, <3>2
  <2> HIDE DEF loading, candidate, kept
  <2>8. OneSubject' /\ OperationKnows' /\ StartupOnly'
    BY <1>2, <2>2, <2>3, <2>4 DEF OneSubject, OperationKnows, StartupOnly
  <2>9. Known'
    <3> SUFFICES ASSUME NEW p \in Pids, procs[p].owner = "engine",
                        procs[p].start \notin givenUp'
                 PROVE  FALSE
      BY <1>1 DEF Known
    <3>1. /\ Identity(p) # NoIdentity
          /\ \/ record = Identity(p) /\ Tended(record)
             \/ own.meta = Identity(p) /\ Tended(own.meta)
             \/ own.child = Identity(p) /\ Tended(own.child)
      BY <2>6, TendedIsKnown
    <3>2. candidate = Identity(p) /\ Running(candidate)
      BY <1>3, <1>5, <3>1 DEF Tended
    <3>3. Identity(p).start = procs[p].start
      BY DEF Identity
    <3> QED
      BY <2>7, <3>2, <3>3
  <2> QED
    BY <1>1, <1>2, <2>2, <2>3, <2>8, <2>9, MemoryStep
<1> QED
  BY <1>6, <1>7, <1>8

\* A child is spawned only when no engine is tended, under a new start.
LEMMA SpawnKeeps ==
  ASSUME ProcInv, NEW p \in Pids, NEW form \in {"wrapper", "engine"}, Spawn(p, form)
  PROVE  ProcInv'
<1>0. /\ ProcTypeOK /\ IdentitiesTrue /\ OneSubject /\ OperationKnows /\ StartupOnly /\ Known
      /\ record \in IdentityType /\ own \in MemoryType /\ adapterOp \in OperationType
      /\ own.child \in IdentityType /\ NoIdentity \in IdentityType
      /\ signalled \subseteq 1..starts /\ StrangersUntouched
  BY ProcFacts DEF ProcInv
<1> DEFINE new   == [owner |-> "engine", start |-> starts + 1, form |-> form,
                     alias |-> adapterOp.alias, up |-> FALSE]
           child == [pid |-> p, start |-> starts + 1, alias |-> adapterOp.alias]
<1>1. /\ adapterOp.at = "spawn" /\ procs[p] = NoProcess
      /\ procs' = [procs EXCEPT ![p] = new] /\ starts' = starts + 1
      /\ own' = [own EXCEPT !.loaded = TRUE, !.transient = NoIdentity, !.child = child]
      /\ adapterOp' = [adapterOp EXCEPT !.at = "observe", !.kind = "poll"]
      /\ UNCHANGED <<record, signalled, givenUp>>
  BY DEF Spawn
<1>2. starts \in Nat /\ starts' \in Nat /\ starts <= starts' /\ adapterOp.alias \in AliasOrNone
  BY <1>0, <1>1 DEF ProcTypeOK, OperationType
<1>3. new \in ProcessType /\ child \in IdentityType
  BY <1>2 DEF ProcessType, IdentityType
<1>4. /\ new.owner = "engine" /\ new.start = starts + 1 /\ new.alias = adapterOp.alias
      /\ child.pid = p /\ child.start = starts + 1 /\ child.alias = adapterOp.alias
      /\ child # NoIdentity
  BY ProcAssumption DEF NoIdentity
<1> HIDE DEF new
<1>5. /\ procs' \in [Pids -> ProcessType] /\ procs'[p] = new
      /\ \A q \in Pids \ {p} : procs'[q] = procs[q]
  BY <1>0, <1>1, <1>3 DEF ProcTypeOK
<1>6. /\ own' \in MemoryType /\ own'.loaded /\ own'.meta = own.meta
      /\ own'.transient = NoIdentity /\ own'.child = child
  BY <1>0, <1>1, <1>3 DEF MemoryType
<1>7. /\ adapterOp' \in OperationType /\ adapterOp'.at = "observe" /\ adapterOp'.kind = "poll"
  BY <1>0, <1>1 DEF OperationType, OperationPlaces
<1>8. own.meta = NoIdentity /\ record = NoIdentity
  BY <1>0, <1>1 DEF OperationKnows, OneSubject
<1>9. \A q \in Pids : procs[q].start <= starts /\ procs[q].start \in Nat
  BY <1>0 DEF ProcTypeOK, ProcessType
<1>10. ASSUME NEW q \in Pids, procs[q].owner = "engine"
       PROVE  procs[q].start \in givenUp
  <2>1. ~BeforeRecord
    BY <1>1 DEF BeforeRecord
  <2>2. own.child # NoIdentity => ~Tended(own.child)
    BY <1>0, <1>8, <2>1 DEF StartupOnly
  <2> QED
    BY <1>8, <1>10, <2>2, TendedIsKnown
<1>11. ProcTypeOK'
  <2>1. \A q \in Pids : procs'[q].start <= starts'
    BY <1>1, <1>2, <1>4, <1>5, <1>9
  <2> QED
    BY <1>0, <1>1, <1>2, <1>5, <1>6, <1>7, <2>1 DEF ProcTypeOK
<1>12. IdentitiesTrue'
  <2>1. TrueIn(child, procs', starts')
    <3>1. \A q \in Pids : procs'[q].start = starts + 1 => q = p
      BY <1>2, <1>5, <1>9
    <3> QED
      BY <1>1, <1>2, <1>4, <1>5, <3>1 DEF TrueIn
  <2>2. TrueIn(NoIdentity, procs', starts')
    BY DEF TrueIn
  <2> HIDE DEF child
  <2> QED
    BY <1>1, <1>6, <1>8, <2>1, <2>2 DEF IdentitiesTrue
<1> HIDE DEF child
<1>13. OneSubject' /\ OperationKnows'
  BY <1>1, <1>4, <1>6, <1>7, <1>8 DEF OneSubject, OperationKnows
<1>14. StartupOnly'
  BY <1>6, <1>7, <1>8 DEF StartupOnly, BeforeRecord
<1>15. Known'
  <2> SUFFICES ASSUME NEW q \in Pids, procs'[q].owner = "engine", procs'[q].start \notin givenUp
               PROVE  Identity(q)' = child
    BY <1>1, <1>6 DEF Known
  <2>1. q = p
    BY <1>5, <1>10
  <2> QED
    BY <1>3, <1>4, <1>5, <2>1 DEF Identity, IdentityType
<1>16. signalled' \subseteq 1..starts'
  BY <1>0, <1>1, <1>2
<1>17. StrangersUntouched'
  BY <1>0, <1>1, <1>4, <1>5 DEF StrangersUntouched
<1> QED
  BY <1>11, <1>12, <1>13, <1>14, <1>15, <1>16, <1>17 DEF ProcInv

\* The child is observed, and recorded once it is the engine.
LEMMA ObserveKeeps ==
  ASSUME ProcInv, ObserveWrapper \/ \E written \in BOOLEAN : ObserveEngine(written)
  PROVE  ProcInv'
<1>0. /\ ProcTypeOK /\ IdentitiesTrue /\ OneSubject /\ OperationKnows /\ StartupOnly /\ Known
      /\ record \in IdentityType /\ own \in MemoryType /\ adapterOp \in OperationType
      /\ own.child \in IdentityType /\ NoIdentity \in IdentityType
  BY ProcFacts
<1>1. /\ adapterOp.at = "observe" /\ adapterOp.kind = "poll" /\ own.loaded
      /\ own.meta = NoIdentity /\ own.child # NoIdentity /\ record = NoIdentity
  BY <1>0 DEF ObserveWrapper, ObserveEngine, OperationKnows, OneSubject
<1>2. CASE ObserveWrapper
  <2>1. /\ own' = [own EXCEPT !.transient = own.child]
        /\ UNCHANGED <<procs, record, adapterOp, starts, signalled, givenUp>>
    BY <1>2 DEF ObserveWrapper
  <2>2. /\ own' \in MemoryType /\ own'.loaded = own.loaded /\ own'.meta = own.meta
        /\ own'.transient = own.child /\ own'.child = own.child
    BY <1>0, <2>1 DEF MemoryType
  <2>3. OneSubject' /\ OperationKnows'
    BY <1>0, <1>1, <2>1, <2>2 DEF OneSubject, OperationKnows
  <2>4. StartupOnly'
    BY <1>1, <2>1, <2>2 DEF StartupOnly, BeforeRecord
  <2>5. Known'
    BY <1>0, <2>1, <2>2 DEF Known, Identity
  <2> QED
    BY <1>0, <2>1, <2>2, <2>3, <2>4, <2>5, MemoryStep
<1>3. ASSUME NEW written \in BOOLEAN, ObserveEngine(written)
      PROVE  ProcInv'
  <2>1. /\ own' = [own EXCEPT !.meta = own.child, !.transient = NoIdentity]
        /\ record' = IF written THEN own.child ELSE record
        /\ adapterOp' = [adapterOp EXCEPT !.at = IF written THEN "poll" ELSE "stop"]
        /\ UNCHANGED <<procs, starts, signalled, givenUp>>
    BY <1>3 DEF ObserveEngine, RecordOwnership, Goes
  <2>2. /\ own' \in MemoryType /\ own'.loaded = own.loaded /\ own'.meta = own.child
        /\ own'.transient = NoIdentity /\ own'.child = own.child
    BY <1>0, <2>1 DEF MemoryType
  <2>3. /\ adapterOp' \in OperationType /\ adapterOp'.kind = "poll"
        /\ adapterOp'.at = IF written THEN "poll" ELSE "stop"
    BY <1>0, <1>1, <2>1 DEF OperationType, OperationPlaces
  <2>4. OneSubject' /\ OperationKnows'
    BY <1>0, <1>1, <2>1, <2>2, <2>3 DEF OneSubject, OperationKnows
  <2>5. StartupOnly'
    BY <2>1, <2>2, <2>3 DEF StartupOnly, BeforeRecord
  <2>6. Known'
    <3>1. ASSUME NEW p \in Pids, procs[p].owner = "engine", procs[p].start \notin givenUp
          PROVE  Identity(p) = own.child
      BY <1>1, <3>1, TendedIsKnown
    <3> QED
      BY <2>1, <2>2, <3>1 DEF Known, Identity
  <2> QED
    BY <1>0, <2>1, <2>2, <2>3, <2>4, <2>5, <2>6, MemoryStep
<1> QED
  BY <1>2, <1>3

\* The kernel's own steps
LEMMA KernelSteps ==
  ASSUME ProcInv, NEW p \in Pids,
         ProcessExits(p) \/ StrangerStarts(p) \/ WrapperExecs(p) \/ Listens(p)
  PROVE  ProcInv'
<1>0. procs[p] \in ProcessType /\ starts \in Nat
  BY DEF ProcInv, ProcTypeOK
<1>1. NoProcess \in ProcessType
  BY DEF NoProcess, ProcessType, AliasOrNone
<1>2. CASE ProcessExits(p)
  BY <1>1, <1>2, KernelKeeps DEF ProcessExits
<1>3. CASE StrangerStarts(p)
  <2>0. PICK free \in ProcessType : free = NoProcess
    BY <1>1
  <2>n. PICK n \in Nat : n = starts + 1
    BY <1>0
  <2> DEFINE new == [free EXCEPT !.owner = "stranger", !.start = n, !.form = "engine"]
  <2>1. new \in ProcessType /\ new.owner = "stranger" /\ new.start = n
    BY DEF ProcessType
  <2>2. KernelStep(p, new) /\ starts' = starts + 1
    BY <1>3, <2>0, <2>n DEF StrangerStarts
  <2> HIDE DEF new
  <2> QED
    BY <2>1, <2>2, <2>n, KernelKeeps
<1>4. CASE WrapperExecs(p)
  <2> DEFINE new == [procs[p] EXCEPT !.form = "engine"]
  <2>1. /\ new \in ProcessType /\ new.owner = procs[p].owner /\ new.start = procs[p].start
        /\ new.alias = procs[p].alias
    BY <1>0 DEF ProcessType
  <2>2. KernelStep(p, new) /\ starts' = starts
    BY <1>4 DEF WrapperExecs
  <2> HIDE DEF new
  <2> QED
    BY <2>1, <2>2, KernelKeeps
<1>5. CASE Listens(p)
  <2> DEFINE new == [procs[p] EXCEPT !.up = TRUE]
  <2>1. /\ new \in ProcessType /\ new.owner = procs[p].owner /\ new.start = procs[p].start
        /\ new.alias = procs[p].alias
    BY <1>0 DEF ProcessType
  <2>2. KernelStep(p, new) /\ starts' = starts
    BY <1>5 DEF Listens
  <2> HIDE DEF new
  <2> QED
    BY <2>1, <2>2, KernelKeeps
<1> QED
  BY <1>2, <1>3, <1>4, <1>5

\* The invariant of the process adapter holds of every behaviour.
LEMMA ProcInvariant == ProcSpec => []ProcInv
<1>1. ProcInit => ProcInv
  <2> SUFFICES ASSUME ProcInit PROVE ProcInv
    OBVIOUS
  <2>1. NoIdentity \in IdentityType
    BY DEF NoIdentity, IdentityType, AliasOrNone
  <2>2. NoProcess \in ProcessType /\ NoProcess.start = 0 /\ NoProcess.owner = "nobody"
    BY DEF NoProcess, ProcessType, AliasOrNone
  <2>3. /\ FreshMemory \in MemoryType /\ ~FreshMemory.loaded
        /\ FreshMemory.meta = NoIdentity /\ FreshMemory.transient = NoIdentity
        /\ FreshMemory.child = NoIdentity
    BY <2>1 DEF FreshMemory, MemoryType
  <2>4. NoOperation \in OperationType /\ NoOperation.at = "idle"
    BY DEF NoOperation, OperationType, OperationPlaces, AliasOrNone
  <2>5. ProcTypeOK
    BY <2>1, <2>2, <2>3, <2>4 DEF ProcInit, ProcTypeOK
  <2>6. IdentitiesTrue /\ OneSubject /\ OperationKnows /\ StartupOnly
    BY <2>3, <2>4 DEF ProcInit, IdentitiesTrue, TrueIn, OneSubject, OperationKnows, StartupOnly
  <2>7. Known /\ StrangersUntouched /\ signalled \subseteq 1..starts
    BY <2>2 DEF ProcInit, Known, StrangersUntouched
  <2> QED
    BY <2>5, <2>6, <2>7 DEF ProcInv
<1>2. ProcInv /\ [ProcNext]_procVars => ProcInv'
  <2> SUFFICES ASSUME ProcInv, [ProcNext]_procVars PROVE ProcInv'
    OBVIOUS
  <2>1. CASE UNCHANGED procVars
    BY <2>1 DEF procVars, ProcInv, ProcTypeOK, IdentitiesTrue, OneSubject, OperationKnows,
       StartupOnly, Tended, Running, BeforeRecord, Known, Identity, StrangersUntouched
  <2>2. CASE ProcNext
    BY <2>2, KernelSteps, SpawnKeeps, OwnKeeps, ObserveKeeps, PlainMoves, StopKeeps
       DEF ProcNext
  <2> QED
    BY <2>1, <2>2
<1> QED
  BY <1>1, <1>2, PTL DEF ProcSpec

\* No signal ever reaches a process the adapter did not spawn, whatever pids
\* are reused and however often the service restarts with an old record
\* (engines/ds4.py:1065): the identities it acts on are true for good, because
\* the kernel never hands out a start identity twice.
THEOREM StrangersSafe == ProcSpec => []StrangersUntouched
<1>1. ProcInv => StrangersUntouched
  BY DEF ProcInv
<1> QED
  BY <1>1, ProcInvariant, PTL

\* Every engine that runs, but for those let go of knowingly, is known to the
\* memory or to the record, and there is at most one (engines/ds4.py:989): the
\* memory and the record never name two processes, and only a start-up in
\* progress has an engine that is in no record.
THEOREM EnginesTracked == ProcSpec => []EngineTracked
<1>1. ProcInv => EngineTracked
  <2> SUFFICES ASSUME ProcInv PROVE EngineTracked
    OBVIOUS
  <2> DEFINE tended == {p \in Pids : procs[p].owner = "engine" /\ procs[p].start \notin givenUp}
  <2>1. \A p \in tended : Identity(p) \in {record, own.meta, own.child}
    BY DEF ProcInv, Known
  <2>2. \A p, q \in tended : p = q
    <3> SUFFICES ASSUME NEW p \in tended, NEW q \in tended PROVE p = q
      OBVIOUS
    <3>1. Identity(p) # NoIdentity /\ Identity(q) # NoIdentity
      BY TendedIsKnown
    <3>2. Identity(p) = Identity(q)
      BY <2>1, <3>1 DEF ProcInv, OneSubject, FreshMemory
    <3> QED
      BY <3>2 DEF Identity
  <2>3. Cardinality(tended) <= 1
    <3>1. CASE tended = {}
      BY <3>1, FS_EmptySet
    <3>2. CASE tended # {}
      <4>1. PICK p \in tended : tended = {p}
        BY <2>2, <3>2
      <4> QED
        <5>1. Cardinality({p}) = 1
          BY FS_Singleton
        <5> HIDE DEF tended
        <5> QED
          BY <4>1, <5>1
    <3> QED
      BY <3>1, <3>2
  <2> QED
    BY <2>1, <2>3 DEF EngineTracked
<1> QED
  BY <1>1, ProcInvariant, PTL
=============================================================================
