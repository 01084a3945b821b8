--------------------------- MODULE MacBenchmarks ----------------------------
(***************************************************************************)
(* Automatic choice between the engines that can serve one profile         *)
(* (benchmarking.py, runtime.py): measurements kept in SQLite and cached,  *)
(* keyed by the runtime and the candidates they were taken with, the       *)
(* verified context windows that are part of those candidates, and the     *)
(* rejection of an alternative that failed a request.                      *)
(***************************************************************************)
EXTENDS Naturals, Sequences, FiniteSets

CONSTANTS MaxRuns,     \* benchmarks and context profiles ever started
          MaxDrifts    \* changes of a runtime or of the configuration, restarts

\* One alternative beside the profile's own engine
Candidates == {"primary", "alternative"}
Runtimes == 1..2       \* a runtime that is updated and rolled back
UnknownRuntime == 0

VARIABLES running,     \* what is really installed, per engine
          known,       \* _runtime_fingerprints
          setup,       \* the configured candidates
          window,      \* the context window each candidate is loaded with
          stored,      \* native_engine_benchmarks
          cached,      \* _benchmark_records
          contexts,    \* native_context_benchmarks, one row per engine
          bench,       \* the run that holds _benchmark_lock
          inUse,       \* a request has been resolved to the alternative
          rejected,    \* the alternative failed and was not measured since
          runs, drifts

benchVars == <<running, known, setup, window, stored, cached, contexts, bench,
               inUse, rejected, runs, drifts>>
evidence  == <<stored, cached, contexts>>

NoBench == [at |-> "none"]
BenchInit ==
    /\ running = [e \in Candidates |-> 1]
    /\ known = running
    /\ setup = 1 /\ window = [e \in Candidates |-> 1]
    /\ stored = {} /\ cached = {}
    /\ contexts = [e \in Candidates |-> [runtime |-> UnknownRuntime, verified |-> 1]]
    /\ bench = NoBench /\ inUse = FALSE /\ rejected = FALSE
    /\ runs = 0 /\ drifts = 0

\* candidate_set_fingerprint: the candidates with their windows
Revision == <<setup, window>>

\* choose_target, for the benchmark policy: fresh exact evidence for both
\* candidates, no smaller a window, and a clear improvement
Matches(e) == {r \in cached : /\ r.engine = e /\ r.runtime = known[e]
                              /\ r.revision = Revision /\ r.good /\ r.fresh}
Choose ==
    IF /\ window["alternative"] >= window["primary"]
       /\ \E p \in Matches("primary"), a \in Matches("alternative") : a.speed > p.speed
    THEN "alternative" ELSE "primary"

\* _apply_context_evidence, from the configured windows every time
Windows(fingerprints) ==
    [e \in Candidates |-> IF contexts[e].runtime = fingerprints[e] THEN contexts[e].verified
                          ELSE 1]
\* _refresh_runtime_fingerprints: an engine may not answer
FingerprintsRead ==
    \E silent \in SUBSET Candidates :
        /\ known' = [e \in Candidates |-> IF e \in silent THEN UnknownRuntime ELSE running[e]]
        /\ window' = Windows(known')

-----------------------------------------------------------------------------
(* What happens around the measurements.                                   *)

Drift == drifts < MaxDrifts /\ drifts' = drifts + 1
RuntimeChanges(e) ==
    /\ Drift /\ running' = [running EXCEPT ![e] = 3 - @]
    /\ UNCHANGED <<known, setup, window, evidence, bench, inUse, rejected, runs>>

\* A saved configuration; _apply_profiles keeps the cached records
SetupChanges ==
    /\ Drift /\ setup' = 3 - setup
    /\ window' = Windows(known)
    /\ UNCHANGED <<running, known, evidence, bench, inUse, rejected, runs>>

\* max_benchmark_age_hours
RecordsAge ==
    /\ Drift
    /\ stored' = {[r EXCEPT !.fresh = FALSE] : r \in stored}
    /\ cached' = {[r EXCEPT !.fresh = FALSE] : r \in cached}
    /\ UNCHANGED <<running, known, setup, window, contexts, bench, inUse, rejected, runs>>

ServiceRestarts ==
    /\ Drift
    /\ cached' = stored /\ FingerprintsRead
    /\ bench' = NoBench /\ inUse' = FALSE
    /\ UNCHANGED <<running, setup, stored, contexts, rejected, runs>>

Maintenance ==
    /\ FingerprintsRead
    /\ UNCHANGED <<running, setup, evidence, bench, inUse, rejected, runs, drifts>>

\* resolve_target
ResolveAlternative ==
    /\ Choose = "alternative" /\ ~inUse /\ inUse' = TRUE
    /\ UNCHANGED <<running, known, setup, window, evidence, bench, rejected, runs, drifts>>

\* The request fails: reject_benchmark_evidence
BugRejectAlternative ==
    /\ inUse /\ inUse' = FALSE
    /\ cached' = {} /\ rejected' = TRUE
    /\ UNCHANGED <<running, known, setup, window, stored, contexts, bench, runs, drifts>>
RejectAlternative ==
    /\ inUse /\ inUse' = FALSE
    /\ stored' = {} /\ cached' = {} /\ rejected' = TRUE
    /\ UNCHANGED <<running, known, setup, window, contexts, bench, runs, drifts>>

AlternativeServes ==
    /\ inUse /\ inUse' = FALSE
    /\ UNCHANGED <<running, known, setup, window, evidence, bench, rejected, runs, drifts>>

-----------------------------------------------------------------------------
(* benchmark_model                                                         *)

\* The candidates are read before the lock is waited for
BenchAsked(kind) ==
    /\ bench = NoBench /\ runs < MaxRuns /\ runs' = runs + 1
    /\ bench' = [at |-> "refresh", kind |-> kind, revision |-> Revision,
                 todo |-> <<"primary", "alternative">>, results |-> FALSE]
    /\ UNCHANGED <<running, known, setup, window, evidence, inUse, rejected, drifts>>

BenchRefreshes ==
    /\ bench.at = "refresh" /\ FingerprintsRead
    /\ bench' = [bench EXCEPT !.at = "next"]
    /\ UNCHANGED <<running, setup, evidence, inUse, rejected, runs, drifts>>

\* run_candidate notes the runtime before it waits for the lease
CandidateBegins ==
    /\ bench.at = "next" /\ bench.todo # <<>>
    /\ bench' = [at |-> "measure", kind |-> bench.kind, revision |-> bench.revision,
                 todo |-> bench.todo, results |-> bench.results,
                 runtime |-> running[bench.todo[1]]]
    /\ UNCHANGED <<running, known, setup, window, evidence, inUse, rejected, runs, drifts>>

NextCandidate(results) ==
    [at |-> "next", kind |-> bench.kind, revision |-> bench.revision,
     todo |-> IF Len(bench.todo) = 1 THEN <<>> ELSE <<bench.todo[2]>>, results |-> results]

\* The store keeps one row per engine, runtime and revision
Upsert(r) ==
    {o \in stored : <<o.engine, o.runtime, o.revision>> # <<r.engine, r.runtime, r.revision>>}
    \union {r}
CandidateMeasured(good, speed) ==
    LET r == [engine |-> bench.todo[1], runtime |-> bench.runtime,
              revision |-> bench.revision, good |-> good, speed |-> speed, fresh |-> TRUE]
    IN  /\ bench.at = "measure" /\ bench.kind = "speed"
        /\ stored' = Upsert(r)
        /\ rejected' = (rejected /\ ~(good /\ r.engine = "alternative"))
        /\ bench' = NextCandidate(TRUE)
        /\ UNCHANGED <<running, known, setup, window, cached, contexts, inUse, runs, drifts>>

CandidateFails ==
    /\ bench.at \in {"next", "measure"} /\ bench.todo # <<>>
    /\ bench' = NextCandidate(bench.results)
    /\ UNCHANGED <<running, known, setup, window, evidence, inUse, rejected, runs, drifts>>

BenchEnds ==
    /\ bench.at = "next" /\ bench.todo = <<>> /\ bench.kind = "speed"
    /\ cached' = stored /\ FingerprintsRead
    /\ bench' = NoBench
    /\ UNCHANGED <<running, setup, stored, contexts, inUse, rejected, runs, drifts>>

-----------------------------------------------------------------------------
(* profile_model_context                                                   *)

\* The largest window that was really filled
ContextVerified(tokens) ==
    /\ bench.at = "measure" /\ bench.kind = "context"
    /\ contexts' = [contexts EXCEPT ![bench.todo[1]] =
                      [runtime |-> bench.runtime, verified |-> tokens]]
    /\ bench' = NextCandidate(TRUE)
    /\ UNCHANGED <<running, known, setup, window, stored, cached, inUse, rejected, runs, drifts>>

\* New windows are new candidates: every speed record is dropped
ContextEnds ==
    /\ bench.at = "next" /\ bench.todo = <<>> /\ bench.kind = "context"
    /\ IF bench.results THEN stored' = {} /\ cached' = {} ELSE UNCHANGED <<stored, cached>>
    /\ FingerprintsRead
    /\ bench' = NoBench
    /\ UNCHANGED <<running, setup, contexts, inUse, rejected, runs, drifts>>

BenchNext ==
    \/ \E e \in Candidates : RuntimeChanges(e)
    \/ SetupChanges \/ RecordsAge \/ ServiceRestarts \/ Maintenance
    \/ ResolveAlternative \/ RejectAlternative \/ AlternativeServes
    \/ \E kind \in {"speed", "context"} : BenchAsked(kind)
    \/ BenchRefreshes \/ CandidateBegins \/ CandidateFails \/ BenchEnds \/ ContextEnds
    \/ \E good \in BOOLEAN, speed \in 1..2 : CandidateMeasured(good, speed)
    \/ \E tokens \in 1..2 : ContextVerified(tokens)

BenchSpec == BenchInit /\ [][BenchNext]_benchVars

-----------------------------------------------------------------------------
\* An alternative that failed a request is chosen again only after a good
\* measurement taken since: no cached copy, restart, later reload or run that
\* was already under way brings the discarded evidence back (runtime.py:1710).
RejectedStaysOut == rejected => Choose = "primary"
=============================================================================
