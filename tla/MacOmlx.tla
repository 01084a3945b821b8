------------------------------ MODULE MacOmlx -------------------------------
(***************************************************************************)
(* The adapter of the external oMLX service (engines/omlx.py over          *)
(* engines/http.py).  The adapter never holds the engine: it posts a       *)
(* mutation, whose answer may be lost, and then believes only inventories  *)
(* it reads back.  The service finishes loads and unloads late, stops, and *)
(* preloads its pinned model when its directories are rescanned.           *)
(***************************************************************************)
EXTENDS FiniteSets

CONSTANTS OmlxModels,  \* models oMLX knows
          Pinned       \* the ones it preloads after a rescan, at most one

VARIABLES service,     \* [up, loaded, loading, leaving]
          omlxOp       \* the adapter operation in progress

omlxVars == <<service, omlxOp>>

StoppedService == [up |-> FALSE, loaded |-> {}, loading |-> {}, leaving |-> {}]
OmlxDone(kind, model, outcome) ==
    [at |-> "done", kind |-> kind, model |-> model, error |-> "none",
     todo |-> {}, outcome |-> outcome]

OmlxInit ==
    /\ service = [StoppedService EXCEPT !.up = TRUE]
    /\ omlxOp = OmlxDone("none", {}, "none")

-----------------------------------------------------------------------------
(* The service.                                                            *)

ServiceStep(s) == service' = s /\ UNCHANGED omlxOp

LateLoad == /\ service.loading # {}
            /\ ServiceStep([service EXCEPT !.loaded = @ \union service.loading,
                                           !.loading = {}])
LoadAborts == /\ service.loading # {}
              /\ ServiceStep([service EXCEPT !.loading = {}])
LateUnload == /\ service.leaving # {}
              /\ ServiceStep([service EXCEPT !.loaded = @ \ service.leaving,
                                             !.leaving = {}])
ServiceStops == service.up /\ ServiceStep(StoppedService)
ServiceStarts == ~service.up /\ ServiceStep([StoppedService EXCEPT !.up = TRUE])

-----------------------------------------------------------------------------
(* Requests and inventories.                                               *)

\* _request_json_response: how an exchange can end.  "retryable" is a
\* timeout, a network error or a 5xx; "fatal" any other refusal or an answer
\* that is not what the route promises; "absent" a 400 or 404.
Answers == IF service.up THEN {"none", "retryable", "fatal"} ELSE {"refused", "retryable"}

\* _failure_state: only a refused connection proves that nothing is resident.
\* inspect: an inventory with a load in progress is no authority either.
BugInventory(answer) ==
    [authoritative |-> answer = "refused" \/ answer = "none",
     stopped |-> answer = "refused",
     residents |-> IF answer = "none" THEN service.loaded ELSE {}]
Inventory(answer) ==
    [authoritative |-> \/ answer = "refused"
                       \/ answer = "none" /\ service.loading = {},
     stopped |-> answer = "refused",
     residents |-> IF answer = "none" THEN service.loaded ELSE {}]

OmlxGoes(at) == omlxOp' = [omlxOp EXCEPT !.at = at]
OmlxEnds(outcome) == omlxOp' = OmlxDone(omlxOp.kind, omlxOp.model, outcome)

OmlxBegins(kind, model) ==
    /\ omlxOp.at = "done"
    /\ omlxOp' = [OmlxDone(kind, model, "none") EXCEPT
                    !.at = IF kind = "register" THEN "settings" ELSE "before"]
    /\ UNCHANGED service

\* What the service does with a POST: nothing, at once, or later
LoadEffects(m) == {service, [service EXCEPT !.loaded = @ \union m],
                            [service EXCEPT !.loading = m]}
UnloadEffects(m) == {service, [service EXCEPT !.loaded = @ \ m],
                              [service EXCEPT !.leaving = @ \union m]}
RescanEffects == {service, [service EXCEPT !.loaded = {}, !.leaving = {}],
                  [service EXCEPT !.loaded = Pinned, !.leaving = {}],
                  [service EXCEPT !.loaded = {}, !.leaving = {}, !.loading = Pinned]}

\* _validate_mutation_response: a clean answer comes with the effect; after a
\* lost or malformed one the effect is anyone's guess.
Posted(effects, next) ==
    \E error \in Answers \union (IF service.up THEN {"absent"} ELSE {}) :
        /\ \E s \in (IF service.up THEN effects ELSE {service}) :
              /\ error = "none" => s # service \/ effects = {service}
              /\ error \in {"absent", "refused"} => s = service
              /\ service' = s
        /\ omlxOp' = [omlxOp EXCEPT !.at = next,
                        !.error = IF error = "refused" THEN "retryable" ELSE error]

-----------------------------------------------------------------------------
(* load                                                                    *)

LoadBefore(answer) ==
    LET seen == Inventory(answer)
    IN  /\ omlxOp.at = "before" /\ omlxOp.kind = "load"
        /\ CASE ~seen.authoritative \/ seen.stopped -> OmlxEnds("error")
             [] seen.authoritative /\ ~seen.stopped /\ seen.residents = omlxOp.model ->
                    OmlxEnds("handle")
             [] seen.authoritative /\ ~seen.stopped /\ seen.residents = {} ->
                    OmlxGoes("post")
             [] OTHER -> OmlxEnds("error")
        /\ UNCHANGED service

PostLoad ==
    /\ omlxOp.at = "post" /\ omlxOp.kind = "load"
    /\ Posted(LoadEffects(omlxOp.model), "await")

\* _await_loaded, one poll
AwaitLoaded(answer) ==
    LET seen == Inventory(answer)
        fatal == omlxOp.error \in {"fatal", "absent"}
    IN  /\ omlxOp.at = "await" /\ omlxOp.kind = "load"
        /\ CASE fatal \/ (seen.authoritative /\ seen.stopped) -> OmlxEnds("error")
             [] ~fatal /\ seen.authoritative /\ ~seen.stopped
                  /\ seen.residents = omlxOp.model -> OmlxEnds("handle")
             [] ~fatal /\ seen.authoritative /\ ~seen.stopped
                  /\ seen.residents \notin {{}, omlxOp.model} -> OmlxEnds("error")
             [] OTHER -> UNCHANGED omlxOp
        /\ UNCHANGED service

\* The deadline passes between two polls
AwaitExpires ==
    /\ omlxOp.at = "await"
    /\ omlxOp.error \in {"none", "retryable"}
    /\ OmlxEnds("error")
    /\ UNCHANGED service

-----------------------------------------------------------------------------
(* unload_all, by itself or as the clean-up of register_model_directories  *)

\* unload_all's first inventory: what is to be unloaded, one by one
UnloadBefore(answer) ==
    LET seen == Inventory(answer)
    IN  /\ omlxOp.at = "before" /\ omlxOp.kind \in {"unload", "register"}
        /\ IF seen.authoritative
           THEN omlxOp' = [omlxOp EXCEPT !.at = "next", !.todo = seen.residents]
           ELSE OmlxEnds("error")
        /\ UNCHANGED service

UnloadNext ==
    /\ omlxOp.at = "next"
    /\ \/ omlxOp.todo = {} /\ OmlxGoes("confirm")
       \/ \E m \in omlxOp.todo :
             omlxOp' = [omlxOp EXCEPT !.at = "each", !.model = {m}, !.todo = @ \ {m}]
    /\ UNCHANGED service

\* unload looks again before it posts
UnloadLooks(answer) ==
    LET seen == Inventory(answer)
    IN  /\ omlxOp.at = "each"
        /\ CASE ~seen.authoritative -> OmlxEnds("error")
             [] seen.authoritative /\ omlxOp.model \subseteq seen.residents -> OmlxGoes("post")
             [] OTHER -> OmlxGoes("next")
        /\ UNCHANGED service

PostUnload ==
    /\ omlxOp.at = "post" /\ omlxOp.kind \in {"unload", "register"}
    /\ IF omlxOp.model \subseteq service.loaded
       THEN Posted(UnloadEffects(omlxOp.model), "await")
       ELSE Posted({service}, "await")

\* _await_model_absent, one poll
AwaitAbsent(answer) ==
    LET seen   == Inventory(answer)
        absent == seen.authoritative /\ (seen.stopped \/ ~(omlxOp.model \subseteq seen.residents))
    IN  /\ omlxOp.at = "await" /\ omlxOp.kind \in {"unload", "register"}
        /\ CASE absent /\ omlxOp.error # "fatal" -> OmlxGoes("next")
             [] omlxOp.error = "fatal" \/ (omlxOp.error = "absent" /\ ~absent) ->
                    OmlxEnds("error")
             [] OTHER -> UNCHANGED omlxOp
        /\ UNCHANGED service

\* unload_all's last inventory must be authoritative and empty
ConfirmEmpty(answer) ==
    LET seen == Inventory(answer)
    IN  /\ omlxOp.at = "confirm"
        /\ IF seen.authoritative /\ seen.residents = {} THEN OmlxEnds("empty")
           ELSE OmlxEnds("error")
        /\ UNCHANGED service

-----------------------------------------------------------------------------
(* register_model_directories, behind the coordinator's empty barrier      *)

ReadDirectories(answer) ==
    /\ omlxOp.at = "settings"
    /\ IF answer = "none" THEN OmlxGoes("rescan") ELSE OmlxEnds("error")
    /\ UNCHANGED service

\* The rescan rebuilds the pool and preloads; its outcome, even a clean one,
\* is never trusted: unload_all follows, and its result decides.
Rescan ==
    /\ omlxOp.at = "rescan"
    /\ Posted(RescanEffects, "before")

OmlxNext ==
    \/ LateLoad \/ LoadAborts \/ LateUnload \/ ServiceStops \/ ServiceStarts
    \/ \E m \in OmlxModels : OmlxBegins("load", {m})
    \/ \E kind \in {"unload", "register"} : OmlxBegins(kind, {})
    \/ PostLoad \/ AwaitExpires \/ UnloadNext \/ PostUnload \/ Rescan
    \/ \E answer \in Answers :
          \/ LoadBefore(answer) \/ AwaitLoaded(answer)
          \/ UnloadBefore(answer) \/ UnloadLooks(answer) \/ AwaitAbsent(answer) \/ ConfirmEmpty(answer)
          \/ ReadDirectories(answer)

OmlxSpec == OmlxInit /\ [][OmlxNext]_omlxVars

-----------------------------------------------------------------------------
\* What the adapter reports stays true whatever the service still has in
\* hand: behind a reported empty engine, and behind a loaded handle, no load
\* that an earlier lost, refused or expired request began can complete and
\* put a second model in memory (engines/omlx.py:512, :842, :634).
OmlxOutcomeTrue ==
    /\ omlxOp.outcome = "empty" => service.loaded \union service.loading = {}
    /\ omlxOp.outcome = "handle" => service.loaded \union service.loading \subseteq omlxOp.model
=============================================================================
