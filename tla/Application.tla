---------------------------- MODULE Application ----------------------------
(***************************************************************************)
(* The lifespan of main.py over the life of a process, in which several    *)
(* applications may start one after the other on the same singletons: the  *)
(* settings, the registry and the health checker.                          *)
(*                                                                         *)
(* Startup runs to its end without giving way: load() and start() do not   *)
(* await anything.  Setting up telemetry comes last and begins by reading  *)
(* settings.gateway; the third-party code it calls is taken to succeed.    *)
(*                                                                         *)
(* A pass of the health checker takes the providers as they are when it    *)
(* begins, awaits a probe for each that has a client, and publishes a      *)
(* report; HealthChecker models what the probes find, and here a report is *)
(* the set of the providers in it.                                         *)
(***************************************************************************)
EXTENDS ModelRegistry

VARIABLES
    phase,      \* "down", or "serving" between the lifespan's two halves
    task,       \* health_checker._task: "none", "running", or "dead" if it
                \* is set and its event loop is closed
    pass,       \* pass[w]: the check_all() that w is in, at most one
    report      \* the providers in health_checker._statuses

lifecycle == <<phase, task, pass, report>>
vars == <<registryVars, lifecycle>>

\* Who calls check_all: the background loop, and a /health request.
Callers == {"loop", "request"}

ProviderNames == UNION {ToSet(f.providers) : f \in ModelsFiles}

TypeOK ==
    /\ RegistryTypeOK
    /\ phase \in {"down", "serving"}
    /\ task \in {"none", "running", "dead"}
    /\ \A w \in Callers : \A p \in pass[w] :
         /\ pass[w] = {p}
         /\ p.todo # << >>
         /\ ToSet(p.todo) \union p.found \subseteq ProviderNames
    /\ pass["request"] # {} => phase = "serving"
    /\ pass["loop"] # {} => task = "running"
    /\ report \subseteq ProviderNames

Init ==
    /\ RegistryInit
    /\ phase = "down"
    /\ task = "none"
    /\ pass = [w \in Callers |-> {}]
    /\ report = {}

-----------------------------------------------------------------------------
(* The lifespan.                                                           *)

\* start() returns at once when there is a task, whatever became of it.
Starts ==
    /\ phase' = "serving"
    /\ task' = IF task = "none" THEN "running" ELSE task
    /\ UNCHANGED <<pass, report>>

\* otel.init() reads settings.gateway.otlp_endpoint.
Startup ==
    /\ phase = "down" /\ GatewayRead # {}
    /\ LoadSucceeds /\ BothRead
    /\ Starts

\* With no provider to build, load() has not missed the gateway half, but
\* otel.init() does: startup fails with the health checker started.
TelemetryFails ==
    /\ phase = "down" /\ GatewayRead = {}
    /\ LoadSucceeds /\ BothRead
    /\ \/ task' = (IF task = "none" THEN "running" ELSE task) /\ UNCHANGED pass
       \/ task' = "dead" /\ pass' = [pass EXCEPT !["loop"] = {}]
    /\ UNCHANGED <<phase, report>>

\* Mutant: the gateway starts with what there is.
StartupFailsServing ==
    /\ phase = "down"
    /\ LoadFailsToRead \/ LoadFailsHalfway
    /\ Starts

\* What load() raises leaves the lifespan: the server does not come up.
StartupFails ==
    /\ phase = "down"
    /\ LoadFailsToRead \/ LoadFailsHalfway
    /\ UNCHANGED lifecycle

\* stop(); the server has waited for its requests, or cancelled them.
Shutdown ==
    /\ phase = "serving"
    /\ phase' = "down"
    /\ task' = "none"
    /\ pass' = [w \in Callers |-> {}]
    /\ UNCHANGED <<registryVars, report>>

\* An exception is thrown into the lifespan at its yield, which no `finally`
\* guards: nothing stops the health checker.  Its task goes on, or ends with the
\* event loop if that is closed.
Interrupted ==
    /\ phase = "serving"
    /\ phase' = "down"
    /\ \/ UNCHANGED task /\ pass' = [pass EXCEPT !["request"] = {}]
       \/ task' = "dead" /\ pass' = [w \in Callers |-> {}]
    /\ UNCHANGED <<registryVars, report>>

-----------------------------------------------------------------------------
(* check_all().                                                            *)

\* What is left to probe: names without a client are passed over.
Ahead(names) ==
    LET known == {i \in DOMAIN names : names[i] \in DOMAIN registry.clients}
    IN  IF known = {} THEN << >> ELSE SubSeq(names, Min(known), Len(names))

\* Mutant: results of earlier reports are kept.
GoesOnMerging(w, names, found) ==
    IF Ahead(names) = << >>
    THEN report' = report \union found /\ pass' = [pass EXCEPT ![w] = {}]
    ELSE pass' = [pass EXCEPT ![w] = {[todo |-> Ahead(names), found |-> found]}]
         /\ UNCHANGED report

\* The pass of w awaits the next probe, or publishes what it found.
GoesOn(w, names, found) ==
    IF Ahead(names) = << >>
    THEN report' = found /\ pass' = [pass EXCEPT ![w] = {}]
    ELSE pass' = [pass EXCEPT ![w] = {[todo |-> Ahead(names), found |-> found]}]
         /\ UNCHANGED report

\* At first, and whenever the loop has slept through its interval.
LoopWakes ==
    /\ task = "running" /\ pass["loop"] = {}
    /\ GoesOn("loop", registry.providers, {})
    /\ UNCHANGED <<registryVars, phase, task>>

\* GET /health while there is no report; with one, it is answered from that.
HealthAsked ==
    /\ phase = "serving" /\ report = {} /\ pass["request"] = {}
    /\ GoesOn("request", registry.providers, {})
    /\ UNCHANGED <<registryVars, phase, task>>

ProbeReturns(w) ==
    /\ \E p \in pass[w] : GoesOn(w, Tail(p.todo), p.found \union {Head(p.todo)})
    /\ UNCHANGED <<registryVars, phase, task>>

-----------------------------------------------------------------------------

Next ==
    \/ (FileEdited \/ SettingsReloaded) /\ UNCHANGED lifecycle
    \/ Startup \/ StartupFails \/ TelemetryFails \/ Shutdown \/ Interrupted
    \/ LoopWakes \/ HealthAsked \/ \E w \in Callers : ProbeReturns(w)

Spec == Init /\ [][Next]_vars

(***************************************************************************)
(* A probe returns (its HTTP timeout bounds it) and a sleep is over in     *)
(* time.  Nobody has to edit, start or stop anything.                      *)
(***************************************************************************)
Fairness ==
    WF_vars(LoopWakes) /\ \A w \in Callers : WF_vars(ProbeReturns(w))

FairSpec == Spec /\ Fairness

-----------------------------------------------------------------------------
(* Properties.                                                             *)

\* After any sequence of edits, reloads, starts and failed starts, the routes
\* and the default provider that the file of the latest successful load
\* configures are in force: routes in its order, by clients of that load and no
\* older ones as long as the file configures all their providers.  A load that
\* fails later, even one that has replaced the providers and built clients,
\* takes nothing of that back.
LoadTakesEffect ==
    \A l \in latest :
        LET f == l.file IN
        /\ \A m \in DOMAIN f.routes :
             f.routes[m] # << >> /\ ToSet(f.routes[m]) \subseteq ToSet(f.providers) =>
                /\ m \in DOMAIN registry.routes
                /\ registry.routes[m] = [i \in DOMAIN f.routes[m] |-> Built(f.routes[m][i], l.load)]
        /\ f.providers # << >> => registry.default = Built(f.providers[1], l.load)

\* A gateway that serves does so from a registry that one load has completed:
\* every provider has a client of that load, with its present key and URL, and
\* so has the default.  Providers without a client, which failed loads leave
\* behind, are seen by no request.
ServedRegistryIsWhole ==
    phase = "serving" =>
        /\ \A p \in ToSet(registry.providers) :
             p \in DOMAIN registry.clients /\ registry.clients[p] = Built(p, loads)
        /\ registry.providers # << >> =>
             registry.default = Built(registry.providers[1], loads)

\* Once a load has found a provider, no model is ever "not registered" again,
\* whatever later files contain and however they fail to load: the 404 of the
\* API is for gateways that never had a provider.
KnownOnceConfigured ==
    [][registry.default # NoProvider => registry'.default # NoProvider]_vars

\* A gateway that stays up, and whose health checker lives, comes to report on
\* exactly the providers it is configured with, for good: reports of an earlier
\* life of the singletons, passes that such a life has begun, and passes of
\* /health requests do not outlast the loop's own.
ReportMatchesRegistry ==
    <>[](phase = "serving" /\ task # "dead") => <>[](report = ToSet(registry.providers))

-----------------------------------------------------------------------------
(* What the documentation says and the code does not do.                   *)

\* A provider that the file does not configure is "unknown" to its routes
\* (model_registry.py:55) and left out of them: every route of the latest file
\* is served by providers of that file.
UnknownProvidersLeftOut ==
    \A l \in latest : \A m \in DOMAIN l.file.routes \intersect DOMAIN registry.routes :
        \A i \in DOMAIN registry.routes[m] :
            registry.routes[m][i].provider \in ToSet(l.file.providers)

\* start() is to "Start the background health-check loop." (health_check.py:45):
\* a gateway that stays up comes to report on its providers.
HealthChecked ==
    <>[](phase = "serving") => <>[](report = ToSet(registry.providers))

=============================================================================
