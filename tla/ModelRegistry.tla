--------------------------- MODULE ModelRegistry ---------------------------
(***************************************************************************)
(* The registry singleton and the settings it is loaded from: the two      *)
(* files are edited on disk, Settings caches their contents and can be     *)
(* made to reload them, and load() rebuilds the registry from the cached   *)
(* settings or raises, on its first line or when half of its work is done. *)
(*                                                                         *)
(* These are the operations; Application says when they are called.        *)
(***************************************************************************)
EXTENDS Registry

CONSTANTS
    GatewayFiles,   \* gateway.yaml files that may be on disk
    ModelsFiles,    \* models.yaml files that may be on disk
    MaxLoads        \* bound on the number of calls of load()

ASSUME ModelRegistryAssumption ==
    /\ MaxLoads \in Nat
    /\ \E g \in GatewayFiles : Valid(g)
    /\ \A f \in ModelsFiles :
         /\ f.providers \in Seq(STRING)
         /\ \A m \in DOMAIN f.routes : f.routes[m] \in Seq(STRING)

VARIABLES
    gatewayFile,    \* gateway.yaml as it is on disk
    modelsFile,     \* models.yaml as it is on disk
    settings,       \* what the settings singleton has cached of them
    registry,       \* model_registry's fields
    outcome,        \* how the latest load() ended
    loads,          \* history: calls of load() so far
    latest          \* history: the latest successful one's number and file, at most one

files == <<gatewayFile, modelsFile>>
registryVars == <<files, settings, registry, outcome, loads, latest>>

RegistryTypeOK ==
    /\ gatewayFile \in GatewayFiles /\ modelsFile \in ModelsFiles
    /\ \A f \in settings.gateway : settings.gateway = {f} /\ f \in GatewayFiles /\ Valid(f)
    /\ \A f \in settings.models : settings.models = {f} /\ f \in ModelsFiles /\ Valid(f)
    /\ outcome \in {"none", "loaded", "failed"}
    /\ loads \in 0 .. MaxLoads
    /\ \A l \in latest : latest = {l} /\ l.load \in 1 .. loads /\ l.file \in ModelsFiles
    /\ \A p \in DOMAIN registry.clients :
         registry.clients[p].provider = p /\ registry.clients[p].built \in 1 .. loads
    /\ \A m \in DOMAIN registry.routes : registry.routes[m] # << >>

\* The response cache is built when its module is imported and reads its limits
\* from settings.gateway: a process that runs has parsed gateway.yaml once.
RegistryInit ==
    /\ gatewayFile \in GatewayFiles /\ Valid(gatewayFile)
    /\ modelsFile \in ModelsFiles
    /\ settings = [gateway |-> {gatewayFile}, models |-> {}]
    /\ registry = EmptyRegistry
    /\ outcome = "none"
    /\ loads = 0
    /\ latest = {}

-----------------------------------------------------------------------------

FileEdited ==
    /\ \/ gatewayFile' \in GatewayFiles \ {gatewayFile} /\ UNCHANGED modelsFile
       \/ modelsFile' \in ModelsFiles \ {modelsFile} /\ UNCHANGED gatewayFile
    /\ UNCHANGED <<settings, registry, outcome, loads, latest>>

SettingsReloaded ==
    /\ settings' = Reloaded(gatewayFile, modelsFile)
    /\ UNCHANGED <<files, registry, outcome, loads, latest>>

\* load() reads settings.models first, and settings.gateway for each provider.
ModelsRead == Value(settings.models, modelsFile)
GatewayRead == Value(settings.gateway, gatewayFile)

BothRead == settings' = [gateway |-> GatewayRead, models |-> ModelsRead]

\* The clients that step 2 builds before it is done or raises.
ClientsBuilt(file) == IF GatewayRead = {} THEN 0 ELSE Buildable(file)

\* The caller says what becomes of the settings: a load() of a file without
\* providers leaves the gateway half to whoever reads it next.
LoadSucceeds ==
    /\ loads < MaxLoads
    /\ loads' = loads + 1 /\ outcome' = "loaded"
    /\ \E f \in ModelsRead :
         /\ ClientsBuilt(f) = Len(f.providers)
         /\ registry' = Loaded(registry, f, loads')
         /\ latest' = {[load |-> loads', file |-> f]}
    /\ UNCHANGED files

\* The models file does not validate: load() raises on its first line.
LoadFailsToRead ==
    /\ loads < MaxLoads
    /\ loads' = loads + 1 /\ outcome' = "failed"
    /\ ModelsRead = {}
    /\ UNCHANGED <<files, settings, registry, latest>>

\* Mutant: the new providers are put in place last, and the routes first.
LoadFailsHalfwayRerouted ==
    /\ loads < MaxLoads
    /\ loads' = loads + 1 /\ outcome' = "failed"
    /\ \E f \in ModelsRead :
         /\ ClientsBuilt(f) < Len(f.providers)
         /\ registry' = [registry EXCEPT !.routes = Routes(registry, f, registry.clients)]
    /\ BothRead
    /\ UNCHANGED <<files, latest>>

\* The gateway half cannot be read any more, or no client can be built for a
\* provider's URL: load() raises with the providers replaced and its first
\* clients built.
LoadFailsHalfway ==
    /\ loads < MaxLoads
    /\ loads' = loads + 1 /\ outcome' = "failed"
    /\ \E f \in ModelsRead :
         /\ ClientsBuilt(f) < Len(f.providers)
         /\ registry' = HalfLoaded(registry, f, loads', ClientsBuilt(f))
    /\ BothRead
    /\ UNCHANGED <<files, latest>>

=============================================================================
