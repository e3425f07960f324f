------------------------------ MODULE Registry ------------------------------
(***************************************************************************)
(* The model registry of provider/model_registry.py, as functions on the   *)
(* record of its fields, and the router's resolution order.  ModelRegistry *)
(* loads it again and again, Gateway serves requests from it.              *)
(*                                                                         *)
(* A client is known by the provider it is for and by the load() that      *)
(* built it; a provider's configuration likewise.                          *)
(***************************************************************************)
EXTENDS Naturals, Sequences, SequencesExt, Settings

(***************************************************************************)
(* A models file: provider names in file order, routes as a function from  *)
(* public model names to lists of provider names, the faults that keep it  *)
(* from being valid (NIMProviderConfig requires a name, ModelRoute a       *)
(* model), and the providers whose base_url is a string, as it must be,    *)
(* but no URL, so that no HTTP client can be built for them.               *)
(***************************************************************************)

NoProvider == [provider |-> "none", built |-> 0]

EmptyRegistry ==
    [providers |-> << >>, clients |-> << >>, routes |-> << >>, default |-> NoProvider]

Built(p, n) == [provider |-> p, built |-> n]

-----------------------------------------------------------------------------

\* Step 2 of load() for the providers called `names`: each gets a new client,
\* with a breaker of its own; the others' stay in the dictionary.
Clients(reg, names, n) ==
    [p \in DOMAIN reg.clients \union ToSet(names) |->
        IF p \in ToSet(names) THEN Built(p, n) ELSE reg.clients[p]]

\* The loop that finds the clients of a route, in its order; unknown names are
\* left out.
RouteClients(clients, names) ==
    LET Taken[i \in 0 .. Len(names)] ==
          IF i = 0 THEN << >>
          ELSE IF names[i] \in DOMAIN clients THEN Append(Taken[i - 1], clients[names[i]])
          ELSE Taken[i - 1]
    IN  Taken[Len(names)]

\* Mutant: the test for an empty list of clients is lost.
RoutesUntested(reg, file, clients) ==
    [m \in DOMAIN reg.routes \union DOMAIN file.routes |->
        IF m \in DOMAIN file.routes THEN RouteClients(clients, file.routes[m])
        ELSE reg.routes[m]]

\* Step 3: a route that finds a client gets a new load balancer, every other
\* entry of the dictionary stays as it is.
Routes(reg, file, clients) ==
    LET served == {m \in DOMAIN file.routes : RouteClients(clients, file.routes[m]) # << >>}
    IN  [m \in DOMAIN reg.routes \union served |->
            IF m \in served THEN RouteClients(clients, file.routes[m]) ELSE reg.routes[m]]

\* Mutant: a file without providers clears the default provider.
LoadedClearing(reg, file, n) ==
    LET clients == Clients(reg, file.providers, n)
    IN  [providers |-> file.providers,
         clients   |-> clients,
         routes    |-> Routes(reg, file, clients),
         default   |-> IF file.providers = << >> THEN NoProvider
                       ELSE Built(file.providers[1], n)]

\* The registry after its n-th load(), from `file`.  A file without providers
\* leaves the default provider alone.
Loaded(reg, file, n) ==
    LET clients == Clients(reg, file.providers, n)
    IN  [providers |-> file.providers,
         clients   |-> clients,
         routes    |-> Routes(reg, file, clients),
         default   |-> IF file.providers = << >> THEN reg.default
                       ELSE Built(file.providers[1], n)]

\* What a load() leaves behind that raises in step 2 with the first k clients
\* built: the providers are the file's, routes and default are as they were.
HalfLoaded(reg, file, n, k) ==
    [reg EXCEPT !.providers = file.providers,
                !.clients = Clients(reg, SubSeq(file.providers, 1, k), n)]

\* How many clients step 2 builds before it raises.
Buildable(file) ==
    LET bad == {i \in DOMAIN file.providers : file.providers[i] \in file.unusable}
    IN  IF bad = {} THEN Len(file.providers) ELSE Min(bad) - 1

-----------------------------------------------------------------------------

\* How the router finds clients for a model: by route, as a provider's own
\* name, or through the default provider.
Resolution(reg, model) ==
    IF model \in DOMAIN reg.routes THEN "routed"
    ELSE IF model \in ToSet(reg.providers) \/ reg.default # NoProvider THEN "direct"
    ELSE "unknown"

\* The provider behind a direct resolution.
DirectProvider(reg, model) ==
    IF model \in ToSet(reg.providers) THEN model ELSE reg.default.provider

\* What GET /v1/models lists: the routes and the providers.
Listed(reg) == DOMAIN reg.routes \union ToSet(reg.providers)

=============================================================================
