------------------------- MODULE ApplicationProofs -------------------------
(***************************************************************************)
(* Theorems about Application for any files that may be on disk and any    *)
(* number of loads: what the registry singleton holds after any sequence   *)
(* of edits, reloads, starts, failed starts and interruptions.             *)
(***************************************************************************)
EXTENDS Application, WellFoundedInduction, SequenceTheorems, TLAPS

(***************************************************************************)
(* The inductive invariant.  The registry's routes and default change only *)
(* with `latest`; its providers and clients may change with a load that    *)
(* fails, but then no application serves.                                  *)
(***************************************************************************)
RegistryShape ==
    /\ registry = [providers |-> registry.providers, clients |-> registry.clients,
                   routes |-> registry.routes, default |-> registry.default]
    /\ registry.providers \in Seq(ProviderNames)

Passes == [todo : Seq(ProviderNames), found : SUBSET ProviderNames]

LifecycleInv ==
    /\ phase \in {"down", "serving"}
    /\ task \in {"none", "running", "dead"}
    /\ pass \in [Callers -> SUBSET Passes]
    /\ \A w \in Callers : \A p \in pass[w] : pass[w] = {p} /\ p.todo # << >>
    /\ pass["request"] # {} => phase = "serving"
    /\ pass["loop"] # {} => task = "running"
    /\ report \subseteq ProviderNames

RegistryInv == RegistryTypeOK /\ RegistryShape /\ LoadTakesEffect

\* All the providers of the registry have clients of its n-th load.
Whole(reg, n) ==
    /\ \A p \in ToSet(reg.providers) : p \in DOMAIN reg.clients /\ reg.clients[p] = Built(p, n)
    /\ reg.providers # << >> => reg.default = Built(reg.providers[1], n)

IInv == RegistryInv /\ LifecycleInv /\ (phase = "serving" => Whole(registry, loads))

-----------------------------------------------------------------------------
(* What the registry's operators do.                                       *)

\* A set of natural numbers has a least element.
LEMMA LeastElement ==
    ASSUME NEW T \in SUBSET Nat, T # {}
    PROVE  \E m \in T : \A j \in T : m <= j
<1>1. IsWellFoundedOn(OpToRel(<, Nat), Nat)
  BY NatLessThanWellFounded
<1>2. PICK m \in T : \A j \in T : <<j, m>> \notin OpToRel(<, Nat)
  BY <1>1, WFMin
<1>3. \A j \in T : ~ (j < m)
  BY <1>2 DEF OpToRel
<1> QED BY <1>3

\* Induction up to n, over a set instead of an operator.
LEMMA UpTo ==
    ASSUME NEW n \in Nat, NEW T \in SUBSET Nat, 0 \in T, \A i \in T : i < n => i + 1 \in T
    PROVE  n \in T
<1> DEFINE Out == {i \in 0 .. n : i \notin T}
<1>1. SUFFICES ASSUME Out # {} PROVE FALSE
  OBVIOUS
<1>2. Out \in SUBSET Nat
  OBVIOUS
<1>3. PICK m \in Out : \A j \in Out : m <= j
  <2> HIDE DEF Out
  <2> QED BY <1>1, <1>2, LeastElement
<1>4. m \in Nat /\ m # 0 /\ m <= n /\ m \notin T
  OBVIOUS
<1>5. m - 1 \in Nat /\ m - 1 < n /\ m - 1 + 1 = m
  BY <1>4
<1>6. m - 1 \in T
  <2>1. m - 1 \notin Out
    BY <1>3, <1>5
  <2> QED BY <1>4, <1>5, <2>1
<1> QED BY <1>4, <1>5, <1>6

\* The loop over a route's providers keeps them all, and in their order, when
\* there are clients for all of them.
LEMMA RouteOfKnown ==
    ASSUME NEW clients, NEW names \in Seq(STRING),
           \A i \in 1 .. Len(names) : names[i] \in DOMAIN clients
    PROVE  RouteClients(clients, names) = [i \in 1 .. Len(names) |-> clients[names[i]]]
<1> DEFINE n == Len(names)
           Step(t, i) == IF i = 0 THEN << >>
                         ELSE IF names[i] \in DOMAIN clients
                              THEN Append(t[i - 1], clients[names[i]])
                         ELSE t[i - 1]
           First(i) == [j \in 1 .. i |-> clients[names[j]]]
           all == [i \in 0 .. n |-> First(i)]
           taken == CHOOSE t : t = [i \in 0 .. n |-> Step(t, i)]
           T == {i \in Nat : i <= n => taken[i] = First(i)}
<1>1. n \in Nat /\ First(0) = << >>
  OBVIOUS
<1>2. all = [i \in 0 .. n |-> Step(all, i)]
  <2> SUFFICES ASSUME NEW i \in 0 .. n PROVE First(i) = Step(all, i)
    OBVIOUS
  <2>1. CASE i = 0
    BY <1>1, <2>1
  <2>2. CASE i # 0
    <3>1. i - 1 \in 0 .. n /\ all[i - 1] = First(i - 1) /\ names[i] \in DOMAIN clients
      BY <2>2
    <3>2. Append(First(i - 1), clients[names[i]]) = First(i)
      BY <2>2
    <3> QED BY <2>2, <3>1, <3>2
  <2> QED BY <2>1, <2>2
<1>3. RouteClients(clients, names) = taken[n]
  BY Zenon DEF RouteClients
<1>4. taken = [i \in 0 .. n |-> Step(taken, i)]
  <2> HIDE DEF all, Step, n
  <2> QED BY <1>2
<1> HIDE DEF taken
<1>5. ASSUME NEW j \in 0 .. n PROVE taken[j] = Step(taken, j)
  <2> HIDE DEF Step, n
  <2> QED BY <1>4
<1>6. 0 \in T
  <2>1. taken[0] = Step(taken, 0)
    BY <1>1, <1>5
  <2> QED BY <1>1, <2>1
<1>7. ASSUME NEW i \in Nat, i < n, taken[i] = First(i) PROVE taken[i + 1] = First(i + 1)
  <2>1. i + 1 \in 1 .. n /\ i + 1 \in 0 .. n /\ i + 1 # 0 /\ i + 1 - 1 = i
    BY <1>1, <1>7
  <2>2. taken[i + 1] = Step(taken, i + 1)
    BY <1>5, <2>1
  <2>3. Step(taken, i + 1) = Append(taken[i], clients[names[i + 1]])
    BY <2>1
  <2>4. Append(First(i), clients[names[i + 1]]) = First(i + 1)
    BY <2>1
  <2> QED BY <1>7, <2>2, <2>3, <2>4
<1>8. ASSUME NEW i \in T, i < n PROVE i + 1 \in T
  <2> HIDE DEF First, n
  <2> QED BY <1>1, <1>7, <1>8
<1>9. n \in T
  <2>1. T \in SUBSET Nat
    OBVIOUS
  <2> HIDE DEF T
  <2> QED BY <1>1, <1>6, <1>8, <2>1, UpTo
<1> QED BY <1>1, <1>3, <1>9

\* No route is empty, if none was.
LEMMA RoutesNotEmpty ==
    ASSUME NEW reg, NEW f, NEW clients, \A m \in DOMAIN reg.routes : reg.routes[m] # << >>,
           NEW m \in DOMAIN Routes(reg, f, clients)
    PROVE  Routes(reg, f, clients)[m] # << >>
BY DEF Routes

\* A route whose providers all have clients is served by these.
LEMMA RouteServed ==
    ASSUME NEW reg, NEW clients, NEW f, NEW m \in DOMAIN f.routes,
           NEW names \in Seq(STRING), names = f.routes[m], names # << >>,
           \A i \in 1 .. Len(names) : names[i] \in DOMAIN clients
    PROVE  /\ m \in DOMAIN Routes(reg, f, clients)
           /\ Routes(reg, f, clients)[m] = [i \in 1 .. Len(names) |-> clients[names[i]]]
<1>1. RouteClients(clients, names) = [i \in 1 .. Len(names) |-> clients[names[i]]]
  BY RouteOfKnown
<1>2. RouteClients(clients, names) # << >>
  BY <1>1
<1> QED BY <1>1, <1>2 DEF Routes

LEMMA LoadedFields ==
    ASSUME NEW reg, NEW f, NEW n, NEW loaded, loaded = Loaded(reg, f, n)
    PROVE  /\ loaded = [providers |-> loaded.providers, clients |-> loaded.clients,
                        routes |-> loaded.routes, default |-> loaded.default]
           /\ loaded.providers = f.providers
           /\ loaded.clients = Clients(reg, f.providers, n)
           /\ loaded.routes = Routes(reg, f, loaded.clients)
           /\ loaded.default = IF f.providers = << >> THEN reg.default
                               ELSE Built(f.providers[1], n)
<1> DEFINE clients == Clients(reg, f.providers, n)
           routes == Routes(reg, f, clients)
           default == IF f.providers = << >> THEN reg.default ELSE Built(f.providers[1], n)
<1>1. loaded = [providers |-> f.providers, clients |-> clients, routes |-> routes,
                default |-> default]
  BY DEF Loaded
<1>2. /\ loaded.providers = f.providers /\ loaded.clients = clients
      /\ loaded.routes = routes /\ loaded.default = default
  <2> HIDE DEF clients, routes, default
  <2> QED BY <1>1
<1> QED BY <1>1, <1>2, Zenon

LEMMA HalfLoadedFields ==
    ASSUME NEW reg, NEW f, NEW n, NEW k, NEW half, half = HalfLoaded(reg, f, n, k),
           reg = [providers |-> reg.providers, clients |-> reg.clients,
                  routes |-> reg.routes, default |-> reg.default]
    PROVE  half = [providers |-> f.providers,
                   clients |-> Clients(reg, SubSeq(f.providers, 1, k), n),
                   routes |-> reg.routes, default |-> reg.default]
<1> DEFINE providers == f.providers
           clients == Clients(reg, SubSeq(f.providers, 1, k), n)
<1>1. half = [reg EXCEPT !.providers = providers, !.clients = clients]
  BY DEF HalfLoaded
<1> HIDE DEF providers, clients
<1>2. half = [providers |-> providers, clients |-> clients,
              routes |-> reg.routes, default |-> reg.default]
  BY <1>1
<1> QED BY <1>2 DEF providers, clients

-----------------------------------------------------------------------------
(* What load() reads.                                                      *)

LEMMA ReadsAreFiles ==
    ASSUME RegistryTypeOK
    PROVE  /\ \A f \in GatewayRead : GatewayRead = {f} /\ f \in GatewayFiles /\ Valid(f)
           /\ \A f \in ModelsRead : ModelsRead = {f} /\ f \in ModelsFiles /\ Valid(f)
<1>1. /\ \A f \in settings.gateway : settings.gateway = {f} /\ f \in GatewayFiles /\ Valid(f)
      /\ \A f \in settings.models : settings.models = {f} /\ f \in ModelsFiles /\ Valid(f)
      /\ gatewayFile \in GatewayFiles /\ modelsFile \in ModelsFiles
  BY DEF RegistryTypeOK
<1>2. ASSUME NEW cached, NEW file, NEW Files, file \in Files,
             \A f \in cached : cached = {f} /\ f \in Files /\ Valid(f)
      PROVE  \A f \in Value(cached, file) :
                Value(cached, file) = {f} /\ f \in Files /\ Valid(f)
  BY <1>2 DEF Value, Parsed
<1> QED BY <1>1, <1>2 DEF GatewayRead, ModelsRead

LEMMA FileProviders ==
    ASSUME NEW f \in ModelsFiles
    PROVE  f.providers \in Seq(STRING) /\ f.providers \in Seq(ProviderNames)
<1>1. f.providers \in Seq(STRING)
  BY ModelRegistryAssumption
<1>2. ToSet(f.providers) \subseteq ProviderNames
  BY DEF ProviderNames
<1>3. \A i \in 1 .. Len(f.providers) : f.providers[i] \in ProviderNames
  BY <1>1, <1>2 DEF ToSet
<1> QED BY <1>1, <1>3

\* Step 2 of load() raises at one of the file's providers, or comes to their end.
LEMMA BuiltBeforeItRaises ==
    ASSUME NEW f, f.providers \in Seq(STRING)
    PROVE  ClientsBuilt(f) \in 0 .. Len(f.providers)
<1> DEFINE bad == {i \in DOMAIN f.providers : f.providers[i] \in f.unusable}
<1>1. Len(f.providers) \in Nat /\ bad \in SUBSET Nat /\ \A i \in bad : i \in 1 .. Len(f.providers)
  OBVIOUS
<1>2. CASE bad = {}
  BY <1>1, <1>2 DEF ClientsBuilt, Buildable
<1>3. CASE bad # {}
  <2> HIDE DEF bad
  <2>1. \E i \in bad : \A j \in bad : i <= j
    BY <1>1, <1>3, LeastElement
  <2>2. PICK m : m = Min(bad) /\ m \in 1 .. Len(f.providers)
    BY <1>1, <2>1 DEF Min
  <2>3. m - 1 \in 0 .. Len(f.providers)
    BY <1>1, <2>2
  <2> QED BY <1>1, <1>3, <2>2, <2>3 DEF ClientsBuilt, Buildable, bad
<1> QED BY <1>2, <1>3

-----------------------------------------------------------------------------
(* The registry's operations.                                              *)

LEMMA FileEditedKeeps == ASSUME RegistryInv, FileEdited PROVE RegistryInv'
<1>1. /\ gatewayFile' \in GatewayFiles /\ modelsFile' \in ModelsFiles
      /\ UNCHANGED <<settings, registry, outcome, loads, latest>>
  BY DEF RegistryInv, RegistryTypeOK, FileEdited
<1>2. RegistryTypeOK'
  BY <1>1 DEF RegistryInv, RegistryTypeOK
<1> QED BY <1>1, <1>2 DEF RegistryInv, RegistryShape, LoadTakesEffect

LEMMA SettingsReloadedKeeps == ASSUME RegistryInv, SettingsReloaded PROVE RegistryInv'
<1>1. /\ gatewayFile \in GatewayFiles /\ modelsFile \in ModelsFiles
      /\ UNCHANGED <<files, registry, outcome, loads, latest>>
  BY DEF RegistryInv, RegistryTypeOK, SettingsReloaded
<1>2. /\ settings'.gateway = Parsed(gatewayFile)
      /\ settings'.models = IF Valid(gatewayFile) THEN Parsed(modelsFile) ELSE {}
  BY DEF SettingsReloaded, Reloaded
<1>3. /\ \A f \in settings'.gateway : settings'.gateway = {f} /\ f \in GatewayFiles /\ Valid(f)
      /\ \A f \in settings'.models : settings'.models = {f} /\ f \in ModelsFiles /\ Valid(f)
  BY <1>1, <1>2 DEF Parsed
<1>4. RegistryTypeOK'
  BY <1>1, <1>3 DEF RegistryInv, RegistryTypeOK, files
<1> QED BY <1>1, <1>4 DEF RegistryInv, RegistryShape, LoadTakesEffect

\* A client keeps its provider, and is built by a load that has been.
LEMMA ClientsTyped ==
    ASSUME RegistryTypeOK, NEW names \in Seq(STRING), NEW n, n = loads + 1,
           NEW clients, clients = Clients(registry, names, n), NEW p \in DOMAIN clients
    PROVE  clients[p].provider = p /\ clients[p].built \in 1 .. n
<1>1. loads \in Nat /\ n \in 1 .. n
  BY ModelRegistryAssumption DEF RegistryTypeOK
<1>2. CASE p \in ToSet(names)
  BY <1>1, <1>2 DEF Clients, Built
<1>3. CASE p \notin ToSet(names)
  <2>1. p \in DOMAIN registry.clients /\ clients[p] = registry.clients[p]
    BY <1>3 DEF Clients
  <2>2. clients[p].provider = p /\ clients[p].built \in 1 .. loads
    BY <2>1 DEF RegistryTypeOK
  <2> QED BY <1>1, <2>2
<1> QED BY <1>2, <1>3

LEMMA BothReadTyped ==
    ASSUME RegistryTypeOK, BothRead
    PROVE  /\ \A f \in settings'.gateway : settings'.gateway = {f} /\ f \in GatewayFiles /\ Valid(f)
           /\ \A f \in settings'.models : settings'.models = {f} /\ f \in ModelsFiles /\ Valid(f)
<1>1. settings'.gateway = GatewayRead /\ settings'.models = ModelsRead
  BY DEF BothRead
<1> QED BY <1>1, ReadsAreFiles

\* A load that succeeds puts everything that its file configures in force.
LEMMA LoadSucceedsKeeps ==
    ASSUME RegistryInv, LoadSucceeds, BothRead
    PROVE  RegistryInv' /\ Whole(registry, loads)'
<1>1. RegistryTypeOK /\ loads \in Nat
  BY ModelRegistryAssumption DEF RegistryInv, RegistryTypeOK
<1>2. PICK f \in ModelsRead : registry' = Loaded(registry, f, loads')
                              /\ latest' = {[load |-> loads', file |-> f]}
  BY DEF LoadSucceeds
<1>3. /\ loads' = loads + 1 /\ loads' \in 0 .. MaxLoads /\ loads' \in 1 .. loads'
      /\ outcome' = "loaded" /\ UNCHANGED files
  BY <1>1, ModelRegistryAssumption DEF LoadSucceeds
<1>4. f \in ModelsFiles /\ f.providers \in Seq(STRING) /\ f.providers \in Seq(ProviderNames)
  BY <1>1, ReadsAreFiles, FileProviders
<1>5. /\ registry' = [providers |-> registry'.providers, clients |-> registry'.clients,
                      routes |-> registry'.routes, default |-> registry'.default]
      /\ registry'.providers = f.providers
      /\ registry'.clients = Clients(registry, f.providers, loads')
      /\ registry'.routes = Routes(registry, f, registry'.clients)
      /\ registry'.default = IF f.providers = << >> THEN registry.default
                             ELSE Built(f.providers[1], loads')
  BY <1>2, LoadedFields
<1>6. /\ ToSet(f.providers) \subseteq DOMAIN registry'.clients
      /\ \A p \in ToSet(f.providers) : registry'.clients[p] = Built(p, loads')
  BY <1>5 DEF Clients
<1>7. \A m \in DOMAIN registry'.routes : registry'.routes[m] # << >>
  <2>1. \A m \in DOMAIN registry.routes : registry.routes[m] # << >>
    BY <1>1 DEF RegistryTypeOK
  <2> QED BY <1>5, <2>1, RoutesNotEmpty
<1>8. \A p \in DOMAIN registry'.clients :
        registry'.clients[p].provider = p /\ registry'.clients[p].built \in 1 .. loads'
  BY <1>1, <1>3, <1>4, <1>5, ClientsTyped
<1>9. RegistryTypeOK'
  <2>1. gatewayFile' \in GatewayFiles /\ modelsFile' \in ModelsFiles
    BY <1>1, <1>3 DEF RegistryTypeOK, files
  <2>2. \A l \in latest' : latest' = {l} /\ l.load \in 1 .. loads' /\ l.file \in ModelsFiles
    BY <1>2, <1>3, <1>4
  <2> QED BY <1>1, <1>3, <1>7, <1>8, <2>1, <2>2, BothReadTyped DEF RegistryTypeOK
<1>10. RegistryShape'
  BY <1>4, <1>5 DEF RegistryShape
<1>11. LoadTakesEffect'
  <2>1. ASSUME NEW m \in DOMAIN f.routes, f.routes[m] # << >>,
               ToSet(f.routes[m]) \subseteq ToSet(f.providers)
        PROVE  /\ m \in DOMAIN registry'.routes
               /\ registry'.routes[m] =
                    [i \in DOMAIN f.routes[m] |-> Built(f.routes[m][i], loads')]
    <3>1. f.routes[m] \in Seq(STRING)
      BY <1>4, ModelRegistryAssumption
    <3>2. PICK names \in Seq(STRING) : names = f.routes[m]
      BY <3>1
    <3>3. \A i \in 1 .. Len(names) :
            /\ names[i] \in DOMAIN registry'.clients
            /\ registry'.clients[names[i]] = Built(names[i], loads')
      <4> SUFFICES ASSUME NEW i \in 1 .. Len(names)
                   PROVE  /\ names[i] \in DOMAIN registry'.clients
                          /\ registry'.clients[names[i]] = Built(names[i], loads')
        OBVIOUS
      <4>1. names[i] \in ToSet(names)
        BY DEF ToSet
      <4>2. names[i] \in ToSet(f.providers)
        BY <2>1, <3>2, <4>1
      <4> QED BY <1>6, <4>2
    <3>4. /\ m \in DOMAIN registry'.routes
          /\ registry'.routes[m] = [i \in 1 .. Len(names) |-> registry'.clients[names[i]]]
      BY <1>5, <2>1, <3>2, <3>3, RouteServed
    <3>5. registry'.routes[m] = [i \in DOMAIN names |-> Built(names[i], loads')]
      BY <3>3, <3>4
    <3> QED BY <3>2, <3>4, <3>5
  <2>2. f.providers # << >> => registry'.default = Built(f.providers[1], loads')
    BY <1>5
  <2>3. \A l \in latest' : l.file = f /\ l.load = loads'
    BY <1>2
  <2> QED BY <2>1, <2>2, <2>3 DEF LoadTakesEffect
<1>12. Whole(registry, loads)'
  BY <1>5, <1>6 DEF Whole
<1> QED BY <1>9, <1>10, <1>11, <1>12 DEF RegistryInv

\* What the latest load that succeeded has put in force depends on the routes
\* and the default only.
LEMMA TakenEffectStays ==
    ASSUME LoadTakesEffect, latest' = latest, registry'.routes = registry.routes,
           registry'.default = registry.default
    PROVE  LoadTakesEffect'
BY DEF LoadTakesEffect

\* A load that fails leaves routes and default as they are.
LEMMA LoadFailsKeeps ==
    ASSUME RegistryInv, LoadFailsToRead \/ LoadFailsHalfway
    PROVE  RegistryInv' /\ registry'.default = registry.default
<1>1. RegistryTypeOK /\ RegistryShape /\ LoadTakesEffect /\ loads \in Nat
  BY ModelRegistryAssumption DEF RegistryInv, RegistryTypeOK
<1>2. /\ loads' = loads + 1 /\ loads' \in 0 .. MaxLoads /\ outcome' = "failed"
      /\ UNCHANGED <<gatewayFile, modelsFile, latest>>
  BY <1>1, ModelRegistryAssumption DEF LoadFailsToRead, LoadFailsHalfway, files
<1>3. \A l \in latest : latest = {l} /\ l.load \in 1 .. loads' /\ l.file \in ModelsFiles
  BY <1>1, <1>2 DEF RegistryTypeOK
<1>4. CASE LoadFailsToRead
  <2>1. UNCHANGED <<settings, registry>>
    BY <1>4 DEF LoadFailsToRead
  <2>2. \A p \in DOMAIN registry.clients :
          registry.clients[p].provider = p /\ registry.clients[p].built \in 1 .. loads'
    BY <1>1, <1>2 DEF RegistryTypeOK
  <2>3. RegistryTypeOK'
    BY <1>1, <1>2, <1>3, <2>1, <2>2 DEF RegistryTypeOK
  <2> QED BY <1>1, <1>2, <2>1, <2>3, TakenEffectStays DEF RegistryInv, RegistryShape
<1>5. CASE LoadFailsHalfway
  <2>1. BothRead
    BY <1>5 DEF LoadFailsHalfway
  <2>2. PICK f \in ModelsRead :
          registry' = HalfLoaded(registry, f, loads', ClientsBuilt(f))
    BY <1>5 DEF LoadFailsHalfway
  <2>3. f \in ModelsFiles /\ f.providers \in Seq(STRING) /\ f.providers \in Seq(ProviderNames)
    BY <1>1, ReadsAreFiles, FileProviders
  <2> DEFINE names == SubSeq(f.providers, 1, ClientsBuilt(f))
  <2>4. names \in Seq(STRING)
    <3>1. ClientsBuilt(f) \in 0 .. Len(f.providers)
      BY <2>3, BuiltBeforeItRaises
    <3>2. \A i \in 1 .. ClientsBuilt(f) : f.providers[i] \in STRING
      BY <2>3, <3>1
    <3> QED BY <2>3, <3>1, <3>2, SubSeqProperties
  <2>5. registry' = [providers |-> f.providers,
                     clients |-> Clients(registry, names, loads'),
                     routes |-> registry.routes, default |-> registry.default]
    BY <1>1, <2>2, HalfLoadedFields DEF RegistryShape
  <2> HIDE DEF names
  <2>6. /\ registry'.providers = f.providers
        /\ registry'.clients = Clients(registry, names, loads')
        /\ registry'.routes = registry.routes /\ registry'.default = registry.default
    BY <2>5
  <2>7. RegistryShape'
    BY <2>3, <2>5, <2>6, Zenon DEF RegistryShape
  <2>8. \A p \in DOMAIN registry'.clients :
          registry'.clients[p].provider = p /\ registry'.clients[p].built \in 1 .. loads'
    BY <1>1, <1>2, <2>4, <2>6, ClientsTyped
  <2>9. RegistryTypeOK'
    BY <1>1, <1>2, <1>3, <2>1, <2>6, <2>8, BothReadTyped DEF RegistryTypeOK
  <2> QED BY <1>1, <1>2, <2>6, <2>7, <2>9, TakenEffectStays DEF RegistryInv
<1> QED BY <1>4, <1>5

-----------------------------------------------------------------------------
(* check_all().                                                            *)

LEMMA AheadEffect ==
    ASSUME NEW names \in Seq(ProviderNames)
    PROVE  Ahead(names) \in Seq(ProviderNames)
<1> DEFINE known == {i \in DOMAIN names : names[i] \in DOMAIN registry.clients}
<1>1. Len(names) \in Nat /\ known \in SUBSET Nat /\ \A i \in known : i \in 1 .. Len(names)
  OBVIOUS
<1>2. CASE known = {}
  BY <1>2 DEF Ahead
<1>3. CASE known # {}
  <2> HIDE DEF known
  <2>1. \E i \in known : \A j \in known : i <= j
    BY <1>1, <1>3, LeastElement
  <2>2. PICK m : m = Min(known) /\ m \in 1 .. Len(names)
    BY <1>1, <2>1 DEF Min
  <2>3. \A i \in m .. Len(names) : names[i] \in ProviderNames
    BY <2>2
  <2>4. SubSeq(names, m, Len(names)) \in Seq(ProviderNames)
    BY <1>1, <2>2, <2>3, SubSeqProperties
  <2> QED BY <1>3, <2>2, <2>4 DEF Ahead, known
<1> QED BY <1>2, <1>3

\* A pass awaits its next probe, or publishes a report.
LEMMA GoesOnKeeps ==
    ASSUME LifecycleInv, NEW w \in Callers, NEW names \in Seq(ProviderNames),
           NEW found \in SUBSET ProviderNames, GoesOn(w, names, found),
           w = "request" => phase = "serving", w = "loop" => task = "running",
           UNCHANGED <<phase, task>>
    PROVE  LifecycleInv'
<1>1. PICK ahead \in Seq(ProviderNames) : ahead = Ahead(names)
  BY AheadEffect
<1>2. CASE ahead = << >>
  <2>1. report' = found /\ pass' = [pass EXCEPT ![w] = {}]
    BY <1>1, <1>2 DEF GoesOn
  <2> QED BY <2>1 DEF LifecycleInv
<1>3. CASE ahead # << >>
  <2>1. PICK p \in Passes : p = [todo |-> ahead, found |-> found]
    BY DEF Passes
  <2>2. pass' = [pass EXCEPT ![w] = {p}] /\ report' = report
    BY <1>1, <1>3, <2>1 DEF GoesOn
  <2>3. p.todo # << >>
    BY <1>3, <2>1
  <2> QED BY <2>1, <2>2, <2>3 DEF LifecycleInv, Callers
<1> QED BY <1>2, <1>3

LEMMA ProbeReturnsKeeps ==
    ASSUME LifecycleInv, NEW w \in Callers, ProbeReturns(w)
    PROVE  LifecycleInv'
<1>1. PICK p \in pass[w] : GoesOn(w, Tail(p.todo), p.found \union {Head(p.todo)})
  BY DEF ProbeReturns
<1>2. /\ p \in Passes /\ p.todo # << >>
      /\ w = "request" => phase = "serving"
      /\ w = "loop" => task = "running"
  BY DEF LifecycleInv
<1>3. p.todo \in Seq(ProviderNames) /\ p.found \in SUBSET ProviderNames
  BY <1>2 DEF Passes
<1>4. /\ Tail(p.todo) \in Seq(ProviderNames)
      /\ p.found \union {Head(p.todo)} \in SUBSET ProviderNames
  BY <1>2, <1>3
<1>5. UNCHANGED <<phase, task>>
  BY DEF ProbeReturns
<1> QED BY <1>1, <1>2, <1>4, <1>5, GoesOnKeeps

-----------------------------------------------------------------------------
(* The lifespan, and the invariant.                                        *)

LEMMA Initially == Init => IInv
<1> SUFFICES ASSUME Init PROVE IInv
  OBVIOUS
<1>1. /\ registry = EmptyRegistry /\ latest = {} /\ loads = 0 /\ outcome = "none"
      /\ settings.gateway = {gatewayFile} /\ settings.models = {}
      /\ gatewayFile \in GatewayFiles /\ Valid(gatewayFile) /\ modelsFile \in ModelsFiles
      /\ phase = "down" /\ task = "none" /\ pass = [w \in Callers |-> {}] /\ report = {}
  BY DEF Init, RegistryInit
<1>2. /\ registry = [providers |-> << >>, clients |-> << >>, routes |-> << >>,
                     default |-> NoProvider]
      /\ registry.providers = << >> /\ registry.clients = << >> /\ registry.routes = << >>
  BY <1>1 DEF EmptyRegistry
<1>3. RegistryTypeOK
  BY <1>1, <1>2, ModelRegistryAssumption DEF RegistryTypeOK
<1>4. RegistryShape /\ LoadTakesEffect
  BY <1>1, <1>2 DEF RegistryShape, LoadTakesEffect
<1>5. LifecycleInv
  BY <1>1 DEF LifecycleInv, Passes, Callers
<1> QED BY <1>1, <1>3, <1>4, <1>5 DEF IInv, RegistryInv

\* While the registry's variables stay as they are, so does what is said of them.
LEMMA RegistryStays ==
    ASSUME RegistryInv, UNCHANGED registryVars
    PROVE  RegistryInv' /\ (Whole(registry, loads) => Whole(registry, loads)')
<1>1. UNCHANGED <<gatewayFile, modelsFile, settings, registry, outcome, loads, latest>>
  BY DEF registryVars, files
<1> QED BY <1>1 DEF RegistryInv, RegistryTypeOK, RegistryShape, LoadTakesEffect, Whole

LEMMA StartupKeeps == ASSUME IInv, Startup PROVE IInv'
<1>1. RegistryInv /\ LifecycleInv /\ phase = "down" /\ LoadSucceeds /\ BothRead
  BY DEF IInv, Startup
<1>2. RegistryInv' /\ Whole(registry, loads)'
  BY <1>1, LoadSucceedsKeeps
<1>3. LifecycleInv'
  BY <1>1 DEF Startup, Starts, LifecycleInv
<1> QED BY <1>2, <1>3 DEF IInv

LEMMA TelemetryFailsKeeps == ASSUME IInv, TelemetryFails PROVE IInv'
<1>1. RegistryInv /\ LifecycleInv /\ LoadSucceeds /\ BothRead
  BY DEF IInv, TelemetryFails
<1>2. phase' = "down" /\ report' = report
  BY DEF TelemetryFails
<1>3. LifecycleInv'
  <2>1. CASE task' = (IF task = "none" THEN "running" ELSE task) /\ UNCHANGED pass
    BY <1>1, <1>2, <2>1 DEF LifecycleInv, TelemetryFails
  <2>2. CASE task' = "dead" /\ pass' = [pass EXCEPT !["loop"] = {}]
    BY <1>1, <1>2, <2>2 DEF LifecycleInv, TelemetryFails, Callers
  <2> QED BY <2>1, <2>2 DEF TelemetryFails
<1> QED BY <1>1, <1>2, <1>3, LoadSucceedsKeeps DEF IInv

LEMMA StartupFailsKeeps == ASSUME IInv, StartupFails PROVE IInv'
<1>1. /\ RegistryInv /\ LifecycleInv /\ phase = "down" /\ (LoadFailsToRead \/ LoadFailsHalfway)
      /\ UNCHANGED <<phase, task, pass, report>>
  BY DEF IInv, StartupFails, lifecycle
<1>2. LifecycleInv'
  BY <1>1 DEF LifecycleInv
<1> QED BY <1>1, <1>2, LoadFailsKeeps DEF IInv

LEMMA DownKeeps == ASSUME IInv, Shutdown \/ Interrupted PROVE IInv'
<1>1. RegistryInv /\ LifecycleInv /\ UNCHANGED registryVars /\ phase' = "down" /\ report' = report
  BY DEF IInv, Shutdown, Interrupted
<1>2. LifecycleInv'
  <2>1. CASE Shutdown
    BY <1>1, <2>1 DEF LifecycleInv, Shutdown, Callers
  <2>2. CASE Interrupted
    <3>1. CASE UNCHANGED task /\ pass' = [pass EXCEPT !["request"] = {}]
      BY <1>1, <3>1 DEF LifecycleInv, Callers
    <3>2. CASE task' = "dead" /\ pass' = [w \in Callers |-> {}]
      BY <1>1, <3>2 DEF LifecycleInv, Callers
    <3> QED BY <2>2, <3>1, <3>2 DEF Interrupted
  <2> QED BY <2>1, <2>2
<1> QED BY <1>1, <1>2, RegistryStays DEF IInv

LEMMA ChecksKeep ==
    ASSUME IInv, LoopWakes \/ HealthAsked \/ (\E w \in Callers : ProbeReturns(w))
    PROVE  IInv'
<1>1. /\ RegistryInv /\ LifecycleInv /\ (phase = "serving" => Whole(registry, loads))
      /\ UNCHANGED registryVars /\ UNCHANGED <<phase, task>>
      /\ registry.providers \in Seq(ProviderNames)
  BY DEF IInv, RegistryInv, RegistryShape, LoopWakes, HealthAsked, ProbeReturns
<1>2. LifecycleInv'
  <2>1. CASE LoopWakes
    <3>1. GoesOn("loop", registry.providers, {}) /\ task = "running" /\ "loop" \in Callers
      BY <2>1 DEF LoopWakes, Callers
    <3> QED BY <1>1, <3>1, GoesOnKeeps
  <2>2. CASE HealthAsked
    <3>1. GoesOn("request", registry.providers, {}) /\ phase = "serving" /\ "request" \in Callers
      BY <2>2 DEF HealthAsked, Callers
    <3> QED BY <1>1, <3>1, GoesOnKeeps
  <2>3. CASE \E w \in Callers : ProbeReturns(w)
    BY <1>1, <2>3, ProbeReturnsKeeps
  <2> QED BY <2>1, <2>2, <2>3
<1> QED BY <1>1, <1>2, RegistryStays DEF IInv

LEMMA FilesKeep ==
    ASSUME IInv, FileEdited \/ SettingsReloaded, UNCHANGED lifecycle
    PROVE  IInv'
<1>1. /\ RegistryInv /\ LifecycleInv /\ (phase = "serving" => Whole(registry, loads))
      /\ UNCHANGED <<phase, task, pass, report>> /\ UNCHANGED <<registry, loads>>
  BY DEF IInv, FileEdited, SettingsReloaded, lifecycle
<1>2. LifecycleInv' /\ (phase' = "serving" => Whole(registry, loads)')
  BY <1>1 DEF LifecycleInv, Whole
<1> QED BY <1>1, <1>2, FileEditedKeeps, SettingsReloadedKeeps DEF IInv

LEMMA StepKeeps == IInv /\ [Next]_vars => IInv'
<1> SUFFICES ASSUME IInv, [Next]_vars PROVE IInv'
  OBVIOUS
<1>1. CASE (FileEdited \/ SettingsReloaded) /\ UNCHANGED lifecycle
  BY <1>1, FilesKeep
<1>2. CASE Startup
  BY <1>2, StartupKeeps
<1>3. CASE StartupFails
  BY <1>3, StartupFailsKeeps
<1>4. CASE TelemetryFails
  BY <1>4, TelemetryFailsKeeps
<1>5. CASE Shutdown \/ Interrupted
  BY <1>5, DownKeeps
<1>6. CASE LoopWakes \/ HealthAsked \/ (\E w \in Callers : ProbeReturns(w))
  BY <1>6, ChecksKeep
<1>7. CASE UNCHANGED vars
  <2>1. UNCHANGED registryVars /\ UNCHANGED <<phase, task, pass, report>>
    BY <1>7 DEF vars, lifecycle
  <2>2. LifecycleInv'
    BY <2>1 DEF IInv, LifecycleInv
  <2> QED BY <2>1, <2>2, RegistryStays DEF IInv
<1> QED BY <1>1, <1>2, <1>3, <1>4, <1>5, <1>6, <1>7 DEF Next

-----------------------------------------------------------------------------
(* The theorems.                                                           *)

\* The inductive invariant holds.
THEOREM InvariantHolds == Spec => []IInv
<1> QED BY Initially, StepKeeps, PTL DEF Spec

\* The fields of the singletons stay what they are meant to be: no route of
\* the registry is empty, a client is that of its provider, and a check is under
\* way only for somebody who can be waiting for it.
THEOREM TypeCorrect == Spec => []TypeOK
<1>1. IInv => TypeOK
  <2> SUFFICES ASSUME IInv PROVE TypeOK
    OBVIOUS
  <2>1. RegistryTypeOK /\ LifecycleInv
    BY DEF IInv, RegistryInv
  <2>2. ASSUME NEW w \in Callers, NEW p \in pass[w]
        PROVE  ToSet(p.todo) \union p.found \subseteq ProviderNames
    <3>1. p.todo \in Seq(ProviderNames) /\ p.found \subseteq ProviderNames
      BY <2>1 DEF LifecycleInv, Passes
    <3> QED BY <3>1 DEF ToSet
  <2> QED BY <2>1, <2>2 DEF TypeOK, LifecycleInv
<1> QED BY <1>1, InvariantHolds, PTL

\* What the latest load that succeeded configures is in force, whatever loads
\* have failed since (ModelRegistry.load).
THEOREM LoadsTakeEffect == Spec => []LoadTakesEffect
<1>1. IInv => LoadTakesEffect
  BY DEF IInv, RegistryInv
<1> QED BY <1>1, InvariantHolds, PTL

\* No request meets a registry that a failed load has left half built (lifespan).
THEOREM RequestsMeetAWholeRegistry == Spec => []ServedRegistryIsWhole
<1>1. IInv => ServedRegistryIsWhole
  BY DEF IInv, Whole, ServedRegistryIsWhole
<1> QED BY <1>1, InvariantHolds, PTL

\* The default provider, once there is one, is replaced by loads that succeed
\* and never taken away (ModelRegistry.load, step 4).
THEOREM DefaultStays == Spec => KnownOnceConfigured
<1>1. IInv /\ [Next]_vars =>
        [registry.default # NoProvider => registry'.default # NoProvider]_vars
  <2> SUFFICES ASSUME IInv, Next, registry.default # NoProvider
               PROVE  registry'.default # NoProvider
    OBVIOUS
  <2>1. RegistryInv /\ loads \in Nat
    BY ModelRegistryAssumption DEF IInv, RegistryInv, RegistryTypeOK
  <2>2. CASE LoadSucceeds
    <3>1. PICK f \in ModelsRead : registry' = Loaded(registry, f, loads')
      BY <2>2 DEF LoadSucceeds
    <3>2. registry'.default = IF f.providers = << >> THEN registry.default
                              ELSE Built(f.providers[1], loads')
      BY <3>1, LoadedFields
    <3>3. loads' # 0
      BY <2>1, <2>2 DEF LoadSucceeds
    <3>4. Built(f.providers[1], loads') # NoProvider
      BY <3>3 DEF Built, NoProvider
    <3> QED BY <3>2, <3>4
  <2>3. CASE LoadFailsToRead \/ LoadFailsHalfway
    BY <2>1, <2>3, LoadFailsKeeps
  <2>4. CASE UNCHANGED registry
    BY <2>4
  <2>5. LoadSucceeds \/ LoadFailsToRead \/ LoadFailsHalfway \/ UNCHANGED registry
    BY DEF Next, FileEdited, SettingsReloaded, Startup, StartupFails, TelemetryFails,
           Shutdown, Interrupted, LoopWakes, HealthAsked, ProbeReturns, registryVars
  <2> QED BY <2>2, <2>3, <2>4, <2>5
<1> QED BY <1>1, InvariantHolds, PTL DEF Spec, KnownOnceConfigured

=============================================================================
