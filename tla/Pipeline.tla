------------------------------ MODULE Pipeline ------------------------------
(***************************************************************************)
(* The middleware stack of main.py: the way of a request down to its route *)
(* and of the reply, or of an exception, back up.  Each middleware is a    *)
(* step before and a step after its `await call_next(request)`, and the    *)
(* requests in flight share the response cache and the settings, which may *)
(* be edited and reloaded while they are on their way.  Each layer reads   *)
(* settings.gateway for itself when the request comes to it.               *)
(*                                                                         *)
(* call_next belongs to Starlette.  What it returns is a stream over the   *)
(* reply of the layer below: CachingMiddleware either recognises it as a   *)
(* StreamingResponse or finds no `body` on it, and stores nothing.         *)
(***************************************************************************)
EXTENDS Cache, Settings, Sequences, SequencesExt

CONSTANTS
    Requests,       \* requests that clients may send
    Kinds,          \* what they may be, a subset of Kind
    DocsPaths,      \* names of paths that begin with /docs, /redoc or /openapi.json
    GatewayFiles,   \* gateway.yaml files that may be on disk
    MockMode        \* settings.mock_mode

(***************************************************************************)
(* A gateway file: cache_enabled, metrics_enabled, api_key_enabled, the    *)
(* keys of api_keys, and the faults that keep it from being parsed.        *)
(***************************************************************************)
GatewayConfig ==
    [cache : BOOLEAN, metrics : BOOLEAN, auth : BOOLEAN, keys : SUBSET STRING,
     faults : SUBSET STRING]

(***************************************************************************)
(* What a request is.  Its `key` is "none" without a bearer key.           *)
(* `lookup` is what CachingMiddleware makes of a request: "cacheable" when *)
(* it is a POST to a known endpoint with a model and without streaming;    *)
(* "raises" when its body is JSON and no object, so that the test for the  *)
(* model raises; "none" otherwise.  The cache key is made of the path and  *)
(* the model, and not of the rest of the body; all models here are one.    *)
(* A path is what stands in front of its trailing slashes, and how many of *)
(* them there are: "/" is all slash.                                       *)
(***************************************************************************)
Kind ==
    [path : [name : STRING, slashes : Nat], key : STRING, preflight : BOOLEAN,
     lookup : {"cacheable", "raises", "none"}]

ASSUME PipelineAssumption ==
    /\ \A k \in Kinds : k \in Kind /\ (k.preflight => k.lookup = "none")
    /\ \A f \in GatewayFiles : f \in GatewayConfig /\ "none" \notin f.keys
    /\ MockMode \in BOOLEAN

Path(name) == [name |-> name, slashes |-> 0]
Root == [name |-> "", slashes |-> 1]

PublicPaths ==
    {Path(name) : name \in {"/v1/health", "/health", "/docs", "/openapi.json", "/redoc",
                            "/metrics"}} \union {Root}

\* request.url.path.rstrip("/"): of the root nothing is left.
Stripped(path) == [path EXCEPT !.slashes = 0]

\* The order of the add_middleware calls; Starlette puts each new one around
\* those added before, so the last is the first to see a request.
Added == <<"cors", "logging", "auth", "metrics", "caching">>
Layers == Reverse(Added)

Route == Len(Layers) + 1

VARIABLES
    req,        \* req[r]: what r asks for and where it stands
    store,      \* _cache._store
    gatewayFile,    \* gateway.yaml on disk
    cached,     \* settings._gateway, at most one file
    logged,     \* lines that LoggingMiddleware has written for r
    counted,    \* statuses that MetricsMiddleware has counted for r
    span,       \* r's OpenTelemetry span
    seen        \* history: what settings.gateway has been since r arrived

settings == <<gatewayFile, cached, seen>>
observed == <<logged, counted, span>>
vars == <<req, store, settings, observed>>

\* settings.gateway, or nothing when reading it raises.
InForce == Value(cached, gatewayFile)

(***************************************************************************)
(* `at` is the layer that acts next, 0 being Starlette's error handler.    *)
(* `status` is that of the reply on its way up, 0 while there is none.     *)
(* `metered` says that MetricsMiddleware found metrics enabled.  Headers   *)
(* that layers add are left out.                                           *)
(***************************************************************************)
ReqRecord ==
    [kind : Kinds, at : 0 .. Route, way : {"down", "up", "raised", "replied", "cancelled"},
     status : {0, 200, 307, 401, 404, 500}, metered : BOOLEAN]

TypeOK ==
    /\ req \in [Requests -> ReqRecord]
    /\ \A r \in Requests : req[r].status # 0 <=> req[r].way \in {"up", "replied"}
    /\ DOMAIN store \subseteq {k.path : k \in Kinds}
    /\ gatewayFile \in GatewayFiles
    /\ cached \in {{}} \union {{f} : f \in {g \in GatewayFiles : Valid(g)}}
    /\ \A r \in Requests : seen[r] \subseteq {{}} \union {{f} : f \in GatewayFiles}
    /\ logged \in [Requests -> 0 .. 2]
    /\ counted \in [Requests -> Seq({200, 307, 401, 404, 500})]
    /\ span \in [Requests -> {"none", "open", "ended"}]

Arriving(k) == [kind |-> k, at |-> 1, way |-> "down", status |-> 0,
                 metered |-> FALSE]

Init ==
    /\ req \in [Requests -> {Arriving(k) : k \in Kinds}]
    /\ store = EmptyStore
    /\ gatewayFile \in GatewayFiles /\ Valid(gatewayFile)
    /\ cached = {gatewayFile}
    /\ seen = [r \in Requests |-> {InForce}]
    /\ logged = [r \in Requests |-> 0]
    /\ counted = [r \in Requests |-> << >>]
    /\ span = [r \in Requests |-> "none"]

-----------------------------------------------------------------------------

\* r is at the layer called `name`, on its way `way`.
AtLayer(r, name, way) ==
    req[r].at \in DOMAIN Layers /\ Layers[req[r].at] = name /\ req[r].way = way

\* The layer awaits the next one; the reply or the exception goes on up.
Down(r) == req' = [req EXCEPT ![r].at = @ + 1]
Up(r) == req' = [req EXCEPT ![r].at = @ - 1]

\* The layer answers, or the route does.
Reply(r, status) ==
    req' = [req EXCEPT ![r].at = @ - 1, ![r].way = "up", ![r].status = status]

Raise(r) == req' = [req EXCEPT ![r].at = @ - 1, ![r].way = "raised"]

\* The layer reads settings.gateway, which is cached from then on.
SettingsRead == cached' = InForce /\ UNCHANGED <<gatewayFile, seen>>

-----------------------------------------------------------------------------
(* Down.                                                                   *)

Lookup(r, c) == IF c.cache THEN req[r].kind.lookup ELSE "none"

\* Not for the cache: straight on.
CachingPasses(r) ==
    /\ AtLayer(r, "caching", "down")
    /\ \E c \in InForce : Lookup(r, c) = "none"
    /\ Down(r)
    /\ SettingsRead /\ UNCHANGED <<store, observed>>

\* Up to the `await call_next`: a hit is answered at once.  Nothing is ever
\* stored, so the time of the look-up does not matter.
CachingLooksUp(r) ==
    /\ AtLayer(r, "caching", "down")
    /\ \E c \in InForce : Lookup(r, c) = "cacheable"
    /\ store' = AfterGet(store, req[r].kind.path, 0)
    /\ IF Found(store, req[r].kind.path, 0) = {} THEN Down(r) ELSE Reply(r, 200)
    /\ SettingsRead /\ UNCHANGED observed

\* AttributeError: a list has no `get`.  It leaves the outermost layer.
CachingRaises(r) ==
    /\ AtLayer(r, "caching", "down")
    /\ \E c \in InForce : Lookup(r, c) = "raises"
    /\ Raise(r)
    /\ SettingsRead /\ UNCHANGED <<store, observed>>

\* The first line of three of the layers raises: no settings are cached, and
\* the file does not parse.
SettingsUnreadable(r) ==
    /\ \E name \in {"caching", "metrics", "auth"} : AtLayer(r, name, "down")
    /\ InForce = {}
    /\ Raise(r)
    /\ UNCHANGED <<store, settings, observed>>

MetricsStarts(r) ==
    /\ AtLayer(r, "metrics", "down")
    /\ \E c \in InForce :
         /\ req' = [req EXCEPT ![r].at = @ + 1, ![r].metered = c.metrics]
         /\ span' = [span EXCEPT ![r] = IF c.metrics THEN "open" ELSE @]
    /\ SettingsRead /\ UNCHANGED <<store, logged, counted>>

\* Mutant: a key that is there will do.
AuthorisedByAnyKey(r, c) ==
    \/ ~ c.auth \/ MockMode
    \/ Stripped(req[r].kind.path) \in PublicPaths \/ req[r].kind.path.name \in DocsPaths
    \/ req[r].kind.key # "none"

\* validate_api_key() raises without a bearer key and for one that is not in
\* the configuration.
KeyValid(r, c) == req[r].kind.key \in c.keys

\* Authentication off, a public path, or a valid key.
Authorised(r, c) ==
    \/ ~ c.auth \/ MockMode
    \/ Stripped(req[r].kind.path) \in PublicPaths \/ req[r].kind.path.name \in DocsPaths
    \/ KeyValid(r, c)

AuthForwards(r) ==
    /\ AtLayer(r, "auth", "down")
    /\ \E c \in InForce : Authorised(r, c)
    /\ Down(r)
    /\ SettingsRead /\ UNCHANGED <<store, observed>>

AuthRefuses(r) ==
    /\ AtLayer(r, "auth", "down")
    /\ \E c \in InForce : ~ Authorised(r, c)
    /\ Reply(r, 401)
    /\ SettingsRead /\ UNCHANGED <<store, observed>>

LoggingStarts(r) ==
    /\ AtLayer(r, "logging", "down")
    /\ Down(r)
    /\ logged' = [logged EXCEPT ![r] = 1]
    /\ UNCHANGED <<store, settings, counted, span>>

CorsForwards(r) ==
    /\ AtLayer(r, "cors", "down") /\ ~ req[r].kind.preflight
    /\ Down(r)
    /\ UNCHANGED <<store, settings, observed>>

\* Starlette's CORSMiddleware answers a preflight request itself.
CorsAnswers(r) ==
    /\ AtLayer(r, "cors", "down") /\ req[r].kind.preflight
    /\ Reply(r, 200)
    /\ UNCHANGED <<store, settings, observed>>

\* No route but the root's ends in a slash: a request for another path that
\* does is redirected to the one without, if there is one.
RouteReplies(r, status) ==
    /\ req[r].at = Route /\ req[r].way = "down" /\ req[r].kind.path # Path("/metrics")
    /\ LET extra == req[r].kind.path.slashes > 0 /\ req[r].kind.path # Root
       IN  status # IF extra THEN 200 ELSE 307
    /\ Reply(r, status)
    /\ UNCHANGED <<store, settings, observed>>

\* GET /metrics has a switch of its own to look at.
MetricsServed(r) ==
    /\ req[r].at = Route /\ req[r].way = "down" /\ req[r].kind.path = Path("/metrics")
    /\ \E c \in InForce : Reply(r, IF c.metrics THEN 200 ELSE 404)
    /\ SettingsRead /\ UNCHANGED <<store, observed>>

RouteRaises(r) ==
    /\ req[r].at = Route /\ req[r].way = "down"
    /\ req[r].kind.path = Path("/metrics") => InForce = {}
    /\ Raise(r)
    /\ UNCHANGED <<store, settings, observed>>

-----------------------------------------------------------------------------
(* Up.                                                                     *)

LoggingReturns(r) ==
    /\ AtLayer(r, "logging", "up")
    /\ Up(r)
    /\ logged' = [logged EXCEPT ![r] = 2]
    /\ UNCHANGED <<store, settings, counted, span>>

\* The others pass a reply on; the caching layer, too, stores nothing of it.
PassesUp(r) ==
    /\ \E name \in {"cors", "auth", "caching"} : AtLayer(r, name, "up")
    /\ Up(r)
    /\ UNCHANGED <<store, settings, observed>>

Counts(r, status) ==
    IF req[r].metered
    THEN /\ counted' = [counted EXCEPT ![r] = Append(@, status)]
         /\ span' = [span EXCEPT ![r] = "ended"]
    ELSE UNCHANGED <<counted, span>>

MetricsReturns(r) ==
    /\ AtLayer(r, "metrics", "up")
    /\ Up(r)
    /\ Counts(r, req[r].status)
    /\ UNCHANGED <<store, settings, logged>>

\* Mutant: only replies are counted.
MetricsSeesRaiseUncounted(r) ==
    /\ AtLayer(r, "metrics", "raised")
    /\ Up(r)
    /\ UNCHANGED <<store, settings, observed>>

\* `except Exception`: a 500 is counted, and the exception raised again.
MetricsSeesRaise(r) ==
    /\ AtLayer(r, "metrics", "raised")
    /\ Up(r)
    /\ Counts(r, 500)
    /\ UNCHANGED <<store, settings, logged>>

\* No other layer catches anything.
RaisePasses(r) ==
    /\ req[r].way = "raised" /\ req[r].at > 0 /\ ~ AtLayer(r, "metrics", "raised")
    /\ Up(r)
    /\ UNCHANGED <<store, settings, observed>>

\* Mutant: the handler logs and returns nothing.
ErrorSwallowed(r) ==
    /\ req[r].at = 0 /\ req[r].way = "raised"
    /\ req' = [req EXCEPT ![r].way = "replied"]
    /\ UNCHANGED <<store, settings, observed>>

\* global_exception_handler, run by Starlette around all the middleware.
ErrorHandled(r) ==
    /\ req[r].at = 0 /\ req[r].way = "raised"
    /\ req' = [req EXCEPT ![r].way = "replied", ![r].status = 500]
    /\ UNCHANGED <<store, settings, observed>>

ReplySent(r) ==
    /\ req[r].at = 0 /\ req[r].way = "up"
    /\ req' = [req EXCEPT ![r].way = "replied"]
    /\ UNCHANGED <<store, settings, observed>>

\* Mutant: without `finally`.
CancelledLeaving(r) ==
    /\ req[r].way = "down" /\ req[r].at > 1
    /\ req' = [req EXCEPT ![r].way = "cancelled"]
    /\ UNCHANGED <<store, settings, observed>>

\* The task is cancelled in one of its awaits: no `except Exception` sees it,
\* but the `finally` that ends the span runs.
Cancelled(r) ==
    /\ req[r].way = "down" /\ req[r].at > 1
    /\ req' = [req EXCEPT ![r].way = "cancelled"]
    /\ span' = [span EXCEPT ![r] = IF @ = "open" THEN "ended" ELSE @]
    /\ UNCHANGED <<store, settings, logged, counted>>

\* r has come to the first layer.
Arrived(r) == req[r].at # 1 \/ req[r].way # "down"

\* What a request sees of the settings, whenever it looks at them.
Notes == seen' = [r \in Requests |-> IF Arrived(r) THEN seen[r] \union {InForce'} ELSE {InForce'}]

FileEdited ==
    /\ gatewayFile' \in GatewayFiles \ {gatewayFile}
    /\ UNCHANGED <<req, store, cached, observed>>
    /\ Notes

\* The models half has no say in what becomes of the gateway half.
SettingsReloaded ==
    /\ cached' = Parsed(gatewayFile)
    /\ UNCHANGED <<req, store, gatewayFile, observed>>
    /\ Notes

Next ==
    \/ FileEdited \/ SettingsReloaded
    \/ \E r \in Requests :
        \/ CachingPasses(r) \/ CachingLooksUp(r) \/ CachingRaises(r)
        \/ SettingsUnreadable(r) \/ MetricsStarts(r) \/ AuthForwards(r) \/ AuthRefuses(r)
        \/ LoggingStarts(r) \/ CorsForwards(r) \/ CorsAnswers(r)
        \/ \E status \in {200, 307, 404} : RouteReplies(r, status)
        \/ MetricsServed(r) \/ RouteRaises(r)
        \/ LoggingReturns(r) \/ PassesUp(r) \/ MetricsReturns(r)
        \/ MetricsSeesRaise(r) \/ RaisePasses(r) \/ ErrorHandled(r) \/ ReplySent(r)
        \/ Cancelled(r)

Spec == Init /\ [][Next]_vars

-----------------------------------------------------------------------------
(* Properties.                                                             *)

Over(r) == req[r].way \in {"replied", "cancelled"}

\* The settings could not be read at some time since r arrived.
Unreadable(r) == {} \in seen[r]

\* Every request that is answered is counted once, with the status its client
\* gets, whichever layer answered or raised, and whatever becomes of the
\* settings meanwhile.  It is not counted only if metrics were off when it came,
\* or if the caching layer, which is outside, or the metrics layer itself could
\* not go on: those 500s are counted nowhere.
CountedAsAnswered ==
    \A r \in Requests : req[r].way = "replied" =>
        \/ counted[r] = <<req[r].status>>
        \/ /\ counted[r] = << >>
           /\ \/ \E f \in seen[r] : \E c \in f : ~ c.metrics
              \/ req[r].status = 500 /\ (req[r].kind.lookup = "raises" \/ Unreadable(r))

\* No span outlives its request, however that ends: answered by its route or
\* in front of it, failed, or cancelled.
SpansEnded == \A r \in Requests : Over(r) => span[r] # "open"

\* A path on the list of those that need no key, or one of them followed by
\* slashes.
Public(path) == \E listed \in PublicPaths : listed.name = path.name

\* By settings c a request of kind k may go on ...
Opens(k, c) ==
    ~ c.auth \/ MockMode \/ k.key \in c.keys \/ Public(k.path) \/ k.path.name \in DocsPaths

\* ... or may be refused: nothing but the root is public and refused.
Refuses(k, c) ==
    /\ c.auth /\ ~ MockMode /\ k.key \notin c.keys /\ k.path.name \notin DocsPaths
    /\ Public(k.path) => k.path.name = ""

\* Only requests that are authorised, by settings in force since they arrived,
\* get past the authentication layer: neither a key that was revoked before, nor
\* slashes after a path, nor settings that cannot be read let one through.  Every
\* other one is answered 401, or 500 when the settings cannot be read or the body
\* is at fault; and 401 is for those only that some settings since they arrived
\* refuse.  (It also is for the root, see PublicPathsOpen.)
OnlyAuthorisedRouted ==
    \A r \in Requests :
        LET open == \E f \in seen[r] : \E c \in f : Opens(req[r].kind, c)
        IN  /\ req[r].at = Route \/ logged[r] > 0 \/ req[r].status \in {200, 307, 404} => open
            /\ ~ open /\ req[r].way = "replied" =>
                 \/ req[r].status = 401
                 \/ req[r].status = 500 /\ (req[r].kind.lookup = "raises" \/ Unreadable(r))
            /\ req[r].status = 401 => \E f \in seen[r] : \E c \in f : Refuses(req[r].kind, c)

\* "Paths that do NOT require authentication" (middleware/auth.py) are open to
\* requests without a key.
PublicPathsOpen == \A r \in Requests : req[r].kind.path \in PublicPaths => req[r].status # 401

\* "Cache non-streaming POST responses for configured TTL." (middleware/caching.py):
\* a cacheable request that was answered 200 while caching was on has left an entry
\* behind.
AnswersCached ==
    \A r \in Requests :
        /\ req[r].way = "replied" /\ req[r].status = 200 /\ req[r].kind.lookup = "cacheable"
        /\ \A f \in seen[r] : \E c \in f : c.cache
        => req[r].kind.path \in DOMAIN store

=============================================================================
