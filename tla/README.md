# Verification of the NVIDIA NIM Gateway

TLA+ models of the gateway in `backend/nim_gateway`, model-checked with TLC, and
theorems about them proved with TLAPS. Paths below are relative to
`backend/nim_gateway` unless they start with another top-level directory.

Contents: [inventory](#1-inventory) · [plan](#2-plan) ·
[modules and code](#3-modules-and-code) · [runs](#4-runs) ·
[fairness and deadlock](#5-fairness-and-deadlock) · [proofs](#6-proofs) ·
[divergences](#7-where-code-and-documentation-differ) ·
[not modelled](#8-not-modelled)

To check: `tlc -config X.cfg M` for the module and configuration of a run in
section 4, and `tlapm M.tla` for a module of section 6.

## 1. Inventory

The gateway is one Python process with one asyncio event loop. Nothing runs in
parallel: a coroutine keeps the loop until its next `await`, so code between two
awaits is one atomic step, and everything that can go wrong between actors goes
wrong *at* an await. Nothing is persisted: a restart begins from the
configuration files.

| Component | State | Operations | Talks to |
|---|---|---|---|
| Circuit breaker (`gateway/circuit_breaker.py`) | state, failure count, time of last failure, half-open counter | `call`, `state` (reading it may change it), `_record_success`, `_record_failure`, `reset` | owned by one client |
| NIM client (`provider/nvidia_nim.py`) | its breaker, an httpx pool | `request`, `stream`, `health`, `close` | upstream over HTTP |
| Fallback chain (`gateway/fallback.py`) | list of clients | `execute`, `_stream_with_fallback` | clients, in order |
| Load balancer (`gateway/load_balancer.py`) | shuffled pool, `itertools.cycle` | `next`, `available_clients` | breakers of its clients |
| Model registry (`provider/model_registry.py`) | providers, clients, routes, default | `load`, lookups | settings; builds clients and balancers |
| Settings (`core/config.py`) | two lazily cached, validated files | `gateway`, `models`, `reload` | the YAML files |
| Router (`gateway/router.py`) | none | `route`, `_resolve_clients` | registry, a chain per request |
| Endpoints (`api/v1/*.py`) | none; a generator per stream | four POST handlers, `/v1/models`, `/health` | router, registry, health checker |
| Health checker (`provider/health_check.py`) | latest report, background task | `start`, `stop`, `check_all`, the loop | `health()` of the registry's clients |
| Rate limiter (`core/rate_limit.py`) | a deque of times per client | `check`, `remaining`, `reset` | called by nothing |
| Response cache (`middleware/caching.py`) | a dictionary with expiry times | `get`, `set`, `invalidate`, `dispatch` | outermost layer |
| Other middleware (`middleware/{auth,metrics,logging}.py`) | counters, a span per request | `dispatch` | the layer below, `core/security.py`, settings |
| Telemetry (`monitoring/*.py`) | none of the gateway's own | `init`, `/metrics` | settings, third-party SDKs |
| Assembly (`main.py`) | none | order of the layers, lifespan, error handler | all of them |

What makes each correct, and where it is hard:

- **Circuit breaker.** It rejects for the recovery timeout after the latest
  failure, one probe then decides. `_record_failure` has no rule for half open:
  a failed probe reopens only because the count survives the way through open
  and half open, so the property is about whole histories, with outcomes that
  arrive after the circuit has moved on.
- **Client.** What is booked on the breaker is what happened upstream, no more
  and no less. Two coroutines on one client interleave at the upstream call; a
  consumer may abandon a stream; `request` hands the breaker a coroutine
  function it does not await.
- **Fallback chain.** Each provider is tried in order, is skipped only for
  cause, and every execution ends. Between two providers other executions move
  the breakers the chain is about to read. Streams leave the loop before they
  start.
- **Load balancer.** Shares follow the weights exactly over any full round, and
  only circuits that must be open are filtered out although nothing moves an
  open circuit but being looked at.
- **Registry and settings.** After a load, what the file says is what serves;
  `load` replaces one dictionary and merges into two, `reload` forgets before it
  reads, validation may fail between the two, and `load` itself may raise with
  half of its work done.
- **Lifespan.** The registry, the settings and the health checker are singletons
  that outlive an application. Startup may fail at each of its steps, shutdown may
  be skipped, and the next startup meets what is left.
- **Router and endpoints.** Every status has its reason, what is sent goes to the
  provider that the model stands for, and a stream comes to `[DONE]` however it goes wrong: the same
  failure is a 404, a 502 or an event inside a 200, depending on how far the
  request has come.
- **Event streams.** The upstream's stream arrives in pieces cut anywhere, each of
  which is framed once more; a client that parses what it gets must find the
  completion in it, the gateway's own error, and an end.
- **Health checker.** Passes of the loop and of `/health` requests overlap and
  publish into one dictionary, so a slow pass may overwrite a newer report. The
  report must be complete, must not go back, and must converge.
- **Rate limiter.** No window holds more than the limit, and `Retry-After` is
  exact: two off-by-one questions over histories of evictions.
- **Response cache.** Bounded, fresh, and evicting what is of least use. The
  middleware looks entries up and stores none.
- **Middleware and assembly.** What is counted is what was answered, every span
  ends, nothing unauthorised passes, in whatever layer a request is answered,
  fails or is cancelled, and although three layers read the settings for
  themselves while these are edited and reloaded. Starlette runs the layers in the reverse of the order
  in which `main.py` adds them.

`PROJECT.json` lists under `hazards` the lines where each of these bites.

## 2. Plan

In order of importance; all of it is done.

1. `Breaker`, `CircuitBreaker`, with the abstract `BreakerContract` that it
   implements. Everything else that fails over is built on it.
2. `NIMClient`: concurrent operations on one breaker. Every step of it is one of
   `CircuitBreaker` on that breaker, so the contract holds of the client as well.
3. `FallbackChain`: many executions over many breakers.
4. `HealthChecker`: the one background task, with liveness.
5. `RateLimiter`: a sliding window with its clock, and `SlidingWindow`, the
   limiter that forgets nothing, which it implements.
6. `Settings`, `Registry`, `ModelRegistry`: reloading both files, loads that fail
   anywhere; `Registry` is also what `Gateway` serves from.
7. `Application`: the lifespan over `ModelRegistry` and the health checker.
8. `Sse` and `Gateway`: endpoints, router, registry, a breaker per request, and
   what a client makes of the streams.
9. `Cache`, `MemoryCache` and `LoadBalancer`.
10. `Pipeline`: the middleware stack, with `Cache` in its outermost layer and the
    settings read by three of them.

Theorems, in order: the breaker, its contract and the client; the chain; the cache;
the rate limiter and its refinement; the middleware stack; the application; the load
balancer and the health checker; the gateway with its event streams. Section 6 has
them, and what is left to TLC and why.

How the modules build on one another:

```
Breaker ─┬─ CircuitBreaker ──implements──▶ BreakerContract
         │        └─ NIMClient     (a breaker and the operations on it)
         ├─ FallbackChain          (a breaker per provider)
         ├─ LoadBalancer           (a breaker per client)
         └─ Gateway ◀── Registry, Sse
Settings ┬─ Registry ── ModelRegistry ── Application
         └─ Pipeline ◀── Cache ── MemoryCache
RateLimiter ──implements──▶ SlidingWindow
HealthChecker
```

The proofs: `BreakerTheorems` (of `Breaker`), `RequestPathProofs` (of `CircuitBreaker`,
`NIMClient` and `Gateway`), `ProviderProofs` (of `LoadBalancer` and `HealthChecker`),
and `FallbackChainProofs`, `MemoryCacheProofs`, `RateLimiterProofs`,
`PipelineProofs`, `ApplicationProofs`, each of one component. Components whose
theorems share a module, or of which one extends the other, have names that say which
of them is meant: `BreakerSpec`, `BalancerSpec`, `GatewaySpec`.

## 3. Modules and code

In all modules an action is a piece of a coroutine between two awaits, and its
name says whose. Times are whole ticks; only comparisons of times matter to the
code, except in `RateLimiter`, which has several ticks to the second because
`Retry-After` is rounded. Definitions that are named after another with a suffix
(`RecordSuccessAlways`, `StreamStartsUnchecked`) and marked `Mutant:` are
plausible slips, used only to see that the properties notice; no specification
contains them.

**Breaker** has the breaker's methods as functions on a record of the four
fields of `CircuitBreaker`. `Observe` is the `state` property, which moves an
open circuit whose timeout is over to half open; `Admits` the two tests of
`call()`; `RecordFailure`, `RecordSuccess` and `ResetBreaker` are the methods of
those names. No method increments `_half_open_calls`, so neither does a function.
`_last_failure_time` starts at 0.0 in the code as in `NewBreaker`; it is read only
while open, and opening sets it.

**CircuitBreaker** is one object with `cb` (the record) and `now`. `CallReturns`,
`CallRaises` and `CallRejected` are `call()` by what `func` does; `LateSuccess` and
`LateFailure` are the two methods as `NIMClient.stream` calls them, long after the
check that let the stream through. `ResettableSpec` adds `reset()`, which only
tests call; `Calibration` is proved of it. `TimePasses` is the clock.

**BreakerContract** is the state machine of the module's docstring, without a
failure count: `phase`, `retryAt`, `now`. `CircuitBreaker` implements it with
`phase` as its state and `retryAt` as the last failure plus the timeout while open.

**NIMClient** extends `CircuitBreaker` with a set of operations `Tasks`, each a request
or a stream in two steps, its start and its outcome. An operation fails at most once, so
that `MaxFailures`, `CircuitBreaker`'s bound, is no bound here: it is assumed to be no
less than the number of operations. `RequestStarts` books a success:
`call()` calls `_do_request` without awaiting it, gets a coroutine object, and
records that. `StreamAbandoned` books nothing: `GeneratorExit` and
`CancelledError` are not `Exception`s. `quietUntil` is history.

**FallbackChain** is one chain of providers with a breaker each. A rejection awaits
nothing, so one step passes over all providers that reject and stops at the first
that does not (`Continue`). A streaming execution is a generator returned from the
first iteration: it uses `Chain[1]` and nothing else. What has failed where is told
by the executions themselves (`FailedAt`). Lists are arbitrary
non-empty sequences; that a name may occur twice is allowed, as in the code. The
router today builds chains of one (`gateway/router.py:51` fails before it could
build a longer one), so the chain is modelled as the class allows it to be used.

**HealthChecker** has the report `statuses`, the background loop, and a `check_all`
pass per actor that probes providers one after the other. A probe is two steps:
the provider is looked at (`ProbeAnswered`), and the pass resumes
(`ProbeReturns`), which publishes the results in the step of the last one. `Stop`
cancels the task wherever it waits. `/health` returns the report if there is one
and runs a pass of its own if not. The clients are the registry's, but `health()`
does not consult their breakers, so no breaker appears. The providers are fixed
here; `Application` has passes over a registry that changes. Three variables are
history: `earlier[x]`, the passes that ran when `x` began and run still; `late`, those
that one of the passes begun after them has overtaken; `warmup`, those that began
before there was a report.

**RateLimiter** has `bucket`, a deque of times per client, with `check()` split by
how it ends, `remaining()`, which evicts as well, and `reset()`. Nothing in the
gateway calls the limiter; the model has callers do whatever the signatures allow,
with the limit and window of a client fixed, as a configuration would.
**SlidingWindow** is the limiter that remembers every admission and counts those of
the last window; `RateLimiter` implements it with `admitted`, a history variable.

**Settings** has the lazy loader of `core/config.py`: a cached value per half, a read
that fills it or raises, and `reload()`, which forgets both halves and then reads
the gateway half first. What is wrong with a file is the set of its `faults`.

**Registry** has `load()` as a function from a registry and a file to a registry:
`providers` replaced, `clients` and `routes` merged, `default` kept if the file has
no provider; `HalfLoaded` is what a `load()` leaves that raises between two clients.
`Resolution` is the three stages of `_resolve_clients`, `Listed` what `/v1/models`
lists. A client is a pair of a provider and the number of the load that built it,
which is all that tells two clients apart.

**ModelRegistry** adds the files on disk and the settings singleton, and has the
operations on them: edits, `Settings.reload()`, and the ways in which `load()` ends,
according to whether the models file validates (`LoadFailsToRead`), and whether the
gateway file can be read and a client built for each URL (`LoadFailsHalfway`).

**Application** says when they are called: `load()` by the lifespan, which then
starts the health checker and reads the settings for telemetry. Several applications
may live one after the other on the same singletons, as tests and embedding servers
do. `Startup` is one step since nothing in it gives way; `TelemetryFails` is a
startup whose models file has no provider, so that only the last step misses the
gateway file. `Interrupted` is an exception at the lifespan's `yield`, which skips
`stop()`; the task is then left running or, if its event loop is closed, dead. A
pass takes the names when it begins and looks each client up when it comes to it.

**Sse** has the framing of a write and the parser of a client, which is external:
lines, `data` fields, and an event at each empty line. A body is a sequence of
tokens, and it may be cut between any two, in the field name as well. `Parse` is a
recursive function over the number of tokens read.

**Gateway** has requests of every endpoint and kind, answered by handler, router and
registry. A stream's reply is a generator that runs after the handler returned: the
router is asked at `BodyStarts` or `BodyFails`, each write is one step, and
`ClientLeaves` may come between any two. `reader` is the state of the client's
parser after all writes so far. Upstreams stream any tokens but the two that stand
for the gateway's own texts, its error and its mock chunk (`UpstreamToken`); for
content that is none of the framing, so much is assumed (`GatewayAssumption`). A direct resolution builds a client, hence a
breaker, for the one request, from the limits that `CircuitBreaker` has by default;
a routed one raises `AttributeError`, which the handlers turn into 502. A mock
answers 200, but the mock of the reranking endpoint raises for a passage whose text
is no string, outside of any `try` (`MockRaises`).

**Cache** has the dictionary of `MemoryCache` and its methods as functions,
**MemoryCache** every sequence of calls of them. `min()` picks any of the entries
that expire first, since nothing is known of equal ones. `invalidate` deletes any
subset: keys are digests, so a prefix selects arbitrarily.

**LoadBalancer** has a list of clients, in which one may occur more than once, as a
route may name a provider more than once (`model_registry.py:49`); the pool in every
order `random.shuffle` may give it, and a position in it. Breakers belong to clients,
not to places in the list, and of `available_clients()` the model keeps who is in the
result. Streams on its clients are reduced to their outcomes.

**Pipeline** has the layers as positions, a request's way down and a reply's or an
exception's way up, and one action per layer and direction. Caching, metrics and
authentication read `settings.gateway` when a request comes to them
(`SettingsRead`), as does the route of `/metrics`; if nothing is cached and the file
does not parse, that raises (`SettingsUnreadable`). `seen` is history: what a read
would have found at any time since the request arrived. It is external behaviour of
Starlette, taken from how `main.py` uses it, that the layer added last is outermost,
that the CORS layer answers preflight requests, that the handler for `Exception`
runs around all layers, and that `call_next` returns a stream over the reply: the
caching layer either takes it for a `StreamingResponse` or misses `body`, and stores
nothing either way (`middleware/caching.py:129` and `:137`). A hit would be answered in
front of metrics and authentication, so the properties of the pipeline rest on this;
`AnswersCached` (section 7) states what the documentation says instead.
A path is a name and the number of slashes after it, since authentication takes them
off (`Stripped`) and Starlette's router redirects a path that has them to the one that
has not. `SettingsReloaded` is `Settings.reload()`, which no code in the repository
calls: whoever embeds the gateway may. Without it the settings that the import of the
caching layer reads (`middleware/caching.py:61`) stay in force.

## 4. Runs

Ten runs pass; two show that a statement of the documentation is violated
(section 7). All of them explore their whole state space (the distinct states are
given) except the violations, which stop at their counterexample.

| Run | Module, configuration | States | Bounds |
|---|---|---|---|
| `circuit_breaker` | `CircuitBreaker` | 336 | threshold 3, timeout 2, time 0..7, 6 failures |
| `nim_client` | `MCNIMClient`, `NIMClient.cfg` | 7 299 | 4 operations, threshold 2, timeout 2, time 0..5; symmetric |
| `requests_never_trip` | `MCNIMClient`, `NIMClientRequestsTrip.cfg` | – | the same |
| `fallback_chain` | `MCFallbackChain`, `FallbackChain.cfg` | 18 460 | 3 executions, chain of 3, threshold 2, timeout 2, time 0..4 |
| `health_checker` | `HealthChecker` | 159 312 | 2 providers, the loop and 2 requests |
| `rate_limiter` | `MCRateLimiter`, `RateLimiter.cfg` | 101 487 | limits 2 and 0, window of 2 s, 2 ticks to the second, 14 ticks |
| `application` | `MCApplication`, `Application.cfg` | 98 740 | 2 gateway files, 5 models files, 3 loads |
| `gateway` | `MCGateway`, `Gateway.cfg` | 74 403 | 1 request of every kind, 3 files, a body of 11 tokens, mock streams of up to 3 writes |
| `routed_models` | `MCGateway`, `GatewayRouted.cfg` | – | 1 request, no mock mode |
| `memory_cache` | `MemoryCache` | 84 846 | 3 keys, room for 2, 5 `set()` calls, time 0..4, Ttl 1 |
| `load_balancer` | `MCLoadBalancer`, `LoadBalancer.cfg` | 53 256 | weights 2 and 0, the latter named twice, 6 picks, 3 failures each, time 0..3 |
| `pipeline` | `MCPipeline`, `Pipeline.cfg` | 1 845 972 | 2 requests of 6 kinds, 3 gateway files; symmetric |

What each shows, and why the bounds are enough:

- **circuit_breaker.** `ClosedIffBelowThreshold`: closed exactly while the count is
  below the threshold. `ImplementsContract`: the class is the documented machine,
  with its waiting time. Time covers three timeouts in a row, and failures twice the
  threshold: open, probe, reopen, probe, close. The theorems cover every value.
- **nim_client.** `NoPhantomFailures`: the count never exceeds the streams that
  failed. `FailFast`: nothing is let through while the waiting time of the latest
  failure that left the circuit open lasts. `HalfOpenFailureReopens`: one failed
  probe reopens, for a threshold above one too. `UsesBreaker`: on its breaker, the
  client is a behaviour of `CircuitBreaker`. Four operations are what a
  late failure needs: two to open, one let through before, one probe. Proved for
  any number.
- **fallback_chain.** `TriedInOrder`: every earlier provider has rejected or failed
  this execution, and no other was touched. `SkippedForCause`: a skipped provider is
  in its waiting time. `TripsForOwnFailures`: a circuit that is not closed belongs to a
  provider at which the threshold's number of executions have failed, so none is
  booked twice and no provider pays for another one's failures. The converse does
  not hold, see `requests_never_trip`. `ExecutionsSettle`: every
  non-streaming execution ends. Two streams open the circuit and a third execution
  meets it; a chain of three has a first, a middle and a last provider.
- **health_checker.** `ReportsAreComplete`; `NoRegressionAfterWarmup`: a report is
  overwritten by an older pass only if that pass began before anything was
  published; `Converges`: a provider that stays as it is comes to be reported so for
  good. Two requests and the loop give three overlapping passes, and two providers a
  pass that is half done. Nothing is bounded but the actors: conditions change and
  the loop restarts any number of times.
- **rate_limiter.** `AtMostLimitPerWindow`; `RetryAfterIsExact`;
  `ImplementsWindow`: every check is decided as if nothing had been evicted. Half
  seconds tell `int()` from rounding; fourteen ticks are three and a half windows; the
  second client has the limit 0 that no validation forbids.
- **application.** `LoadTakesEffect`: what the file of the latest successful load
  configures is in force, and a load that fails later takes nothing of it back;
  `ServedRegistryIsWhole`: requests only see registries that one load has completed;
  `KnownOnceConfigured`: no load makes models unknown; `ReportMatchesRegistry`: an
  application that stays up, with a health checker that lives, comes to report on
  exactly its providers. The models files are the shipped one, the same completed,
  one with a URL that is none, one that exchanges providers and routes, and none;
  the gateway file parses or does not. Three loads make every pair of files meet
  with a third before it, and three lives of the singletons.
- **gateway.** `StreamsWellFormed`: as its client parses it, every stream has at most
  one error of the gateway's, with nothing after it but `[DONE]`, ends in a `[DONE]` of
  the gateway's, and no write runs into the next (events of the gateway's own may follow
  a `[DONE]` that is the upstream's);
  `ContentIntact`: the completion comes through in order and without a gap however
  it is cut; `RepliesExplained`: every status has its reason, and what is sent
  goes where the model's name says, never from a mock; `StreamsEnd`. Requests share nothing but the history variable
  `broken`, which none of the four mentions, so one request is enough. The files
  are a gateway with a route, with a provider only, and with nothing; the body is a
  chunk of two pieces and a `[DONE]`, cut in every way.
- **memory_cache.** `Bounded`, `FreshHits`, `ExpiredGoFirst`;
  `EvictsLeastRecentlySet`: an entry is given up only when `cache_max_size` keys have
  been set no earlier than it. Three keys compete for two places, five `set()` calls
  overwrite and evict, and the clock lets entries expire in every order. Proved for every
  value.
- **load_balancer.** `ExactShares` over any window of a full round, across its end;
  `FilteredForCause`. Six picks of a pool of four contain windows from every kind of
  start; the weight of 0 counts as 1, twice over (`provider/nvidia_nim.py`,
  `load_balancer.py`), and its client is in the list twice.
- **pipeline.** `CountedAsAnswered`: what is counted is what was answered, with the
  exceptions it names; `SpansEnded`; `OnlyAuthorisedRouted`: nobody gets past the
  authentication layer whom no settings of the request's lifetime let in, and 401 is
  for those only whom some refuse. Slashes open a path only if it is public without
  them: `/metrics/` is let through without a key and then redirected. Both requests run through all layers with any
  interleaving, replied to, failing or cancelled in any, while the key is revoked and
  reinstated, caching and metrics go off and on, and the file becomes unreadable. What
  passes between requests is the settings and the empty store, which two exhaust.

The type invariants are proved throughout (section 6). The runs that list one do so
for its bounds, on the length of a report, the balancer's position, the statuses that
exist, which a slip in the code would break before anything else.

Each property has a mutant in `PROJECT.json`: a plausible slip in one definition
under which TLC finds the property violated in the same configuration.

## 5. Fairness and deadlock

Fairness is only assumed of what the code or its libraries bound by a timeout:

- `FallbackChain`: an upstream call that is waited for is answered or fails, since
  httpx gives each wait a timeout (`provider/nvidia_nim.py`, `config.timeout`).
  Streams, the clock and clients are not fair.
- `HealthChecker`: a probe ends (three GETs of at most five seconds), a coroutine
  that is ready is resumed, and `asyncio.sleep` returns. Weak fairness is enough,
  since none of these is disabled by another actor but `Stop`. Requests, changes of
  condition, `Start` and `Stop` are not fair.
- `Application`: the loop wakes and a probe returns, for the same reasons. Edits,
  reloads, startups and shutdowns are not fair.
- `Gateway`: the server goes on reading a body it has begun to send, and an upstream
  stream ends or breaks. The read timeout bounds each silence; that answers are
  finite is an assumption about models, which cap their tokens.

The other specifications state no fairness and no liveness.

`CHECK_DEADLOCK FALSE` stands in the configurations of `NIMClient`,
`FallbackChain`, `Application`, `Gateway` and `Pipeline` only. Their clients send a
fixed number of requests, and the application is loaded a fixed number of times, so
they stop when all are over and the clock is at its bound. In the others something
can always happen.

## 6. Proofs

`tlapm` checks every theorem below for all values of the constants, from the
assumptions named `...Assumption` in the modules: settings are natural numbers, a
threshold is positive (a fresh breaker with threshold 0 would be closed with a
count that is not below it), sets of operations, requests and keys are finite.

- **`BreakerTheorems`** states for each function of `Breaker` what it preserves. The
  other proofs cite these lemmas and expand nothing.
- **`RequestPathProofs`**, the breaker: `Calibration`, `BreakerTypeCorrect`,
  `Refinement`. The inductive invariant is the type and `Calibrated`. `Calibration`
  holds of `ResettableSpec`, that is, with `reset()` anywhere. The refinement needs the
  invariant for one thing: a failure in half open must be able to open only because
  the count has survived.
- **`RequestPathProofs`**, the client: `TypeCorrect`, `PhantomFree`, `FailsFast`,
  `ProbeFailureReopens`, `Composition`, `ClientRefinement`. The invariant adds
  `CountAccounted` (the count is at most the streams that failed, which only grow) and
  `QuietCovered` (`quietUntil` belongs to the last failure while the circuit is open,
  and is over otherwise): without the second, a half-open circuit that a late failure
  reopens cannot be told from one that should still be waiting. `ClientStep` shows
  each step of the client to be one of `CircuitBreaker`, where `CountAccounted` is what
  keeps the count below the bound; hence `Composition`, and with `Refinement`
  that the client, too, keeps the contract of the breaker.
- **`RequestPathProofs`**, the gateway: `GatewayTypeCorrect`, `Replies`,
  `StreamsFramed`, for any number of requests, any models files that load and any
  bodies cut anywhere. The invariant has the same three parts for every request
  (`Steady`). `Progress`: what a phase says of status, calls and mode. `Explained`: what
  a final status says of the registry, of what was sent and where to. `ReaderInv`: a reader is between two events
  whenever the generator is suspended, and while the upstream streams, all that it has
  are tokens of the upstream's, so that none of its events is an error of the gateway's;
  this is what makes an error unique and the last but one. That the gateway's own
  events arrive by themselves is `OwnEvent`, the parser run over the tokens of an error or
  of `[DONE]`, whatever the reader had before; that a piece of a body, wherever it was
  cut, leaves the reader between two events is `FramedParsed`, since each write ends in
  an empty line, and `FramedTokens`.
  Both rest on `ParseReads`: the recursion in `Parse` defines a function, and its
  value for the whole input comes from its values for less. `Parse` goes over the
  numbers up to a length, so this needs no induction theorem: were there an n for which
  no such function exists, there would be a least one (`FirstOf`), and it would extend
  the function for n - 1.
- **`FallbackChainProofs`**: `TypeCorrect`, `OrderKept`, `ChargedForTheirOwn`,
  `SkipsForCause`, for chains of any length. The invariant has one part per provider
  (`ProviderInv`) and one per execution (`Tried`); `ContinueStep` is the loop.
  `ChargedForTheirOwn` needs that a provider's failure count is at most the number of
  executions that failed at it, and that these only grow (`FailuresGrow`).
  `SkipsForCause` assumes `HalfOpenMaxCalls > 0`: with a quota of 0, which the
  configuration accepts, a half-open circuit rejects every call for ever.
- **`MemoryCacheProofs`**: `TypeCorrect`, `BoundedAlways`, `HitsFresh`,
  `ExpiredFirst`, `LeastRecentFirst`, for every limit, time to live and set of keys. The invariant adds
  `Entries`: a stored entry is the one that its key's latest `set()` wrote. Freshness
  of a hit does not follow from the freshness of earlier hits. `AfterSetBounded` is
  the argument that giving up one entry is enough, for a limit of 0 as well.

- **`RateLimiterProofs`**: `TypeCorrect`, `NeverAboveTheLimit`, `RetryAfterExact`,
  `Refinement`. The properties speak of all admissions, and `check()` of the bucket,
  which forgets. So the invariant has to say that a bucket is the end of its client's
  history and that what is missing is older than a window (`EndsHistory`): only then
  is a full bucket the same as a full window, and a bucket with room an argument
  about admissions long evicted (`Spaced`). `ToldWhen` keeps the promise of a 429
  while `remaining()` and other checks evict in between. The eviction loop is
  `PoppedEffect`; `SameCount` is the bridge from the bucket to `SlidingWindow`, which
  counts over the whole history.
- **`PipelineProofs`**: `TypeCorrect`, `AnswersCounted`, `NoSpanLeftOpen`,
  `NobodyElseRouted`, for any number of requests of any kinds, any paths with any
  number of slashes, and any gateway files. The invariant goes layer by layer:
  `Measured` says that the metrics layer is in its await exactly while a request is
  further in, that only then a span is open, and that it is counted from then on unless
  metrics were off or the fault lay further out; `Admitted` says who is past the
  authentication layer and what the status of every other request must be. Both speak
  of `seen[r]`, what the settings have been since `r` arrived, which a step of another
  request or an edit can only extend (`SeenGrows`). `AuthorisedMay` is the step from
  what the layer computes, on the stripped path, to what the property says, on the path
  as it came. That the store stays empty is part of the invariant: a hit would pass
  by the two layers that the theorems are about.
- **`ApplicationProofs`**: `TypeCorrect`, `LoadsTakeEffect`,
  `RequestsMeetAWholeRegistry`, `DefaultStays`, for any files whose lists are lists and
  any number of loads. Routes and default change with a load that succeeds and with
  nothing else (`TakenEffectStays`); providers and clients change with a load that
  fails, too, which is why a registry is `Whole` only while the application serves.
  `RouteOfKnown` is about the loop in `load()` that looks up a route's clients. It is
  defined by recursion on the route; the lemma gives the function that the recursion
  defines for a route all of whose providers are known, and `UpTo`, induction
  over a set of numbers, shows that there is no other.
- **`ProviderProofs`**, the load balancer: `BalancerTypeCorrect`, `Shares`,
  `FilterHasCause`, for any clients, weights, shuffles and timeouts. `ExactShares`
  is not inductive: it says nothing of the next pick. `LastRound` does: the
  history ends with the pool, turned so that it begins where the cycle stands. So each
  pick completes a window that is a turned pool, and a turned pool holds everyone as often
  as the pool does (`RoundOccurrences`, by a bijection of positions), which is as often
  as the list and the weights say (`ShuffledShares`, by a bijection of the pool's entries
  with pairs of a place in the list and a copy). `OpenSinceFailure` carries `FilterHasCause`: an
  open circuit's `lastFailure` is the time its client last failed.
- **`ProviderProofs`**, the health checker: `HealthTypeCorrect`, `ReportsComplete`,
  `NoRegression`, for any number of providers and requests. The invariant is that
  whoever has been overtaken is a warm-up pass. Requests' passes always are, because
  a request that finds a report runs none (`RequestsWarmUp`). The loop's is overtaken
  only by a request's pass that began after it, hence, `warmup` being closed under
  "began before" (`WarmUpFirst`), only if it is one itself.

The invariants of `RateLimiterProofs`, `PipelineProofs`, `ApplicationProofs` and
`ProviderProofs`, and the gateway's, were first checked by TLC in the runs of their
components, on all of the reachable states.

Only model-checked:

- liveness (`ExecutionsSettle`, `Converges`, `ReportMatchesRegistry`, `StreamsEnd`), which
  this prover does not handle under fairness;
- `ContentIntact` of `Gateway`. It compares what `SelectSeq` and `FlattenSeq` make of
  the events with what they make of a body, and holds because of how the bodies are
  built (a completion's pieces stand in `data` lines). A proof needs a grammar of bodies
  and induction over both, and the definitions of the two are not open to the prover.

No module uses a recursive operator.

## 7. Where code and documentation differ

Two runs end in a violation, each of a sentence of the repository's documentation:

- `requests_never_trip`: a request is sent "through the circuit breaker"
  (`provider/nvidia_nim.py:65`), but the breaker books a success for the coroutine
  object and never hears of the failure. However many requests fail, the circuit
  stays closed.
- `routed_models`: requests are routed "based on the requested model name"
  (`api/v1/chat.py:121`), but a model that has a route is answered 502 and nothing is
  sent: `get_route` returns a `LoadBalancer`, and `router.py:51` reads its
  `providers`.

Eleven more are stated in the modules and are no part of a run. Each is refuted by TLC
when it takes the place of the properties in the configuration given:

| Definition | Configuration | Sentence it states | What happens |
|---|---|---|---|
| `NIMClient!ClosesOnSuccessOnly` | `NIMClient.cfg` | "HALF_OPEN → CLOSED (probe succeeded)", `circuit_breaker.py:87` | a request closes the circuit by being sent |
| `NIMClient!HalfOpenQuota` | `NIMClient.cfg` | `circuit_breaker_half_open_max_calls: 3`, `config/gateway.yaml:26` | any number of streams pass a half-open circuit |
| `FallbackChain!RejectedStreamsFallBack` | `FallbackChain.cfg` | "On failure (network error, 5xx, circuit open) the chain moves to the next available provider", `fallback.py:16` | a stream leaves the loop before it has started; one that an open circuit rejects ends in an error with the rest of the chain untried |
| `Gateway!MockModeSendsNothing` | `Gateway.cfg` | "without calling upstream NVIDIA NIM", `config.py:113` | `/v1/completions` does not ask for the mode and goes upstream |
| `Gateway!BreakersArePerProvider` | `Gateway.cfg` with three requests, `Models = {"primary"}`, the file with a provider and no route, `MockModes = {FALSE}`, `Bodies = {<<>>}` | "Per-provider circuit breaker.", `circuit_breaker.py:22` | each request has a breaker of its own, and none ever opens |
| `Gateway!EventsForwarded` | `Gateway.cfg` | "Stream chat completions as SSE events.", `chat.py:171` | an event that arrives in two pieces becomes two, and the field name is sent twice |
| `Gateway!MockStreamsRead` | `Gateway.cfg` | "SSE mock stream.", `chat.py:45` | bare JSON is no event, and a client reads none |
| `Pipeline!PublicPathsOpen` | `Pipeline.cfg` | "Paths that do NOT require authentication", among them `/`, `auth.py:13` | `rstrip("/")` leaves the empty string, and `GET /` without a key is answered 401 |
| `Pipeline!AnswersCached` | `Pipeline.cfg` | "Cache non-streaming POST responses for configured TTL", `caching.py:83` | what `call_next` returns has no `body`, and nothing is ever stored |
| `Application!UnknownProvidersLeftOut` | `Application.cfg` | an "unknown" provider is left out of a route, `model_registry.py:55` | after a second load, clients of an earlier file serve |
| `Application!HealthChecked` | `Application.cfg` | "Start the background health-check loop.", `health_check.py:45` | the task of an application that was interrupted is dead but not `None`, so `start()` does nothing |

Smaller ones that were met while modelling, visible in the models but the subject of
no property:

- `/health` says "healthy" or "degraded"; `tests/e2e/test_health.py:13` expects "ok".
- With a limit of 0, `check()` reads the head of an empty deque: `IndexError`
  (`core/rate_limit.py:43`; action `CheckCrashes`).
- `config/models.yaml` and the example in the repository's README leave out fields
  that the schema requires (`core/config.py:34`), so `load()` raises at startup
  (`Shipped` in `MCApplication`).
- Failure detection is "per-provider" (README.md:21 and CHANGELOG.md:20 of the
  repository). In a chain only the first provider's
  circuit ever moves by a failure, because failed requests book none (as in
  `requests_never_trip`) and streams do not fall back; and the gateway builds a breaker
  per request (`BreakersArePerProvider` above).
- `max_retries` (`core/config.py:27`; 2 and 1 in `config/models.yaml:16` and `:26`) is
  read by nothing: what has failed once is not sent again.
- In mock mode a reranking passage whose text is no string is answered 500
  (`api/v1/embeddings.py:64`; `MockRaises`).
- `Settings.reload()` is called by nothing in the repository.
- The cache takes its limits from the settings once, at import; `reload()` does not
  reach them (`middleware/caching.py:61`).
- Logging is "first to capture everything" in `main.py:86` and runs innermost of the
  four (`Layers` in `Pipeline`).
- `/metrics/`, `/health/` and the like pass authentication without a key, as the paths
  without the slash do, and are then redirected to these (`middleware/auth.py:35`;
  `Stripped`, `RouteReplies`).
- A JSON body that is no object makes the caching layer raise: a 500 that is neither
  counted nor logged (`CachingRaises`, and the exception in `CountedAsAnswered`).
- Providers marked `enabled: false` are loaded and used like the others.

## 8. Not modelled

- What the OpenTelemetry SDK and the Prometheus client do once they are called, and
  their failures: calls into libraries without state of the gateway's own.
- Container files, the Makefile and the CI workflow.
- Schemas of requests and responses, headers, URLs and log lines: data that no
  property tells apart. Nor are environment variables, which are read once, at import.
- Cuts of an upstream's stream within a character, and its ends of line other than a
  single line feed.
- The command line of `main.py`.
- `NIMClient.close()` and `create_client()`, which nothing calls, and the reclamation
  of the connection pools of clients that are never closed, which is left to the
  interpreter.
