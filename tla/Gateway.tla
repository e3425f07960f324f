------------------------------ MODULE Gateway ------------------------------
(***************************************************************************)
(* The endpoints (api/v1/chat.py, completions.py, embeddings.py) with the  *)
(* router (gateway/router.py) behind them: what a request is answered,     *)
(* from which registry entry, after which upstream call.                   *)
(*                                                                         *)
(* A routed model fails inside the router: the registry hands it a load    *)
(* balancer, and it asks that for `providers`, which a load balancer does  *)
(* not have (router.py:51).  Every other request gets a client built for   *)
(* it alone, with a circuit breaker of its own, in a chain of one.         *)
(*                                                                         *)
(* A streaming reply is a generator that runs after the handler has        *)
(* returned: the router is asked when its body is first read, and each     *)
(* write is one step, for the generator is suspended while it is sent.     *)
(* The upstream's body is itself an event stream, which arrives in pieces  *)
(* cut anywhere; the gateway frames each piece once more.                  *)
(* All happens within the waiting time of one circuit breaker.             *)
(*                                                                         *)
(* It is proved about together with the client, hence the names that begin *)
(* with Gateway.                                                           *)
(***************************************************************************)
EXTENDS Breaker, Registry, Sse, FiniteSets

CONSTANTS
    Requests,   \* requests that clients may send
    Models,     \* model names that they may ask for
    Files,      \* models files the gateway may have been started with
    MockModes,  \* values of NIM_GW_MOCK_MODE to consider
    Bodies,     \* bodies that an upstream may stream, as sequences of tokens
    Content,    \* the tokens of theirs that are pieces of a completion
    MaxMocked   \* bound on the chunks of a mock stream

\* What an upstream streams; "error" and "mock" are the gateway's own.
UpstreamToken == ToSet(Field) \union {"\n", "[DONE]"} \union Content

Token == UpstreamToken \union {"error", "mock"}

\* A provider's name is also a name that a client may ask for.
ASSUME GatewayAssumption ==
    /\ IsFiniteSet(Requests)
    /\ \A f \in Files : Valid(f) /\ f.providers \in Seq(Models)
    /\ MockModes \subseteq BOOLEAN
    /\ Content \intersect (ToSet(Field) \union {"\n", "[DONE]", "error", "mock"}) = {}
    /\ \A body \in Bodies : body \in Seq(UpstreamToken)
    /\ MaxMocked \in Nat
    /\ RecoveryTimeout > 0

VARIABLES
    registry,   \* model_registry, loaded once at startup
    mockMode,   \* settings.mock_mode
    req,        \* req[r]: where request r stands, see ReqRecord
    broken      \* history: broken[p] streams of provider p in a row have failed

gatewayVars == <<registry, mockMode, req, broken>>

Endpoints == {"chat/completions", "completions", "embeddings", "reranking"}

\* Only these have a `stream` field, and /v1/completions never asks whether
\* mocks are to be given.
Streamable == {"chat/completions", "completions"}
Mockable == Endpoints \ {"completions"}

(***************************************************************************)
(* `status` is that of the reply, 0 while there is none; `reader` what the *)
(* reader of a stream has made of it; `body` what the upstream streams and *)
(* `arrived` how much of it has come; `provider` and `breaker` belong to   *)
(* the client object built for the request; `calls` counts what was sent   *)
(* upstream.                                                               *)
(***************************************************************************)
Phase == {"new", "awaiting", "accepted", "streaming", "closing", "mocking",
          "answered", "abandoned"}

ReqRecord ==
    [phase    : Phase,
     endpoint : Endpoints,
     model    : Models,
     status   : {0, 200, 404, 500, 502},
     reader   : [line : Seq(Token), data : Seq(Seq(Token)), events : Seq(Seq(Seq(Token)))],
     body     : Bodies \union {<< >>},
     arrived  : Nat,
     provider : Models \union {"none"},
     breaker  : BreakerRecord,
     calls    : Nat]

GatewayTypeOK ==
    /\ registry \in {Loaded(EmptyRegistry, f, 1) : f \in Files}
    /\ mockMode \in MockModes
    /\ req \in [Requests -> ReqRecord]
    /\ \A r \in Requests : req[r].arrived <= Len(req[r].body)
    /\ broken \in [Models -> Nat]

GatewayInit ==
    /\ registry \in {Loaded(EmptyRegistry, f, 1) : f \in Files}
    /\ mockMode \in MockModes
    /\ req \in [Requests -> {[phase |-> "new", endpoint |-> e, model |-> m, status |-> 0,
                              reader |-> NewParser, body |-> << >>, arrived |-> 0,
                              provider |-> "none", breaker |-> NewBreaker, calls |-> 0] :
                             e \in Endpoints, m \in Models}]
    /\ broken = [p \in Models |-> 0]

-----------------------------------------------------------------------------

Mocked(r) == mockMode /\ req[r].endpoint \in Mockable

Resolved(r) == Resolution(registry, req[r].model)

\* The fresh client of a direct resolution sends the request.
Sends(record, phase) ==
    [record EXCEPT !.phase = phase,
                   !.provider = DirectProvider(registry, record.model),
                   !.breaker = Observe(NewBreaker, 0),
                   !.calls = @ + 1]

Answer(r, status) ==
    req' = [req EXCEPT ![r] = [req[r] EXCEPT !.phase = "answered", !.status = status]]

Writes(r, tokens, phase) ==
    req' = [req EXCEPT ![r] =
             [req[r] EXCEPT !.phase = phase, !.reader = Parse(@, tokens)]]

-----------------------------------------------------------------------------
(* Non-streaming requests.                                                 *)

MockAnswered(r) ==
    /\ req[r].phase = "new" /\ Mocked(r)
    /\ Answer(r, 200)
    /\ UNCHANGED <<registry, mockMode, broken>>

\* A passage may be any dictionary; one whose `text` is no string has no
\* lower(), and the mock is outside of the `try`: AttributeError, which only the
\* application's handler catches.
MockRaises(r) ==
    /\ req[r].phase = "new" /\ Mocked(r) /\ req[r].endpoint = "reranking"
    /\ Answer(r, 500)
    /\ UNCHANGED <<registry, mockMode, broken>>

\* Mutant: nobody catches ModelNotFoundError but the application's handler.
RefusedUncaught(r) ==
    /\ req[r].phase = "new" /\ ~ Mocked(r) /\ Resolved(r) = "unknown"
    /\ Answer(r, 500)
    /\ UNCHANGED <<registry, mockMode, broken>>

\* ModelNotFoundError.
Refused(r) ==
    /\ req[r].phase = "new" /\ ~ Mocked(r) /\ Resolved(r) = "unknown"
    /\ Answer(r, 404)
    /\ UNCHANGED <<registry, mockMode, broken>>

\* AttributeError, caught as any other Exception.
RouteFails(r) ==
    /\ req[r].phase = "new" /\ ~ Mocked(r) /\ Resolved(r) = "routed"
    /\ Answer(r, 502)
    /\ UNCHANGED <<registry, mockMode, broken>>

\* The fresh breaker lets the call through.
Forwarded(r) ==
    /\ req[r].phase = "new" /\ ~ Mocked(r) /\ Resolved(r) = "direct"
    /\ Admits(Observe(NewBreaker, 0))
    /\ req' = [req EXCEPT ![r] = Sends(@, "awaiting")]
    /\ UNCHANGED <<registry, mockMode, broken>>

UpstreamAnswers(r) ==
    /\ req[r].phase = "awaiting"
    /\ Answer(r, 200)
    /\ UNCHANGED <<registry, mockMode, broken>>

\* Mutant: the upstream's status is passed on, a 429 for one.
UpstreamFailsVerbatim(r) ==
    /\ req[r].phase = "awaiting"
    /\ Answer(r, 429)
    /\ UNCHANGED <<registry, mockMode, broken>>

\* FallbackExhausted: any status of 400 and above, network error or timeout.
UpstreamFails(r) ==
    /\ req[r].phase = "awaiting"
    /\ Answer(r, 502)
    /\ UNCHANGED <<registry, mockMode, broken>>

-----------------------------------------------------------------------------
(* Streaming requests.                                                     *)

\* The handler returns before anything about the model is known.
StreamAccepted(r) ==
    /\ req[r].phase = "new" /\ req[r].endpoint \in Streamable
    /\ LET phase == IF Mocked(r) THEN "mocking" ELSE "accepted"
       IN  req' = [req EXCEPT ![r] = [req[r] EXCEPT !.phase = phase, !.status = 200]]
    /\ UNCHANGED <<registry, mockMode, broken>>

\* Mutant: the router is asked in front of the `try`.
BodyFailsUncaught(r) ==
    /\ req[r].phase = "accepted" /\ Resolved(r) # "direct"
    /\ req' = [req EXCEPT ![r].phase = "answered"]
    /\ UNCHANGED <<registry, mockMode, broken>>

\* What the router raises becomes an error event.
BodyFails(r) ==
    /\ req[r].phase = "accepted" /\ Resolved(r) # "direct"
    /\ Writes(r, Framed(<<"error">>), "closing")
    /\ UNCHANGED <<registry, mockMode, broken>>

BodyStarts(r) ==
    /\ req[r].phase = "accepted" /\ Resolved(r) = "direct"
    /\ Observe(NewBreaker, 0).state # "open"
    /\ \E body \in Bodies :
         req' = [req EXCEPT ![r] = [Sends(@, "streaming") EXCEPT !.body = body]]
    /\ UNCHANGED <<registry, mockMode, broken>>

\* Mutant: only a piece that begins a line is given a field name.
ChunkArrivesUnframed(r) ==
    /\ req[r].phase = "streaming"
    /\ \E n \in req[r].arrived + 1 .. Len(req[r].body) :
         LET chunk == SubSeq(req[r].body, req[r].arrived + 1, n) IN
         req' = [req EXCEPT ![r] =
                  [req[r] EXCEPT
                     !.arrived = n,
                     !.reader = Parse(@, (IF Head(chunk) \in Content THEN << >> ELSE Field)
                                           \o chunk \o <<"\n", "\n">>)]]
    /\ UNCHANGED <<registry, mockMode, broken>>

\* Whatever has come of the upstream's body makes one event.
ChunkArrives(r) ==
    /\ req[r].phase = "streaming"
    /\ \E n \in req[r].arrived + 1 .. Len(req[r].body) :
         LET chunk == SubSeq(req[r].body, req[r].arrived + 1, n) IN
         req' = [req EXCEPT ![r] =
                  [req[r] EXCEPT !.arrived = n, !.reader = Parse(@, Framed(chunk))]]
    /\ UNCHANGED <<registry, mockMode, broken>>

\* The upstream's stream is over; nothing is sent in this step.
UpstreamEnds(r) ==
    /\ req[r].phase = "streaming" /\ req[r].arrived = Len(req[r].body)
    /\ req' = [req EXCEPT ![r] =
                [req[r] EXCEPT !.phase = "closing", !.breaker = RecordSuccess(@)]]
    /\ broken' = [broken EXCEPT ![req[r].provider] = 0]
    /\ UNCHANGED <<registry, mockMode>>

\* Mutant: the error is sent and the loop goes on.
UpstreamBreaksContinuing(r) ==
    /\ req[r].phase = "streaming" /\ req[r].arrived < Len(req[r].body)
    /\ req' = [req EXCEPT ![r] =
                [req[r] EXCEPT !.arrived = @ + 1, !.reader = Parse(@, Framed(<<"error">>))]]
    /\ broken' = [broken EXCEPT ![req[r].provider] = @ + 1]
    /\ UNCHANGED <<registry, mockMode>>

\* An error status, or the connection fails or times out between chunks.
UpstreamBreaks(r) ==
    /\ req[r].phase = "streaming"
    /\ req' = [req EXCEPT ![r] =
                [req[r] EXCEPT !.phase = "closing",
                               !.reader = Parse(@, Framed(<<"error">>)),
                               !.breaker = RecordFailure(@, 0)]]
    /\ broken' = [broken EXCEPT ![req[r].provider] = @ + 1]
    /\ UNCHANGED <<registry, mockMode>>

\* `finally`.
BodyCloses(r) ==
    /\ req[r].phase = "closing"
    /\ Writes(r, Framed(<<"[DONE]">>), "answered")
    /\ UNCHANGED <<registry, mockMode, broken>>

\* The client is gone wherever the generator is suspended: what its `finally`
\* still yields reaches nobody, and the breaker hears of nothing.
ClientLeaves(r) ==
    /\ req[r].phase \in {"accepted", "streaming", "closing", "mocking"}
    /\ req' = [req EXCEPT ![r].phase = "abandoned"]
    /\ UNCHANGED <<registry, mockMode, broken>>

\* The mock yields bare JSON, without the framing of an event.
MockChunk(r) ==
    /\ req[r].phase = "mocking" /\ Len(req[r].reader.line) < MaxMocked
    /\ Writes(r, <<"mock">>, "mocking")
    /\ UNCHANGED <<registry, mockMode, broken>>

MockEnds(r) ==
    /\ req[r].phase = "mocking" /\ req[r].reader.line # << >>
    /\ Writes(r, <<"mock">>, "answered")
    /\ UNCHANGED <<registry, mockMode, broken>>

-----------------------------------------------------------------------------

GatewayNext ==
    \E r \in Requests :
        \/ MockAnswered(r) \/ MockRaises(r) \/ Refused(r) \/ RouteFails(r) \/ Forwarded(r)
        \/ UpstreamAnswers(r) \/ UpstreamFails(r)
        \/ StreamAccepted(r) \/ BodyFails(r) \/ BodyStarts(r)
        \/ ChunkArrives(r) \/ UpstreamEnds(r) \/ UpstreamBreaks(r)
        \/ BodyCloses(r) \/ ClientLeaves(r) \/ MockChunk(r) \/ MockEnds(r)

GatewaySpec == GatewayInit /\ [][GatewayNext]_gatewayVars

(***************************************************************************)
(* The server reads every body it has started to send, or finds that the   *)
(* client has left.  An upstream goes on streaming: httpx's read timeout   *)
(* bounds each silence, and bodies are finite.                             *)
(***************************************************************************)
GatewayFairness ==
    \A r \in Requests :
        /\ WF_gatewayVars(BodyFails(r)) /\ WF_gatewayVars(BodyStarts(r)) /\ WF_gatewayVars(BodyCloses(r))
        /\ WF_gatewayVars(ChunkArrives(r) \/ UpstreamEnds(r) \/ UpstreamBreaks(r))

GatewayFairSpec == GatewaySpec /\ GatewayFairness

-----------------------------------------------------------------------------
(* Properties.                                                             *)

Streamed(r) == req[r].phase \in {"accepted", "streaming", "closing", "mocking", "abandoned"}
               \/ req[r].reader # NewParser

\* The gateway's own events, as their reader gets them.
ErrorEvent == <<<<"error">>>>
DoneEvent == <<<<"[DONE]">>>>

\* However the upstream's body is cut, wherever it breaks off, and whether or
\* not the router finds a client, the reader of a stream gets the gateway's own
\* events as events by themselves: at most one error, with nothing after it but
\* [DONE], and [DONE] as the last event of every stream that the reader has not
\* left.  No write leaves an event open for the next one to run into.
StreamsWellFormed ==
    \A r \in Requests : ~ Mocked(r) =>
        LET reader == req[r].reader
            ev == reader.events
        IN  /\ reader.line = << >> /\ reader.data = << >>
            /\ \A i \in 1 .. Len(ev) : ev[i] = ErrorEvent =>
                 SubSeq(ev, i + 1, Len(ev)) \in {<< >>, <<DoneEvent>>}
            /\ req[r].phase = "answered" /\ Streamed(r) => Last(ev) = DoneEvent

\* Each event is framed once by the upstream and once by the gateway, and pieces
\* may begin or end within a field name; still the reader gets the content of
\* the completion, as far as it has come, in its order and without a gap.
ContentIntact ==
    \A r \in Requests :
        LET OfContent(tokens) == SelectSeq(tokens, LAMBDA t : t \in Content)
        IN  OfContent(FlattenSeq(FlattenSeq(req[r].reader.events)))
              = OfContent(SubSeq(req[r].body, 1, req[r].arrived))

\* Every status is explained by what the gateway knew and did: 404 only without
\* any provider, for a model that GET /v1/models does not list, and with nothing
\* sent; 502 only for a routed model or after something was sent; 500 only from
\* the mock of the reranking endpoint; and a non-streaming 200 only from a mock
\* or after something was sent.  What is sent, once or again, goes to the
\* provider of the model's name or else to the default, never from a mock.
RepliesExplained ==
    \A r \in Requests :
        /\ req[r].calls > 0 =>
             ~ Mocked(r) /\ req[r].provider = DirectProvider(registry, req[r].model)
        /\ req[r].status = 404 =>
             registry.providers = << >> /\ req[r].model \notin Listed(registry) /\ req[r].calls = 0
        /\ req[r].status = 502 => Resolved(r) = "routed" \/ req[r].calls > 0
        /\ req[r].status = 500 => Mocked(r) /\ req[r].endpoint = "reranking"
        /\ req[r].status = 200 /\ ~ Streamed(r) => Mocked(r) \/ req[r].calls > 0

\* A stream that was accepted reaches its last event unless its client leaves;
\* clients of the API wait for [DONE].
StreamsEnd ==
    \A r \in Requests :
        req[r].phase = "accepted" ~>
            \/ req[r].phase = "abandoned"
            \/ req[r].reader.events # << >> /\ Last(req[r].reader.events) = DoneEvent

-----------------------------------------------------------------------------
(* What the documentation says and the code does not do.                   *)

\* "Routes to the appropriate NVIDIA NIM provider based on the requested model
\* name" (chat.py:121): a routed model is never refused without a call.
RoutedModelsServed ==
    \A r \in Requests : req[r].status = 502 => req[r].calls > 0

\* "return canned responses without calling upstream NVIDIA NIM"
\* (config.py:113): in mock mode nothing is sent upstream.
MockModeSendsNothing ==
    \A r \in Requests : mockMode => req[r].calls = 0

\* "Per-provider circuit breaker." (circuit_breaker.py:22): no stream is opened
\* to a provider whose last FailureThreshold streams have failed.
BreakersArePerProvider ==
    [][\A r \in Requests :
         req[r].phase = "accepted" /\ req'[r].phase = "streaming" =>
            broken[req'[r].provider] < FailureThreshold]_gatewayVars

\* "Stream chat completions as SSE events." (chat.py:171): what the reader gets
\* are the upstream's events, no more and no others.
EventsForwarded ==
    \A r \in Requests :
        LET sent == Parse(NewParser, SubSeq(req[r].body, 1, req[r].arrived)).events
        IN  req[r].phase = "streaming" => req[r].reader.events = sent

\* "SSE mock stream." (chat.py:45): who reads a mock stream gets events.
MockStreamsRead ==
    \A r \in Requests :
        Mocked(r) /\ Streamed(r) /\ req[r].phase = "answered" => req[r].reader.events # << >>

=============================================================================
