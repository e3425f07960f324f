----------------------------- MODULE NIMClient -----------------------------
(***************************************************************************)
(* One NIMClient (provider/nvidia_nim.py) with its circuit breaker and any *)
(* number of concurrent operations on it.  Between two awaits the event    *)
(* loop runs one coroutine only, so an operation is two steps: its start,  *)
(* which consults the breaker, and its outcome, which arrives after other  *)
(* operations have moved the breaker.                                      *)
(*                                                                         *)
(* request() hands the coroutine function _do_request to call(), which     *)
(* calls it without awaiting: the coroutine object it gets back counts as  *)
(* a success before anything is sent, and the real outcome, raised at the  *)
(* `await`, is outside the breaker.  stream() checks the state itself and  *)
(* records the real outcome.                                               *)
(***************************************************************************)
EXTENDS CircuitBreaker, FiniteSets

CONSTANT
    Tasks       \* operations that clients may start on this provider

\* Each operation fails once at most, so the bound on failures cuts nothing off.
ASSUME NIMClientAssumption == IsFiniteSet(Tasks) /\ Cardinality(Tasks) <= MaxFailures

VARIABLES
    task,       \* where each operation stands
    quietUntil  \* history: end of the waiting time that the latest failure to
                \* leave the circuit open called for; 0 before the first one

vars == <<breakerVars, task, quietUntil>>

\* A stream let through by a half-open circuit is a probe; the code does not
\* tell the two apart.
Streaming == {"streaming", "probing"}
Running  == {"requesting"} \union Streaming
Finished == {"rejected", "request_ok", "request_failed",
             "stream_ok", "stream_failed", "stream_abandoned"}
TaskState == {"idle"} \union Running \union Finished

TypeOK ==
    /\ BreakerTypeOK
    /\ task \in [Tasks -> TaskState]
    /\ quietUntil \in Nat

Init ==
    /\ BreakerInit
    /\ task = [t \in Tasks |-> "idle"]
    /\ quietUntil = 0

Moves(t, from, to) ==
    /\ task[t] \in from
    /\ task' = [task EXCEPT ![t] = to]

-----------------------------------------------------------------------------
(* Mutants.                                                                *)

\* The state check in front of the stream is lost.
StreamStartsUnchecked(t) ==
    /\ Moves(t, {"idle"}, IF Seen.state = "half_open" THEN "probing" ELSE "streaming")
    /\ cb' = Seen
    /\ UNCHANGED <<now, quietUntil>>

\* A stream that ends well resets the breaker instead of reporting to it.
StreamEndsResetting(t) ==
    /\ Moves(t, Streaming, "stream_ok")
    /\ cb' = ResetBreaker(cb)
    /\ UNCHANGED <<now, quietUntil>>

\* `except BaseException`: an abandoned stream counts as a failure.
StreamAbandonedCounting(t) ==
    /\ Moves(t, Streaming, "stream_abandoned")
    /\ cb' = RecordFailure(cb, now)
    /\ UNCHANGED <<now, quietUntil>>

-----------------------------------------------------------------------------

\* NIMClient.request up to the first suspension inside _do_request.
RequestStarts(t) ==
    /\ Admits(Seen)
    /\ Moves(t, {"idle"}, "requesting")
    /\ cb' = RecordSuccess(Seen)
    /\ UNCHANGED <<now, quietUntil>>

RequestRejected(t) ==
    /\ ~ Admits(Seen)
    /\ Moves(t, {"idle"}, "rejected")
    /\ cb' = Seen
    /\ UNCHANGED <<now, quietUntil>>

\* The response arrives, or httpx raises (status, network, timeout).
RequestEnds(t) ==
    /\ \/ Moves(t, {"requesting"}, "request_ok")
       \/ Moves(t, {"requesting"}, "request_failed")
    /\ UNCHANGED <<cb, now, quietUntil>>

\* NIMClient.stream up to its first suspension: only an open circuit rejects,
\* the half-open quota is not looked at.
StreamStarts(t) ==
    /\ Seen.state # "open"
    /\ Moves(t, {"idle"}, IF Seen.state = "half_open" THEN "probing" ELSE "streaming")
    /\ cb' = Seen
    /\ UNCHANGED <<now, quietUntil>>

StreamRejected(t) ==
    /\ Seen.state = "open"
    /\ Moves(t, {"idle"}, "rejected")
    /\ cb' = Seen
    /\ UNCHANGED <<now, quietUntil>>

StreamEnds(t) ==
    /\ Moves(t, Streaming, "stream_ok")
    /\ cb' = RecordSuccess(cb)
    /\ UNCHANGED <<now, quietUntil>>

StreamFails(t) ==
    /\ Moves(t, Streaming, "stream_failed")
    /\ cb' = RecordFailure(cb, now)
    /\ quietUntil' = IF cb'.state = "open" THEN now + RecoveryTimeout ELSE quietUntil
    /\ UNCHANGED now

\* The consumer goes away: GeneratorExit and CancelledError are no Exception,
\* so neither _record method runs.
StreamAbandoned(t) ==
    /\ Moves(t, Streaming, "stream_abandoned")
    /\ UNCHANGED <<cb, now, quietUntil>>

\* Somebody reads the state (LoadBalancer.available_clients, __repr__).
StateRead ==
    /\ cb' = Seen
    /\ UNCHANGED <<now, task, quietUntil>>

Tick ==
    /\ TimePasses
    /\ UNCHANGED <<task, quietUntil>>

Next ==
    \/ \E t \in Tasks :
        \/ RequestStarts(t) \/ RequestRejected(t) \/ RequestEnds(t)
        \/ StreamStarts(t) \/ StreamRejected(t) \/ StreamEnds(t)
        \/ StreamFails(t) \/ StreamAbandoned(t)
    \/ StateRead
    \/ Tick

Spec == Init /\ [][Next]_vars

-----------------------------------------------------------------------------
(* Properties.                                                             *)

Admitted(t) == task[t] = "idle" /\ task'[t] \in Running

FailedStreams == {t \in Tasks : task[t] = "stream_failed"}

\* The breaker counts no failure that did not happen: the count never exceeds
\* the number of streams that really failed.  Rejections, abandoned streams
\* and every non-streaming outcome leave it alone, so a circuit that is not
\* closed has seen at least FailureThreshold broken streams
\* (NIMClient.stream's except clause is the only caller of _record_failure
\* that can see an upstream error).
NoPhantomFailures ==
    /\ cb.failures <= Cardinality(FailedStreams)
    /\ cb.state # "closed" => Cardinality(FailedStreams) >= FailureThreshold

\* Once a failure has left the circuit open, no operation of either kind is
\* let through for RecoveryTimeout, whatever late successes and further late
\* failures of operations admitted earlier do meanwhile.
FailFast ==
    [][\A t \in Tasks : Admitted(t) => now >= quietUntil]_vars

\* One failed stream reopens a half-open circuit for every threshold (the
\* unit test tries a threshold of one): the count must have survived the move
\* to half open.
HalfOpenFailureReopens ==
    [][\A t \in Tasks :
         cb.state = "half_open" /\ task[t] \in Streaming /\ task'[t] = "stream_failed"
            => cb'.state = "open"]_vars

\* Concurrent operations use the breaker only in ways the class provides for:
\* every step is one call(), read, or late outcome of one CircuitBreaker.
UsesBreaker == BreakerSpec

-----------------------------------------------------------------------------
(* What the documentation says and the code does not do.                   *)

\* "Execute *func* through the circuit breaker" (circuit_breaker.py:52), used
\* by "Send a non-streaming request through the circuit breaker"
\* (nvidia_nim.py:65): when every operation so far was a request that failed,
\* and there were FailureThreshold of them, the circuit is not closed.
FailedRequestsTrip ==
    LET ended == {t \in Tasks : task[t] # "idle"} IN
        /\ \A t \in ended : task[t] = "request_failed"
        /\ Cardinality(ended) >= FailureThreshold
        => cb.state # "closed"

\* "HALF_OPEN -> CLOSED (probe succeeded)" (circuit_breaker.py:87): the
\* circuit closes only in a step in which an operation succeeds.
ClosesOnSuccessOnly ==
    [][cb.state # "closed" /\ cb'.state = "closed" =>
         \E t \in Tasks :
            task'[t] # task[t] /\ task'[t] \in {"request_ok", "stream_ok"}]_vars

\* circuit_breaker_half_open_max_calls: 3 (config/gateway.yaml:26): a half-open
\* circuit lets at most that many calls through at a time.
HalfOpenQuota ==
    cb.state = "half_open" =>
        Cardinality({t \in Tasks : task[t] = "probing"}) <= HalfOpenMaxCalls

=============================================================================
