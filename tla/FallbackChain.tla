--------------------------- MODULE FallbackChain ---------------------------
(***************************************************************************)
(* FallbackChain.execute (gateway/fallback.py) run by concurrent requests  *)
(* over one list of clients, each with its own circuit breaker.            *)
(*                                                                         *)
(* A rejected attempt raises before anything is awaited, so the loop skips *)
(* to the first provider that lets the call through within one step; the   *)
(* request then waits there.  A streaming execution leaves the loop on its *)
(* first iteration with an unstarted generator: the only provider it ever  *)
(* touches is the first, and what the generator raises passes no `except`  *)
(* of the loop.                                                            *)
(***************************************************************************)
EXTENDS Breaker, Sequences, FiniteSets

CONSTANTS
    Providers,  \* provider names
    Chain,      \* self._providers, in order of preference
    Requests,   \* executions that clients may start
    MaxTime     \* bound on the clock

\* The constructor rejects an empty list.
ASSUME ChainAssumption ==
    /\ Chain \in Seq(Providers) /\ Chain # << >>
    /\ IsFiniteSet(Requests)
    /\ MaxTime \in Nat

VARIABLES
    breaker,    \* breaker[p]: the fields of provider p's circuit breaker
    now,        \* time.monotonic(), in ticks
    req,        \* req[r]: where execution r stands, see ReqRecord
    quietUntil  \* history: quietUntil[p] is the end of the waiting time that the
                \* latest failure to leave p's circuit open called for

vars == <<breaker, now, req, quietUntil>>

(***************************************************************************)
(* `at` is the position in Chain that the execution is at; `skipped` the   *)
(* positions whose provider rejected it, `failed` those that answered it   *)
(* with an error.                                                          *)
(***************************************************************************)
Active  == {"awaiting", "streaming"}
Settled == {"ok", "exhausted", "stream_ok", "stream_error", "abandoned"}

ReqRecord ==
    [status  : {"new"} \union Active \union Settled,
     at      : 0 .. Len(Chain) + 1,
     skipped : SUBSET (1 .. Len(Chain)),
     failed  : SUBSET (1 .. Len(Chain))]

TypeOK ==
    /\ breaker \in [Providers -> BreakerRecord]
    /\ now \in Nat
    /\ req \in [Requests -> ReqRecord]
    /\ quietUntil \in [Providers -> Nat]

Init ==
    /\ breaker = [p \in Providers |-> NewBreaker]
    /\ now = 0
    /\ req = [r \in Requests |-> [status |-> "new", at |-> 0, skipped |-> {}, failed |-> {}]]
    /\ quietUntil = [p \in Providers |-> 0]

-----------------------------------------------------------------------------

Seen(p) == Observe(breaker[p], now)

\* Mutant: the choice looks at the stored state, which may say "open" long
\* after the recovery timeout.
UsableStale(from) == {k \in from .. Len(Chain) : Admits(breaker[Chain[k]])}

\* Positions from `from` on whose provider would let a call through.
Usable(from) == {k \in from .. Len(Chain) : Admits(Seen(Chain[k]))}

\* `k` is where the loop, entered at `from`, stops: the first usable position,
\* or the end of the chain.
StopsAt(k, from) ==
    IF Usable(from) = {} THEN k = Len(Chain) + 1
    ELSE k \in Usable(from) /\ \A j \in Usable(from) : k <= j

(***************************************************************************)
(* The rest of the loop from position `from`: providers that reject are    *)
(* passed over (their breakers have been observed), the first that does    *)
(* not is called, which its breaker books as a success at once.            *)
(***************************************************************************)
Continue(r, from, failed) ==
    \E k \in 1 .. Len(Chain) + 1 :
        /\ StopsAt(k, from)
        /\ breaker' = [p \in Providers |->
             IF k <= Len(Chain) /\ p = Chain[k] THEN RecordSuccess(Seen(p))
             ELSE IF \E j \in from .. k - 1 : p = Chain[j] THEN Seen(p)
             ELSE breaker[p]]
        /\ req' = [req EXCEPT ![r] =
             [status  |-> IF k > Len(Chain) THEN "exhausted" ELSE "awaiting",
              at      |-> k,
              skipped |-> @.skipped \union (from .. k - 1),
              failed  |-> failed]]

ExecuteStarts(r) ==
    /\ req[r].status = "new"
    /\ Continue(r, 1, {})
    /\ UNCHANGED <<now, quietUntil>>

UpstreamAnswers(r) ==
    /\ req[r].status = "awaiting"
    /\ req' = [req EXCEPT ![r].status = "ok"]
    /\ UNCHANGED <<breaker, now, quietUntil>>

\* Mutant: the loop wraps around, as one over itertools.cycle would.
UpstreamFailsWrapping(r) ==
    /\ req[r].status = "awaiting"
    /\ Continue(r, (req[r].at % Len(Chain)) + 1, req[r].failed \union {req[r].at})
    /\ UNCHANGED <<now, quietUntil>>

\* Mutant: the loop resumes one provider too far.
UpstreamFailsSkipping(r) ==
    /\ req[r].status = "awaiting"
    /\ Continue(r, IF req[r].at < Len(Chain) THEN req[r].at + 2 ELSE Len(Chain) + 1,
                req[r].failed \union {req[r].at})
    /\ UNCHANGED <<now, quietUntil>>

\* `except Exception`: a status of 400 and above, a network error or a
\* timeout.  The loop goes on in the same step.
UpstreamFails(r) ==
    /\ req[r].status = "awaiting"
    /\ Continue(r, req[r].at + 1, req[r].failed \union {req[r].at})
    /\ UNCHANGED <<now, quietUntil>>

-----------------------------------------------------------------------------
(* Streaming executions.                                                   *)

Preferred == Chain[1]

EndStream(r, status, b) ==
    /\ req[r].status = "streaming"
    /\ req' = [req EXCEPT ![r].status = status]
    /\ breaker' = [breaker EXCEPT ![Preferred] = b]

\* Nothing suspends between execute(stream=True) and the state check at the
\* top of NIMClient.stream, so the two are one step.
StreamStarts(r) ==
    /\ req[r].status = "new"
    /\ Seen(Preferred).state # "open"
    /\ breaker' = [breaker EXCEPT ![Preferred] = Seen(Preferred)]
    /\ req' = [req EXCEPT ![r].status = "streaming", ![r].at = 1]
    /\ UNCHANGED <<now, quietUntil>>

StreamRejected(r) ==
    /\ req[r].status = "new"
    /\ Seen(Preferred).state = "open"
    /\ breaker' = [breaker EXCEPT ![Preferred] = Seen(Preferred)]
    /\ req' = [req EXCEPT ![r].status = "stream_error", ![r].at = 1, ![r].skipped = {1}]
    /\ UNCHANGED <<now, quietUntil>>

StreamEnds(r) ==
    /\ EndStream(r, "stream_ok", RecordSuccess(breaker[Preferred]))
    /\ UNCHANGED <<now, quietUntil>>

\* Mutant: the wrapper that logs the error books it too.
StreamFailsTwice(r) ==
    /\ req[r].status = "streaming"
    /\ req' = [req EXCEPT ![r].status = "stream_error", ![r].failed = {1}]
    /\ breaker' = [breaker EXCEPT ![Preferred] = RecordFailure(RecordFailure(@, now), now)]
    /\ quietUntil' = IF breaker'[Preferred].state = "open"
                     THEN [quietUntil EXCEPT ![Preferred] = now + RecoveryTimeout]
                     ELSE quietUntil
    /\ UNCHANGED now

\* _stream_with_fallback logs and re-raises.
StreamFails(r) ==
    /\ req[r].status = "streaming"
    /\ req' = [req EXCEPT ![r].status = "stream_error", ![r].failed = {1}]
    /\ breaker' = [breaker EXCEPT ![Preferred] = RecordFailure(@, now)]
    /\ quietUntil' = IF breaker'[Preferred].state = "open"
                     THEN [quietUntil EXCEPT ![Preferred] = now + RecoveryTimeout]
                     ELSE quietUntil
    /\ UNCHANGED now

StreamAbandoned(r) ==
    /\ EndStream(r, "abandoned", breaker[Preferred])
    /\ UNCHANGED <<now, quietUntil>>

Tick ==
    /\ now < MaxTime
    /\ now' = now + 1
    /\ UNCHANGED <<breaker, req, quietUntil>>

UpstreamSettles(r) == UpstreamAnswers(r) \/ UpstreamFails(r)

Next ==
    \/ \E r \in Requests :
        \/ ExecuteStarts(r) \/ StreamStarts(r) \/ StreamRejected(r)
        \/ StreamEnds(r) \/ StreamFails(r) \/ StreamAbandoned(r)
        \/ UpstreamSettles(r)
    \/ Tick

(***************************************************************************)
(* httpx gives every wait of a request a timeout (config.timeout), so a    *)
(* request that waits is eventually answered or fails.  A stream may last  *)
(* as long as chunks keep coming, and clients need not start anything.     *)
(***************************************************************************)
Fairness == \A r \in Requests : WF_vars(UpstreamSettles(r))

Spec == Init /\ [][Next]_vars

FairSpec == Spec /\ Fairness

-----------------------------------------------------------------------------
(* Properties.                                                             *)

\* "Try each provider in order until one succeeds" (fallback.py:31): wherever
\* a non-streaming execution stands, each earlier provider of the chain has
\* either rejected this very execution or failed it, not both, and no later
\* one was touched; when it gives up this covers the whole chain.
TriedInOrder ==
    \A r \in Requests :
        req[r].status \in {"awaiting", "ok", "exhausted"} =>
            /\ req[r].skipped \union req[r].failed = 1 .. req[r].at - 1
            /\ req[r].skipped \intersect req[r].failed = {}
            /\ req[r].status = "exhausted" <=> req[r].at = Len(Chain) + 1

\* No provider is passed over without a reason: one that is skipped is still
\* in the waiting time after a failure that left its circuit open, a failure
\* some other request suffered.  In particular a circuit whose waiting time
\* is over is probed even if nobody looked at it since.
SkippedForCause ==
    [][\A r \in Requests : \A k \in req'[r].skipped \ req[r].skipped :
         now < quietUntil[Chain[k]]]_vars

\* What has failed at p: pairs of an execution and the position it was at.
FailedAt(p) ==
    {f \in Requests \X (1 .. Len(Chain)) : f[2] \in req[f[1]].failed /\ Chain[f[2]] = p}

\* Failures are detected per provider: a circuit that is not closed belongs to a
\* provider at which FailureThreshold executions have failed.  However the
\* executions move along the chain between one another's awaits, none is counted
\* twice and no provider pays for another one's failures.
TripsForOwnFailures ==
    \A p \in Providers :
        breaker[p].state # "closed" => Cardinality(FailedAt(p)) >= FailureThreshold

\* Every non-streaming execution comes to an end, however its providers fail
\* and whatever other requests do to their circuits.
ExecutionsSettle ==
    \A r \in Requests :
        req[r].status = "awaiting" ~> req[r].status \in {"ok", "exhausted"}

\* "On failure (network error, 5xx, circuit open) the chain moves to the next
\* available provider" (fallback.py:16): a streaming execution that an open
\* circuit rejects has been through the rest of the chain too.
RejectedStreamsFallBack ==
    \A r \in Requests :
        req[r].status = "stream_error" /\ 1 \in req[r].skipped
            => req[r].skipped \union req[r].failed = 1 .. Len(Chain)

=============================================================================
