--------------------------- MODULE CircuitBreaker ---------------------------
(***************************************************************************)
(* One CircuitBreaker object and everything that may be done to it: a call *)
(* through call(), a read of the `state` property, the two _record methods *)
(* that NIMClient.stream invokes on its own when a stream ends, reset(),   *)
(* and the passing of time between them.                                   *)
(*                                                                         *)
(* A client has such a breaker and moves it along with state of its own,   *)
(* hence the names that begin with Breaker.                                *)
(***************************************************************************)
EXTENDS Breaker

CONSTANTS
    MaxTime,       \* bound on the clock
    MaxFailures    \* bound on the failure count

ASSUME BoundAssumption == MaxTime \in Nat /\ MaxFailures \in Nat

VARIABLES
    cb,     \* the breaker's fields
    now     \* time.monotonic(), in ticks

breakerVars == <<cb, now>>

BreakerTypeOK == cb \in BreakerRecord /\ now \in Nat

BreakerInit == cb = NewBreaker /\ now = 0

Seen == Observe(cb, now)

\* call() raises CircuitBreakerOpen.  Its read of `state` may still have
\* moved the circuit to half open.
CallRejected ==
    /\ ~ Admits(Seen)
    /\ cb' = Seen
    /\ UNCHANGED now

CallReturns ==
    /\ Admits(Seen)
    /\ cb' = RecordSuccess(Seen)
    /\ UNCHANGED now

CallRaises ==
    /\ Admits(Seen)
    /\ cb.failures < MaxFailures
    /\ cb' = RecordFailure(Seen, now)
    /\ UNCHANGED now

ReadState ==
    /\ cb' = Seen
    /\ UNCHANGED now

\* A stream that was let through earlier ends: the circuit may have moved
\* any number of times since.
LateSuccess ==
    /\ cb' = RecordSuccess(cb)
    /\ UNCHANGED now

LateFailure ==
    /\ cb.failures < MaxFailures
    /\ cb' = RecordFailure(cb, now)
    /\ UNCHANGED now

Reset ==
    /\ cb' = ResetBreaker(cb)
    /\ UNCHANGED now

TimePasses ==
    /\ now < MaxTime
    /\ now' = now + 1
    /\ UNCHANGED cb

BreakerNext ==
    \/ CallRejected \/ CallReturns \/ CallRaises
    \/ ReadState \/ LateSuccess \/ LateFailure
    \/ TimePasses

BreakerSpec == BreakerInit /\ [][BreakerNext]_breakerVars

\* Only tests call reset(); the gateway itself runs without it.
ResettableSpec == BreakerInit /\ [][BreakerNext \/ Reset]_breakerVars

-----------------------------------------------------------------------------

\* The circuit is closed exactly while its failure count is below the
\* threshold, after any sequence of calls, late outcomes, reads and resets
\* (_record_failure, _record_success and the state property together).
ClosedIffBelowThreshold == Calibrated(cb)

\* Abstraction: what a user of the class sees of the record.
RetryAt == IF cb.state = "open" THEN cb.lastFailure + RecoveryTimeout ELSE 0

Contract == INSTANCE BreakerContract WITH phase <- cb.state, retryAt <- RetryAt

\* The class implements its contract: every sequence of calls, reads and late
\* outcomes is one that the documented three-state machine allows, with its
\* waiting time (call, state, _record_failure and _record_success together).
ImplementsContract == Contract!Spec

=============================================================================
