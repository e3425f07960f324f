------------------------------ MODULE Breaker ------------------------------
(***************************************************************************)
(* The circuit breaker of backend/nim_gateway/gateway/circuit_breaker.py,  *)
(* as functions on the record of its four fields.  The state machines that *)
(* own one breaker (CircuitBreaker, NIMClient) or several (FallbackChain)  *)
(* are built from these functions.                                         *)
(*                                                                         *)
(* Every method of the class runs between two awaits of one event loop, so *)
(* each function below is one indivisible update.                          *)
(***************************************************************************)
EXTENDS Integers

CONSTANTS
    FailureThreshold,   \* failures that open the circuit
    RecoveryTimeout,    \* clock ticks an open circuit rejects calls
    HalfOpenMaxCalls    \* calls that call() lets through while half open

(***************************************************************************)
(* GatewayConfig declares the three settings as plain ints.  A threshold   *)
(* of at least one is what makes a fresh breaker closed; the other two     *)
(* may be zero.                                                            *)
(***************************************************************************)
ASSUME BreakerAssumption ==
    /\ FailureThreshold \in Nat \ {0}
    /\ RecoveryTimeout \in Nat
    /\ HalfOpenMaxCalls \in Nat

CircuitState == {"closed", "open", "half_open"}

BreakerRecord ==
    [state : CircuitState, failures : Nat, lastFailure : Nat, halfOpenCalls : Nat]

NewBreaker ==
    [state |-> "closed", failures |-> 0, lastFailure |-> 0, halfOpenCalls |-> 0]

-----------------------------------------------------------------------------
(* Mutants: each changes one function the way a slip in the code would.    *)

\* Entering half open also forgets the failures, as a tidy reset might.
ObserveForgetting(b, now) ==
    IF b.state = "open" /\ now - b.lastFailure >= RecoveryTimeout
    THEN [b EXCEPT !.state = "half_open", !.halfOpenCalls = 0, !.failures = 0]
    ELSE b

\* Any success closes the circuit, whatever state it finds.
RecordSuccessAlways(b) == [b EXCEPT !.state = "closed", !.failures = 0]

-----------------------------------------------------------------------------

(***************************************************************************)
(* The `state` property: reading it moves an open circuit whose recovery   *)
(* timeout has elapsed to half open.  The failure count is left alone.     *)
(***************************************************************************)
Observe(b, now) ==
    IF b.state = "open" /\ now - b.lastFailure >= RecoveryTimeout
    THEN [b EXCEPT !.state = "half_open", !.halfOpenCalls = 0]
    ELSE b

(***************************************************************************)
(* The two tests of call(), on a breaker just observed.  No code increments*)
(* _half_open_calls.                                                       *)
(***************************************************************************)
Admits(b) ==
    /\ b.state # "open"
    /\ ~ (b.state = "half_open" /\ b.halfOpenCalls >= HalfOpenMaxCalls)

RecordFailure(b, now) ==
    [b EXCEPT !.failures = @ + 1,
              !.lastFailure = now,
              !.state = IF b.failures + 1 >= FailureThreshold THEN "open" ELSE @]

(***************************************************************************)
(* A success closes a half-open circuit and clears the count of a closed   *)
(* one; on an open circuit (a call admitted before it opened) it is lost.  *)
(***************************************************************************)
RecordSuccess(b) ==
    CASE b.state = "half_open" -> [b EXCEPT !.state = "closed", !.failures = 0]
      [] b.state = "closed"    -> [b EXCEPT !.failures = 0]
      [] b.state = "open"      -> b

ResetBreaker(b) ==
    [b EXCEPT !.state = "closed", !.failures = 0, !.halfOpenCalls = 0]

-----------------------------------------------------------------------------

(***************************************************************************)
(* What every reachable breaker satisfies: the circuit is closed exactly   *)
(* while the count is below the threshold.  Everything that matters about  *)
(* half open rests on it: because the count survives the move to half      *)
(* open, one failed probe is enough to reopen the circuit.                 *)
(***************************************************************************)
Calibrated(b) == b.state = "closed" <=> b.failures < FailureThreshold

=============================================================================
