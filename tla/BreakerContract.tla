-------------------------- MODULE BreakerContract --------------------------
(***************************************************************************)
(* What circuit_breaker.py promises its users, without the failure count:  *)
(*   "CLOSED (normal) -> OPEN (failing) -> HALF_OPEN (probing) -> CLOSED   *)
(*    or OPEN", a rejection for RecoveryTimeout after the latest failure,  *)
(* and (test_circuit_breaker.py) a single successful probe closes while a  *)
(* single failed one reopens.                                              *)
(***************************************************************************)
EXTENDS Integers

CONSTANT RecoveryTimeout

VARIABLES
    phase,      \* "closed", "open" or "half_open"
    retryAt,    \* first time an open circuit may be probed; 0 unless open
    now

vars == <<phase, retryAt, now>>

Init == phase = "closed" /\ retryAt = 0 /\ now = 0

CanProbe == phase = "open" /\ now >= retryAt

\* The recovery timeout has elapsed and somebody looks.
StartProbing ==
    /\ CanProbe
    /\ phase' = "half_open"
    /\ retryAt' = 0
    /\ UNCHANGED now

\* Success closes a circuit that may be probed, at once even if nobody looked
\* before.  It never closes one that is still waiting.
Succeed ==
    /\ phase # "open" \/ CanProbe
    /\ phase' = "closed"
    /\ retryAt' = 0
    /\ UNCHANGED now

\* Failure may open a closed circuit and always opens a half-open one.  An
\* open circuit waits for the timeout again.
Fail ==
    /\ \/ phase' = "open" /\ retryAt' = now + RecoveryTimeout
       \/ phase = "closed" /\ UNCHANGED <<phase, retryAt>>
    /\ UNCHANGED now

Tick == now' = now + 1 /\ UNCHANGED <<phase, retryAt>>

Next == StartProbing \/ Succeed \/ Fail \/ Tick

Spec == Init /\ [][Next]_vars

=============================================================================
