--------------------------- MODULE BreakerTheorems ---------------------------
(***************************************************************************)
(* What each function of Breaker preserves, for every value of the three   *)
(* settings.  The proofs about the state machines that own a breaker cite  *)
(* these facts instead of expanding the functions.                         *)
(***************************************************************************)
EXTENDS Breaker, TLAPS

\* A fresh breaker is well typed, calibrated and empty (CircuitBreaker.__init__).
LEMMA NewBreakerCalibrated ==
    NewBreaker \in BreakerRecord /\ Calibrated(NewBreaker)
BY BreakerAssumption DEF NewBreaker, BreakerRecord, CircuitState, Calibrated

LEMMA RecordFields ==
    ASSUME NEW b \in BreakerRecord
    PROVE  /\ b.state \in CircuitState
           /\ b.failures \in Nat /\ b.lastFailure \in Nat /\ b.halfOpenCalls \in Nat
BY DEF BreakerRecord

\* Reading the state changes the phase at most, from open to half open, and
\* only once the recovery timeout has elapsed (the state property).
LEMMA ObserveEffect ==
    ASSUME NEW b \in BreakerRecord, NEW t \in Nat
    PROVE  /\ Observe(b, t) \in BreakerRecord
           /\ Observe(b, t).failures = b.failures
           /\ Observe(b, t).lastFailure = b.lastFailure
           /\ \/ /\ Observe(b, t) = b
                 /\ b.state = "open" => t < b.lastFailure + RecoveryTimeout
              \/ /\ b.state = "open" /\ Observe(b, t).state = "half_open"
                 /\ t >= b.lastFailure + RecoveryTimeout
           /\ Calibrated(b) => Calibrated(Observe(b, t))
<1>0. b.lastFailure \in Nat /\ RecoveryTimeout \in Nat
  BY BreakerAssumption, RecordFields
<1>1. CASE b.state = "open" /\ t - b.lastFailure >= RecoveryTimeout
  <2>1. Observe(b, t) = [b EXCEPT !.state = "half_open", !.halfOpenCalls = 0]
    BY <1>1 DEF Observe
  <2>2. Observe(b, t) \in BreakerRecord
    <3>1. [b EXCEPT !.state = "half_open", !.halfOpenCalls = 0] \in BreakerRecord
      BY DEF BreakerRecord, CircuitState
    <3> QED BY <2>1, <3>1
  <2>3. /\ Observe(b, t).failures = b.failures
        /\ Observe(b, t).lastFailure = b.lastFailure
        /\ Observe(b, t).state = "half_open"
    BY <2>1 DEF BreakerRecord
  <2>4. t >= b.lastFailure + RecoveryTimeout
    BY <1>0, <1>1
  <2> QED BY <1>1, <2>2, <2>3, <2>4 DEF Calibrated
<1>2. CASE ~ (b.state = "open" /\ t - b.lastFailure >= RecoveryTimeout)
  <2>1. Observe(b, t) = b
    BY <1>2 DEF Observe
  <2>2. b.state = "open" => t < b.lastFailure + RecoveryTimeout
    BY <1>0, <1>2
  <2> QED BY <2>1, <2>2
<1> QED BY <1>1, <1>2

\* A failure is counted and timed, and opens the circuit exactly when the
\* count reaches the threshold (_record_failure).
LEMMA RecordFailureEffect ==
    ASSUME NEW b \in BreakerRecord, NEW t \in Nat
    PROVE  /\ RecordFailure(b, t) \in BreakerRecord
           /\ RecordFailure(b, t).failures = b.failures + 1
           /\ RecordFailure(b, t).lastFailure = t
           /\ Calibrated(b) =>
                /\ Calibrated(RecordFailure(b, t))
                /\ b.state # "closed" => RecordFailure(b, t).state = "open"
                /\ RecordFailure(b, t).state # "open" => RecordFailure(b, t).state = "closed"
<1> DEFINE to == IF b.failures + 1 >= FailureThreshold THEN "open" ELSE b.state
<1>0. /\ b.failures \in Nat /\ b.failures + 1 \in Nat /\ FailureThreshold \in Nat
      /\ b.state \in CircuitState
  BY BreakerAssumption, RecordFields
<1>1. to \in CircuitState
  BY <1>0 DEF CircuitState
<1>2. RecordFailure(b, t) \in BreakerRecord
  BY <1>0, <1>1 DEF RecordFailure, BreakerRecord
<1>3. /\ RecordFailure(b, t).failures = b.failures + 1
      /\ RecordFailure(b, t).lastFailure = t
      /\ RecordFailure(b, t).state = to
  BY DEF RecordFailure, BreakerRecord
<1>4. Calibrated(b) /\ b.state # "closed" => to = "open"
  BY <1>0 DEF Calibrated
<1>5. Calibrated(b) /\ to # "open" => to = "closed" /\ b.failures + 1 < FailureThreshold
  BY <1>0 DEF Calibrated
<1>6. to = "open" => b.state = "open" \/ b.failures + 1 >= FailureThreshold
  OBVIOUS
<1>7. ASSUME Calibrated(b) PROVE Calibrated(RecordFailure(b, t))
  BY <1>0, <1>3, <1>5, <1>6, <1>7 DEF Calibrated
<1> HIDE DEF to
<1> QED BY <1>2, <1>3, <1>4, <1>5, <1>7

\* A success leaves an open circuit as it is and closes and clears any other
\* (_record_success).
LEMMA RecordSuccessEffect ==
    ASSUME NEW b \in BreakerRecord
    PROVE  /\ RecordSuccess(b) \in BreakerRecord
           /\ RecordSuccess(b).lastFailure = b.lastFailure
           /\ \/ b.state = "open" /\ RecordSuccess(b) = b
              \/ /\ b.state # "open"
                 /\ RecordSuccess(b).state = "closed" /\ RecordSuccess(b).failures = 0
           /\ Calibrated(b) => Calibrated(RecordSuccess(b))
<1>1. CASE b.state = "open"
  BY <1>1 DEF RecordSuccess
<1>2. CASE b.state # "open"
  <2>1. RecordSuccess(b) \in {[b EXCEPT !.state = "closed", !.failures = 0],
                             [b EXCEPT !.failures = 0]}
    BY <1>2, RecordFields DEF RecordSuccess, CircuitState
  <2>2. RecordSuccess(b) \in BreakerRecord
    <3>1. [b EXCEPT !.state = "closed", !.failures = 0] \in BreakerRecord
      BY DEF BreakerRecord, CircuitState
    <3>2. [b EXCEPT !.failures = 0] \in BreakerRecord
      BY DEF BreakerRecord
    <3> QED BY <2>1, <3>1, <3>2
  <2>3. RecordSuccess(b).lastFailure = b.lastFailure /\ RecordSuccess(b).failures = 0
    BY <2>1 DEF BreakerRecord
  <2>4. RecordSuccess(b).state = "closed"
    <3>1. CASE b.state = "half_open"
      BY <3>1 DEF RecordSuccess, BreakerRecord
    <3>2. CASE b.state = "closed"
      BY <3>2 DEF RecordSuccess, BreakerRecord
    <3> QED BY <1>2, <3>1, <3>2, RecordFields DEF CircuitState
  <2> QED BY <1>2, <2>2, <2>3, <2>4, BreakerAssumption DEF Calibrated
<1> QED BY <1>1, <1>2

\* reset() closes and clears the circuit.
LEMMA ResetBreakerEffect ==
    ASSUME NEW b \in BreakerRecord
    PROVE  ResetBreaker(b) \in BreakerRecord /\ Calibrated(ResetBreaker(b))
<1>1. ResetBreaker(b) \in BreakerRecord
  BY DEF ResetBreaker, BreakerRecord, CircuitState
<1>2. ResetBreaker(b).state = "closed" /\ ResetBreaker(b).failures = 0
  BY DEF ResetBreaker, BreakerRecord
<1> QED BY <1>1, <1>2, BreakerAssumption DEF Calibrated

\* Nothing increments the half-open counter: once zero it stays zero, so the
\* half-open quota of call() is either never reached or, if it is zero, always.
LEMMA HalfOpenCallsIdle ==
    ASSUME NEW b \in BreakerRecord, b.halfOpenCalls = 0, NEW t \in Nat
    PROVE  /\ Observe(b, t).halfOpenCalls = 0
           /\ RecordFailure(b, t).halfOpenCalls = 0
           /\ RecordSuccess(b).halfOpenCalls = 0
<1>1. Observe(b, t).halfOpenCalls = 0
  <2>1. [b EXCEPT !.state = "half_open", !.halfOpenCalls = 0].halfOpenCalls = 0
    BY DEF BreakerRecord
  <2> QED BY <2>1 DEF Observe
<1>2. RecordFailure(b, t).halfOpenCalls = 0
  BY DEF RecordFailure, BreakerRecord
<1>3. RecordSuccess(b).halfOpenCalls = 0
  <2>1. [b EXCEPT !.state = "closed", !.failures = 0].halfOpenCalls = 0
    BY DEF BreakerRecord
  <2>2. [b EXCEPT !.failures = 0].halfOpenCalls = 0
    BY DEF BreakerRecord
  <2> QED BY <2>1, <2>2, RecordFields DEF RecordSuccess, CircuitState
<1> QED BY <1>1, <1>2, <1>3

=============================================================================
