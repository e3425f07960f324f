------------------------- MODULE RequestPathProofs -------------------------
(***************************************************************************)
(* Theorems about what a request passes through.  About one CircuitBreaker,*)
(* for every threshold, timeout, quota and bound: its invariant, and that  *)
(* it implements BreakerContract.  About one NIMClient with any finite set *)
(* of concurrent operations on its breaker: it uses it as the class        *)
(* provides for, so that the contract holds of the client as well.  About  *)
(* the Gateway, for every set of requests, every models file that loads    *)
(* and every body that an upstream may stream, cut anywhere: what a reply  *)
(* tells of how it came about, and what the reader of a stream gets.       *)
(***************************************************************************)
EXTENDS NIMClient, Gateway, BreakerTheorems, FiniteSetTheorems, SequenceTheorems,
        WellFoundedInduction

-----------------------------------------------------------------------------
(* The circuit breaker.                                                    *)

\* The inductive invariant: without the calibration a failed probe could leave
\* the circuit half open, and a count above the threshold could be closed.
BreakerInv == BreakerTypeOK /\ Calibrated(cb)

LEMMA SeenCalibrated ==
    ASSUME BreakerInv
    PROVE  /\ Seen \in BreakerRecord /\ Calibrated(Seen)
           /\ \/ Seen = cb
              \/ cb.state = "open" /\ Seen.state = "half_open"
                 /\ now >= cb.lastFailure + RecoveryTimeout
BY ObserveEffect DEF BreakerInv, BreakerTypeOK, Seen

LEMMA BreakerInvInit == BreakerInit => BreakerInv
BY NewBreakerCalibrated DEF BreakerInit, BreakerInv, BreakerTypeOK

LEMMA BreakerInvStep == BreakerInv /\ [BreakerNext \/ Reset]_breakerVars => BreakerInv'
<1> SUFFICES ASSUME BreakerInv, [BreakerNext \/ Reset]_breakerVars PROVE BreakerInv'
  OBVIOUS
<1>0. cb \in BreakerRecord /\ now \in Nat /\ Calibrated(cb)
  BY DEF BreakerInv, BreakerTypeOK
<1>1. Seen \in BreakerRecord /\ Calibrated(Seen)
  BY SeenCalibrated
<1>2. CASE CallRejected
  BY <1>0, <1>1, <1>2 DEF CallRejected, BreakerInv, BreakerTypeOK, Calibrated
<1>3. CASE CallReturns
  BY <1>0, <1>1, <1>3, RecordSuccessEffect DEF CallReturns, BreakerInv, BreakerTypeOK, Calibrated
<1>4. CASE CallRaises
  BY <1>0, <1>1, <1>4, RecordFailureEffect DEF CallRaises, BreakerInv, BreakerTypeOK, Calibrated
<1>5. CASE ReadState
  BY <1>0, <1>1, <1>5 DEF ReadState, BreakerInv, BreakerTypeOK, Calibrated
<1>6. CASE LateSuccess
  BY <1>0, <1>6, RecordSuccessEffect DEF LateSuccess, BreakerInv, BreakerTypeOK, Calibrated
<1>7. CASE LateFailure
  BY <1>0, <1>7, RecordFailureEffect DEF LateFailure, BreakerInv, BreakerTypeOK, Calibrated
<1>8. CASE Reset
  BY <1>0, <1>8, ResetBreakerEffect DEF Reset, BreakerInv, BreakerTypeOK, Calibrated
<1>9. CASE TimePasses
  BY <1>0, <1>9 DEF TimePasses, BreakerInv, BreakerTypeOK, Calibrated
<1>10. CASE UNCHANGED breakerVars
  BY <1>0, <1>10 DEF breakerVars, BreakerInv, BreakerTypeOK, Calibrated
<1> QED BY <1>2, <1>3, <1>4, <1>5, <1>6, <1>7, <1>8, <1>9, <1>10 DEF BreakerNext

\* Whatever is done to a breaker, reset() included, the invariant holds.
THEOREM ResettableInvariant == ResettableSpec => []BreakerInv
BY BreakerInvInit, BreakerInvStep, PTL DEF ResettableSpec

\* The circuit is closed exactly while its failure count is below the
\* threshold, after any sequence of calls, late outcomes, reads and resets.
THEOREM Calibration == ResettableSpec => []ClosedIffBelowThreshold
<1>1. BreakerInv => ClosedIffBelowThreshold
  BY DEF BreakerInv, ClosedIffBelowThreshold
<1> QED BY <1>1, ResettableInvariant, PTL

LEMMA BreakerInvariant == BreakerSpec => []BreakerInv
<1>1. BreakerInv /\ [BreakerNext]_breakerVars => BreakerInv'
  BY BreakerInvStep
<1> QED BY <1>1, BreakerInvInit, PTL DEF BreakerSpec

\* The breaker's record keeps its type.
THEOREM BreakerTypeCorrect == BreakerSpec => []BreakerTypeOK
<1>1. BreakerInv => BreakerTypeOK
  BY DEF BreakerInv
<1> QED BY <1>1, BreakerInvariant, PTL

-----------------------------------------------------------------------------
(* Refinement.                                                             *)

LEMMA ContractInit == BreakerInit => Contract!Init
BY DEF BreakerInit, NewBreaker, Contract!Init, RetryAt

LEMMA ContractStep == BreakerInv /\ [BreakerNext]_breakerVars => [Contract!Next]_Contract!vars
<1> SUFFICES ASSUME BreakerInv, [BreakerNext]_breakerVars PROVE [Contract!Next]_Contract!vars
  OBVIOUS
<1>0. cb \in BreakerRecord /\ now \in Nat /\ Calibrated(cb)
  BY DEF BreakerInv, BreakerTypeOK
<1>s. /\ Seen \in BreakerRecord /\ Calibrated(Seen)
      /\ \/ Seen = cb
         \/ cb.state = "open" /\ Seen.state = "half_open"
            /\ now >= cb.lastFailure + RecoveryTimeout
  BY SeenCalibrated
<1> USE DEF RetryAt
<1>1. ASSUME cb' = Seen, now' = now
      PROVE  Contract!StartProbing \/ UNCHANGED Contract!vars
  BY <1>1, <1>s DEF Contract!StartProbing, Contract!CanProbe, Contract!vars
<1>2. CASE CallReturns
  <2>1. cb'.state = "closed"
    BY <1>2, <1>s, RecordSuccessEffect DEF CallReturns, Admits
  <2> QED BY <1>2, <1>s, <2>1
          DEF CallReturns, Admits, Contract!Succeed, Contract!CanProbe, Contract!Next
<1>3. CASE CallRaises
  <2>1. cb'.lastFailure = now /\ (cb'.state = "open" \/ cb'.state = "closed")
    BY <1>0, <1>3, <1>s, RecordFailureEffect DEF CallRaises
  <2>2. cb'.state = "closed" => cb.state = "closed"
    BY <1>0, <1>3, <1>s, RecordFailureEffect DEF CallRaises
  <2> QED BY <1>3, <2>1, <2>2 DEF CallRaises, Contract!Fail, Contract!Next
<1>4. CASE LateSuccess
  <2>1. CASE cb.state = "open"
    BY <1>0, <1>4, <2>1, RecordSuccessEffect DEF LateSuccess, Contract!vars
  <2>2. CASE cb.state # "open"
    <3>1. cb'.state = "closed"
      BY <1>0, <1>4, <2>2, RecordSuccessEffect DEF LateSuccess
    <3> QED BY <1>4, <2>2, <3>1 DEF LateSuccess, Contract!Succeed, Contract!Next
  <2> QED BY <2>1, <2>2
<1>5. CASE LateFailure
  <2>1. cb'.lastFailure = now /\ (cb'.state = "open" \/ cb'.state = "closed")
    BY <1>0, <1>5, RecordFailureEffect DEF LateFailure
  <2>2. cb'.state = "closed" => cb.state = "closed"
    BY <1>0, <1>5, RecordFailureEffect DEF LateFailure
  <2> QED BY <1>5, <2>1, <2>2 DEF LateFailure, Contract!Fail, Contract!Next
<1>6. CASE TimePasses
  BY <1>6 DEF TimePasses, Contract!Tick, Contract!Next
<1>7. CASE UNCHANGED breakerVars
  BY <1>7 DEF breakerVars, Contract!vars
<1>8. CASE CallRejected \/ ReadState
  BY <1>1, <1>8 DEF CallRejected, ReadState, Contract!Next
<1> QED BY <1>2, <1>3, <1>4, <1>5, <1>6, <1>7, <1>8 DEF BreakerNext

\* The class implements its contract: every sequence of calls, reads and late
\* outcomes is one that the documented three-state machine allows.
THEOREM Refinement == BreakerSpec => ImplementsContract
<1>1. BreakerSpec => Contract!Spec
  BY ContractInit, ContractStep, BreakerInvariant, PTL DEF BreakerSpec, Contract!Spec
<1> QED BY <1>1 DEF ImplementsContract

-----------------------------------------------------------------------------
(* The client: its invariant.                                              *)

(***************************************************************************)
(* The inductive invariant.  The failure count is accounted for by streams *)
(* that failed; and the waiting time the history variable records lies     *)
(* within the one that the breaker's own fields impose, or is over.        *)
(***************************************************************************)
CountAccounted == cb.failures <= Cardinality(FailedStreams)

QuietCovered ==
    IF cb.state = "open" THEN quietUntil <= cb.lastFailure + RecoveryTimeout
    ELSE quietUntil <= now

IInv == TypeOK /\ Calibrated(cb) /\ CountAccounted /\ QuietCovered

-----------------------------------------------------------------------------
(* Failed streams.                                                         *)

LEMMA FailedStreamsFinite ==
    /\ IsFiniteSet(FailedStreams)
    /\ Cardinality(FailedStreams) \in Nat
BY NIMClientAssumption, FS_Subset, FS_CardinalityType DEF FailedStreams

\* A finished operation never moves again, so a step forgets no failed stream.
LEMMA FailedStreamsGrow ==
    ASSUME TypeOK, NEW t \in Tasks, NEW from \in SUBSET ({"idle"} \union Running),
           NEW to, Moves(t, from, to)
    PROVE  /\ IsFiniteSet(FailedStreams') /\ Cardinality(FailedStreams') \in Nat
           /\ Cardinality(FailedStreams) <= Cardinality(FailedStreams')
           /\ to = "stream_failed" =>
                Cardinality(FailedStreams') = Cardinality(FailedStreams) + 1
<1>1. task[t] # "stream_failed"
  BY DEF Moves, Running, Streaming
<1>2. \A u \in Tasks : task'[u] = IF u = t THEN to ELSE task[u]
  BY DEF Moves, TypeOK, BreakerTypeOK
<1>3. FailedStreams' = IF to = "stream_failed" THEN FailedStreams \union {t} ELSE FailedStreams
  BY <1>1, <1>2 DEF FailedStreams
<1>4. t \notin FailedStreams
  BY <1>1 DEF FailedStreams
<1>5. CASE to = "stream_failed"
  BY <1>3, <1>4, <1>5, FailedStreamsFinite, FS_AddElement
<1>6. CASE to # "stream_failed"
  BY <1>3, <1>6, FailedStreamsFinite
<1> QED BY <1>5, <1>6

-----------------------------------------------------------------------------
(* The effect of looking at the breaker.                                   *)

\* Looking at the breaker keeps what is known of it, and whoever finds the
\* circuit not open also finds the waiting time over.
LEMMA SeenEffect ==
    ASSUME IInv
    PROVE  /\ Seen \in BreakerRecord /\ Calibrated(Seen)
           /\ Seen.failures = cb.failures
           /\ Seen.lastFailure = cb.lastFailure
           /\ Seen.state # "open" => quietUntil <= now
           /\ Seen.state = "open" => Seen = cb
<1>1. cb \in BreakerRecord /\ now \in Nat /\ quietUntil \in Nat /\ cb.lastFailure \in Nat
  BY RecordFields DEF IInv, TypeOK, BreakerTypeOK
<1>2. RecoveryTimeout \in Nat
  BY BreakerAssumption
<1>3. CASE Seen = cb
  BY <1>1, <1>3 DEF IInv, QuietCovered
<1>4. CASE cb.state = "open" /\ Seen.state = "half_open"
           /\ now >= cb.lastFailure + RecoveryTimeout
  <2>1. quietUntil <= now
    BY <1>1, <1>2, <1>4 DEF IInv, QuietCovered
  <2> QED BY <1>1, <1>4, <2>1, ObserveEffect DEF Seen, IInv
<1> QED BY <1>1, <1>3, <1>4, ObserveEffect DEF Seen

-----------------------------------------------------------------------------
(* The invariant.                                                          *)

LEMMA InvariantInit == Init => IInv
<1> SUFFICES ASSUME Init PROVE IInv
  OBVIOUS
<1>1. TypeOK
  BY NewBreakerCalibrated DEF Init, BreakerInit, TypeOK, BreakerTypeOK, TaskState
<1>2. CountAccounted
  BY FailedStreamsFinite DEF Init, BreakerInit, NewBreaker, CountAccounted
<1>3. QuietCovered
  BY DEF Init, BreakerInit, NewBreaker, QuietCovered
<1> QED BY <1>1, <1>2, <1>3, NewBreakerCalibrated DEF Init, BreakerInit, IInv

\* A step that moves one operation and leaves the clock and the history alone
\* preserves the invariant, provided that what it makes of the breaker does.
LEMMA MoveKeepsInvariant ==
    ASSUME IInv, NEW t \in Tasks, NEW from \in SUBSET ({"idle"} \union Running),
           NEW to \in TaskState, Moves(t, from, to),
           UNCHANGED <<now, quietUntil>>,
           cb' \in BreakerRecord, Calibrated(cb'),
           cb'.failures <= cb.failures,
           IF cb'.state = "open" THEN cb' = cb ELSE quietUntil <= now
    PROVE  IInv'
<1>1. TypeOK'
  BY DEF IInv, TypeOK, BreakerTypeOK, Moves
<1>2. CountAccounted'
  <2>1. cb.failures \in Nat /\ cb'.failures \in Nat
    BY RecordFields DEF IInv, TypeOK, BreakerTypeOK
  <2>2. Cardinality(FailedStreams) <= Cardinality(FailedStreams')
    BY FailedStreamsGrow DEF IInv
  <2>3. Cardinality(FailedStreams) \in Nat /\ Cardinality(FailedStreams') \in Nat
    BY FailedStreamsFinite, FailedStreamsGrow DEF IInv
  <2> QED BY <2>1, <2>2, <2>3 DEF IInv, CountAccounted
<1>3. QuietCovered'
  BY DEF IInv, QuietCovered
<1>4. Calibrated(cb)'
  BY DEF Calibrated
<1> QED BY <1>1, <1>2, <1>3, <1>4 DEF IInv

LEMMA InvariantStep == IInv /\ [Next]_vars => IInv'
<1> SUFFICES ASSUME IInv, [Next]_vars PROVE IInv'
  OBVIOUS
<1>0. /\ cb \in BreakerRecord /\ now \in Nat /\ quietUntil \in Nat
      /\ cb.failures \in Nat /\ cb.lastFailure \in Nat
      /\ RecoveryTimeout \in Nat /\ Calibrated(cb)
  BY RecordFields, BreakerAssumption DEF IInv, TypeOK, BreakerTypeOK
<1>s. /\ Seen \in BreakerRecord /\ Calibrated(Seen)
      /\ Seen.failures = cb.failures
      /\ Seen.state # "open" => quietUntil <= now
      /\ Seen.state = "open" => Seen = cb
  BY SeenEffect
<1>w. cb.state # "open" => quietUntil <= now
  BY DEF IInv, QuietCovered
<1>t. ASSUME NEW t \in Tasks, RequestStarts(t) PROVE IInv'
  <2>1. /\ cb' \in BreakerRecord /\ Calibrated(cb')
        /\ cb'.state = "closed" /\ cb'.failures = 0
    BY <1>t, <1>s, RecordSuccessEffect DEF RequestStarts, Admits
  <2>2. quietUntil <= now
    BY <1>t, <1>s DEF RequestStarts, Admits
  <2> QED BY <1>t, <1>0, <2>1, <2>2, MoveKeepsInvariant DEF RequestStarts, TaskState, Running
<1>a. ASSUME NEW t \in Tasks, RequestRejected(t) PROVE IInv'
  BY <1>a, <1>0, <1>s, MoveKeepsInvariant DEF RequestRejected, TaskState, Finished
<1>b. ASSUME NEW t \in Tasks, RequestEnds(t) PROVE IInv'
  BY <1>b, <1>0, <1>w, MoveKeepsInvariant DEF RequestEnds, TaskState, Finished, Running
<1>c. ASSUME NEW t \in Tasks, StreamStarts(t) PROVE IInv'
  BY <1>c, <1>0, <1>s, MoveKeepsInvariant DEF StreamStarts, TaskState, Running, Streaming
<1>d. ASSUME NEW t \in Tasks, StreamRejected(t) PROVE IInv'
  BY <1>d, <1>0, <1>s, MoveKeepsInvariant DEF StreamRejected, TaskState, Finished
<1>e. ASSUME NEW t \in Tasks, StreamEnds(t) PROVE IInv'
  <2>1. /\ cb' \in BreakerRecord /\ Calibrated(cb')
        /\ \/ cb.state = "open" /\ cb' = cb
           \/ cb.state # "open" /\ cb'.state = "closed" /\ cb'.failures = 0
    BY <1>e, <1>0, RecordSuccessEffect DEF StreamEnds
  <2> QED BY <1>e, <1>0, <1>w, <2>1, MoveKeepsInvariant
          DEF StreamEnds, TaskState, Finished, Running
<1>f. ASSUME NEW t \in Tasks, StreamFails(t) PROVE IInv'
  <2>1. /\ cb' \in BreakerRecord /\ Calibrated(cb')
        /\ cb'.failures = cb.failures + 1 /\ cb'.lastFailure = now
        /\ cb'.state # "open" => cb.state = "closed"
    BY <1>f, <1>0, RecordFailureEffect DEF StreamFails
  <2>2. Moves(t, Streaming, "stream_failed") /\ Streaming \subseteq {"idle"} \union Running
    BY <1>f DEF StreamFails, Running
  <2>3. TypeOK'
    BY <1>f, <1>0, <2>1, <2>2
       DEF StreamFails, IInv, TypeOK, BreakerTypeOK, Moves, TaskState, Finished
  <2>4. CountAccounted'
    <3>1. Cardinality(FailedStreams') = Cardinality(FailedStreams) + 1
      BY <2>2, FailedStreamsGrow DEF IInv
    <3> QED BY <1>0, <2>1, <3>1, FailedStreamsFinite DEF IInv, CountAccounted
  <2>5. QuietCovered'
    BY <1>f, <1>0, <1>w, <2>1 DEF StreamFails, QuietCovered
  <2>6. Calibrated(cb)'
    BY <2>1 DEF Calibrated
  <2> QED BY <2>3, <2>4, <2>5, <2>6 DEF IInv
<1>g. ASSUME NEW t \in Tasks, StreamAbandoned(t) PROVE IInv'
  BY <1>g, <1>0, <1>w, MoveKeepsInvariant DEF StreamAbandoned, TaskState, Finished, Running
<1>h. CASE StateRead
  <2>1. FailedStreams' = FailedStreams
    BY <1>h DEF StateRead, FailedStreams
  <2> QED BY <1>h, <1>0, <1>s, <2>1
          DEF StateRead, IInv, TypeOK, BreakerTypeOK, Calibrated, CountAccounted, QuietCovered
<1>i. CASE Tick
  <2>1. FailedStreams' = FailedStreams
    BY <1>i DEF Tick, TimePasses, FailedStreams
  <2> QED BY <1>i, <1>0, <2>1
          DEF Tick, TimePasses, IInv, TypeOK, BreakerTypeOK, Calibrated, CountAccounted,
              QuietCovered
<1>j. CASE UNCHANGED vars
  <2>1. FailedStreams' = FailedStreams
    BY <1>j DEF vars, breakerVars, FailedStreams
  <2> QED BY <1>j, <2>1
          DEF vars, breakerVars, IInv, TypeOK, BreakerTypeOK, Calibrated, CountAccounted,
              QuietCovered
<1> QED BY <1>t, <1>a, <1>b, <1>c, <1>d, <1>e, <1>f, <1>g, <1>h, <1>i, <1>j DEF Next

\* The breaker's count and its waiting time are accounted for by the streams
\* that failed, however requests and streams interleave.
THEOREM Invariant == Spec => []IInv
BY InvariantInit, InvariantStep, PTL DEF Spec

-----------------------------------------------------------------------------
(* The properties of NIMClient.                                            *)

\* The client's state keeps its type.
THEOREM TypeCorrect == Spec => []TypeOK
<1>1. IInv => TypeOK
  BY DEF IInv
<1> QED BY <1>1, Invariant, PTL

\* The breaker counts no failure that did not happen, and a circuit that is
\* not closed has seen at least FailureThreshold streams fail.
THEOREM PhantomFree == Spec => []NoPhantomFailures
<1>1. IInv => NoPhantomFailures
  BY RecordFields, BreakerAssumption, FailedStreamsFinite
     DEF IInv, TypeOK, BreakerTypeOK, Calibrated, CountAccounted, NoPhantomFailures
<1> QED BY <1>1, Invariant, PTL

\* No operation is let through while the waiting time called for by the
\* latest failure that left the circuit open lasts.
THEOREM FailsFast == Spec => FailFast
<1>1. ASSUME IInv, [Next]_vars, NEW t \in Tasks, Admitted(t)
      PROVE  now >= quietUntil
  <2>1. now \in Nat /\ quietUntil \in Nat
    BY <1>1 DEF IInv, TypeOK, BreakerTypeOK
  <2>2. Seen.state # "open" => quietUntil <= now
    BY <1>1, SeenEffect
  <2>3. RequestStarts(t) \/ StreamStarts(t)
    BY <1>1 DEF Admitted, IInv, TypeOK, BreakerTypeOK, Next, vars, breakerVars, Moves,
                Running, Streaming, StateRead, Tick, TimePasses,
                RequestStarts, RequestRejected, RequestEnds, StreamStarts, StreamRejected,
                StreamEnds, StreamFails, StreamAbandoned
  <2> QED BY <2>1, <2>2, <2>3 DEF RequestStarts, StreamStarts, Admits
<1>2. IInv /\ [Next]_vars => [\A t \in Tasks : Admitted(t) => now >= quietUntil]_vars
  BY <1>1
<1> QED BY <1>2, Invariant, PTL DEF Spec, FailFast

\* One failed stream reopens a half-open circuit, whatever the threshold.
THEOREM ProbeFailureReopens == Spec => HalfOpenFailureReopens
<1>1. ASSUME IInv, [Next]_vars, NEW t \in Tasks, cb.state = "half_open",
             task[t] \in Streaming, task'[t] = "stream_failed"
      PROVE  cb'.state = "open"
  <2>1. StreamFails(t)
    BY <1>1 DEF IInv, TypeOK, BreakerTypeOK, Next, vars, breakerVars, Moves, Streaming,
                StateRead, Tick, TimePasses,
                RequestStarts, RequestRejected, RequestEnds, StreamStarts, StreamRejected,
                StreamEnds, StreamFails, StreamAbandoned
  <2> QED BY <1>1, <2>1, RecordFailureEffect DEF StreamFails, IInv, TypeOK, BreakerTypeOK
<1>2. IInv /\ [Next]_vars =>
        [\A t \in Tasks : cb.state = "half_open" /\ task[t] \in Streaming
                          /\ task'[t] = "stream_failed" => cb'.state = "open"]_vars
  BY <1>1
<1> QED BY <1>2, Invariant, PTL DEF Spec, HalfOpenFailureReopens

-----------------------------------------------------------------------------
(* Composition: the client drives one CircuitBreaker.                      *)

LEMMA ClientStep == IInv /\ [Next]_vars => [BreakerNext]_breakerVars
<1> SUFFICES ASSUME IInv, [Next]_vars PROVE [BreakerNext]_breakerVars
  OBVIOUS
<1>1. ASSUME NEW t \in Tasks, RequestStarts(t) PROVE CallReturns
  BY <1>1 DEF RequestStarts, CallReturns
<1>2. ASSUME NEW t \in Tasks, RequestRejected(t) PROVE CallRejected
  BY <1>2 DEF RequestRejected, CallRejected
<1>3. ASSUME NEW t \in Tasks, StreamStarts(t) \/ StreamRejected(t) PROVE ReadState
  BY <1>3 DEF StreamStarts, StreamRejected, ReadState
<1>4. ASSUME NEW t \in Tasks, StreamEnds(t) PROVE LateSuccess
  BY <1>4 DEF StreamEnds, LateSuccess
<1>5. ASSUME NEW t \in Tasks, StreamFails(t) PROVE LateFailure
  \* The operation that fails now was not among the failed ones before, so the
  \* count is still below the number of operations, and below the bound.
  <2>1. cb.failures < MaxFailures
    <3>1. t \in Tasks \ FailedStreams
      BY <1>5 DEF StreamFails, Moves, Streaming, FailedStreams
    <3>2. /\ Cardinality(FailedStreams) <= Cardinality(Tasks)
          /\ Cardinality(FailedStreams) # Cardinality(Tasks)
      BY <3>1, NIMClientAssumption, FS_Subset DEF FailedStreams
    <3>3. Cardinality(FailedStreams) \in Nat /\ Cardinality(Tasks) \in Nat
      BY FailedStreamsFinite, NIMClientAssumption, FS_CardinalityType
    <3>4. cb.failures \in Nat
      BY RecordFields DEF IInv, TypeOK, BreakerTypeOK
    <3> QED BY <3>2, <3>3, <3>4, NIMClientAssumption, BoundAssumption DEF IInv, CountAccounted
  <2> QED BY <1>5, <2>1 DEF StreamFails, LateFailure
<1>6. ASSUME NEW t \in Tasks, RequestEnds(t) \/ StreamAbandoned(t) PROVE UNCHANGED breakerVars
  BY <1>6 DEF RequestEnds, StreamAbandoned, breakerVars
<1>7. CASE StateRead
  BY <1>7 DEF StateRead, ReadState, BreakerNext
<1>8. CASE Tick
  BY <1>8 DEF Tick, TimePasses, BreakerNext
<1>9. CASE UNCHANGED vars
  BY <1>9 DEF vars, breakerVars
<1> QED BY <1>1, <1>2, <1>3, <1>4, <1>5, <1>6, <1>7, <1>8, <1>9 DEF Next, BreakerNext

\* Concurrent operations use the breaker only in ways the class provides for,
\* and no other.
THEOREM Composition == Spec => UsesBreaker
<1>0. Init => BreakerInit
  BY DEF Init
<1>1. Spec => BreakerSpec
  BY <1>0, ClientStep, Invariant, PTL DEF Spec, BreakerSpec
<1> QED BY <1>1 DEF UsesBreaker

\* So the client, too, keeps the contract of the breaker: what its operations
\* see of the circuit is the documented machine with three states.
THEOREM ClientRefinement == Spec => ImplementsContract
BY Composition, Refinement DEF UsesBreaker


-----------------------------------------------------------------------------
(* The event streams: what a reader makes of a write.                      *)

\* A reader that has been given tokens of T only.
Parser(T) == [line : Seq(T), data : Seq(Seq(T)), events : Seq(Seq(Seq(T)))]

\* g[i] is the reader p after i of the tokens.
Readings(g, p, tokens, n) ==
    g = [i \in 0 .. n |-> IF i = 0 THEN p ELSE ReadToken(g[i - 1], tokens[i])]

\* A set of natural numbers has a least element.
LEMMA FirstOf ==
    ASSUME NEW S \in SUBSET Nat, S # {}
    PROVE  \E m \in S : \A j \in S : m <= j
<1>1. IsWellFoundedOn(OpToRel(<, Nat), Nat)
  BY NatLessThanWellFounded
<1>2. PICK m \in S : \A j \in S : <<j, m>> \notin OpToRel(<, Nat)
  BY <1>1, WFMin
<1>3. \A j \in S : ~ (j < m)
  BY <1>2 DEF OpToRel
<1> QED BY <1>3

\* The recursion in Parse defines a function: the least length without one
\* would not be 0, and one token less leaves a function to extend.
LEMMA ReadingsExist ==
    ASSUME NEW p, NEW tokens, NEW n \in Nat
    PROVE  \E g : Readings(g, p, tokens, n)
<1> DEFINE Bad == {m \in Nat : ~ \E g : Readings(g, p, tokens, m)}
<1>1. \E g : Readings(g, p, tokens, 0)
  <2> DEFINE f == [i \in 0 .. 0 |-> p]
  <2>1. f = [i \in 0 .. 0 |-> IF i = 0 THEN p ELSE ReadToken(f[i - 1], tokens[i])]
    OBVIOUS
  <2> QED BY <2>1 DEF Readings
<1>2. ASSUME NEW m \in Nat, \E g : Readings(g, p, tokens, m)
      PROVE  \E g : Readings(g, p, tokens, m + 1)
  <2>1. PICK g : g = [i \in 0 .. m |-> IF i = 0 THEN p ELSE ReadToken(g[i - 1], tokens[i])]
    BY <1>2 DEF Readings
  <2> DEFINE f == [i \in 0 .. m + 1 |-> IF i <= m THEN g[i] ELSE ReadToken(g[m], tokens[m + 1])]
  <2>2. \A i \in 0 .. m : f[i] = g[i]
    OBVIOUS
  <2>3. ASSUME NEW i \in 0 .. m + 1
        PROVE  f[i] = IF i = 0 THEN p ELSE ReadToken(f[i - 1], tokens[i])
    <3>1. CASE i = 0
      BY <2>1, <2>2, <3>1
    <3>2. CASE i \in 1 .. m
      <4>1. i - 1 \in 0 .. m /\ i \in 0 .. m
        BY <3>2
      <4>2. g[i] = ReadToken(g[i - 1], tokens[i])
        BY <2>1, <3>2, <4>1
      <4> HIDE DEF f
      <4> QED BY <2>2, <3>2, <4>1, <4>2
    <3>3. CASE i = m + 1
      <4>1. f[i] = ReadToken(g[m], tokens[m + 1])
        BY <3>3
      <4>2. f[m] = g[m] /\ i - 1 = m
        BY <3>3
      <4> HIDE DEF f
      <4> QED BY <3>3, <4>1, <4>2
    <3> QED BY <3>1, <3>2, <3>3
  <2>4. f = [i \in 0 .. m + 1 |-> f[i]]
    OBVIOUS
  <2> HIDE DEF f
  <2>5. f = [i \in 0 .. m + 1 |-> IF i = 0 THEN p ELSE ReadToken(f[i - 1], tokens[i])]
    BY <2>3, <2>4
  <2> QED BY <2>5 DEF Readings
<1>3. Bad = {}
  <2> SUFFICES ASSUME Bad # {} PROVE FALSE
    OBVIOUS
  <2>1. PICK m \in Bad : \A j \in Bad : m <= j
    BY FirstOf
  <2>2. m # 0 /\ m - 1 \in Nat /\ ~ (m - 1 \in Bad)
    BY <1>1, <2>1
  <2> QED BY <1>2, <2>1, <2>2
<1> QED BY <1>3

LEMMA ReadingsStep ==
    ASSUME NEW g, NEW p, NEW tokens, NEW n \in Nat, Readings(g, p, tokens, n)
    PROVE  g[0] = p /\ \A i \in 1 .. n : g[i] = ReadToken(g[i - 1], tokens[i])
<1>1. g = [i \in 0 .. n |-> IF i = 0 THEN p ELSE ReadToken(g[i - 1], tokens[i])]
  BY DEF Readings
<1>2. g[0] = p
  BY <1>1
<1>3. ASSUME NEW i \in 1 .. n PROVE g[i] = ReadToken(g[i - 1], tokens[i])
  <2>1. i \in 0 .. n /\ i # 0
    OBVIOUS
  <2> QED BY <1>1, <2>1
<1> QED BY <1>2, <1>3

\* Parse is what it looks like: one token after the other.
LEMMA ParseReads ==
    ASSUME NEW p, NEW tokens, Len(tokens) \in Nat
    PROVE  \E g : /\ g[0] = p /\ Parse(p, tokens) = g[Len(tokens)]
                  /\ \A i \in 1 .. Len(tokens) : g[i] = ReadToken(g[i - 1], tokens[i])
<1> DEFINE g == CHOOSE f : f = [i \in 0 .. Len(tokens) |->
                                  IF i = 0 THEN p ELSE ReadToken(f[i - 1], tokens[i])]
<1>1. \E f : Readings(f, p, tokens, Len(tokens))
  BY ReadingsExist, Zenon
<1>2. Readings(g, p, tokens, Len(tokens))
  BY <1>1, Zenon DEF Readings
<1>3. Parse(p, tokens) = g[Len(tokens)]
  BY Zenon DEF Parse
<1> HIDE DEF g
<1>4. g[0] = p /\ \A i \in 1 .. Len(tokens) : g[i] = ReadToken(g[i - 1], tokens[i])
  <2> DEFINE n == Len(tokens)
  <2>1. n \in Nat /\ Readings(g, p, tokens, n)
    BY <1>2
  <2> HIDE DEF n
  <2>2. g[0] = p /\ \A i \in 1 .. n : g[i] = ReadToken(g[i - 1], tokens[i])
    BY <2>1, ReadingsStep
  <2> QED BY <2>2, Zenon DEF n
<1> QED BY <1>3, <1>4, Zenon

\* One token leaves a reader that is typed a reader that is typed.
LEMMA ReadTokenTyped ==
    ASSUME NEW T, NEW p \in Parser(T), NEW x \in T
    PROVE  ReadToken(p, x) \in Parser(T)
<1>0. p.line \in Seq(T) /\ p.data \in Seq(Seq(T)) /\ p.events \in Seq(Seq(Seq(T)))
  BY DEF Parser
<1>e. \A S : << >> \in Seq(S)
  OBVIOUS
<1>1. CASE x # "\n"
  <2>1. Append(p.line, x) \in Seq(T)
    BY <1>0, AppendProperties
  <2>2. [p EXCEPT !.line = Append(@, x)] \in Parser(T)
    BY <1>0, <2>1 DEF Parser
  <2> QED BY <1>1, <2>2 DEF ReadToken
<1>2. CASE x = "\n" /\ p.line # << >>
  <2>1. DataIn(p.line) \in Seq(Seq(T))
    <3>1. Len(p.line) \in Nat
      BY <1>0, LenProperties
    <3>2. SubSeq(p.line, 3, Len(p.line)) \in Seq(T)
      <4>1. \A i \in 3 .. Len(p.line) : p.line[i] \in T
        BY <1>0, <3>1, ElementOfSeq
      <4> QED BY <3>1, <4>1, SubSeqProperties
    <3>3. \A s \in Seq(T) : <<s>> \in Seq(Seq(T))
      OBVIOUS
    <3> QED BY <1>e, <3>2, <3>3 DEF DataIn
  <2>2. p.data \o DataIn(p.line) \in Seq(Seq(T))
    BY <1>0, <2>1, ConcatProperties
  <2>3. [p EXCEPT !.data = @ \o DataIn(p.line), !.line = << >>] \in Parser(T)
    BY <1>0, <1>e, <2>2 DEF Parser
  <2> QED BY <1>2, <2>3 DEF ReadToken, EndOfLine
<1>3. CASE x = "\n" /\ p.line = << >>
  <2>1. Append(p.events, p.data) \in Seq(Seq(Seq(T)))
    BY <1>0, AppendProperties
  <2>2. [p EXCEPT !.data = << >>,
                  !.events = IF p.data = << >> THEN @ ELSE Append(@, p.data)] \in Parser(T)
    BY <1>0, <1>e, <2>1 DEF Parser
  <2> QED BY <1>3, <2>2 DEF ReadToken, Dispatch
<1> QED BY <1>1, <1>2, <1>3

\* Whatever has been read at a point of a write is typed.
LEMMA ReadingTyped ==
    ASSUME NEW T, NEW p \in Parser(T), NEW tokens, NEW n \in Nat,
           \A i \in 1 .. n : tokens[i] \in T,
           NEW g, g[0] = p, \A i \in 1 .. n : g[i] = ReadToken(g[i - 1], tokens[i])
    PROVE  \A i \in 0 .. n : g[i] \in Parser(T)
<1> DEFINE Bad == {i \in 0 .. n : g[i] \notin Parser(T)}
<1> SUFFICES ASSUME Bad # {} PROVE FALSE
  OBVIOUS
<1>1. PICK m \in Bad : \A j \in Bad : m <= j
  <2>1. Bad \in SUBSET Nat
    OBVIOUS
  <2> QED BY <2>1, FirstOf
<1>2. m \in 1 .. n /\ m - 1 \in 0 .. n /\ ~ (m - 1 \in Bad)
  BY <1>1
<1>3. g[m - 1] \in Parser(T) /\ tokens[m] \in T /\ g[m] = ReadToken(g[m - 1], tokens[m])
  BY <1>2
<1>4. g[m] \in Parser(T)
  BY <1>3, ReadTokenTyped
<1> QED BY <1>1, <1>4

LEMMA ParseTyped ==
    ASSUME NEW T, NEW p \in Parser(T), NEW tokens \in Seq(T)
    PROVE  Parse(p, tokens) \in Parser(T)
<1>1. Len(tokens) \in Nat /\ \A i \in 1 .. Len(tokens) : tokens[i] \in T
  BY LenProperties, ElementOfSeq
<1>2. PICK g : /\ g[0] = p /\ Parse(p, tokens) = g[Len(tokens)]
               /\ \A i \in 1 .. Len(tokens) : g[i] = ReadToken(g[i - 1], tokens[i])
  BY <1>1, ParseReads
<1> DEFINE n == Len(tokens)
<1>3. n \in Nat /\ \A i \in 1 .. n : tokens[i] \in T
  BY <1>1
<1>4. g[0] = p /\ \A i \in 1 .. n : g[i] = ReadToken(g[i - 1], tokens[i])
  BY <1>2
<1>5. g[n] \in Parser(T)
  <2> HIDE DEF n
  <2>1. \A i \in 0 .. n : g[i] \in Parser(T)
    BY <1>3, <1>4, ReadingTyped
  <2> QED BY <1>3, <2>1
<1> QED BY <1>2, <1>5

-----------------------------------------------------------------------------
(* The event streams: what a framed write leaves behind.                   *)

LEMMA FieldTokens == ToSet(Field) = {"da", "ta:"}
<1>1. DOMAIN Field = {1, 2}
  BY DEF Field
<1>2. Field[1] = "da" /\ Field[2] = "ta:"
  BY DEF Field
<1> QED BY <1>1, <1>2 DEF ToSet

LEMMA PairTyped ==
    ASSUME NEW T, NEW a \in T, NEW b \in T
    PROVE  /\ <<a, b>> \in Seq(T) /\ Len(<<a, b>>) = 2
           /\ <<a, b>>[1] = a /\ <<a, b>>[2] = b
<1>1. Len(<<a, b>>) = 2 /\ <<a, b>>[1] = a /\ <<a, b>>[2] = b
  OBVIOUS
<1>2. <<a, b>> \in [1 .. 2 -> T]
  <2>1. DOMAIN <<a, b>> = 1 .. 2
    OBVIOUS
  <2>2. \A i \in 1 .. 2 : <<a, b>>[i] \in T
    <3>1. \A i \in 1 .. 2 : i = 1 \/ i = 2
      OBVIOUS
    <3> QED BY <1>1, <3>1
  <2>3. <<a, b>> = [i \in 1 .. 2 |-> <<a, b>>[i]]
    OBVIOUS
  <2> QED BY <2>2, <2>3
<1>3. <<a, b>> \in Seq(T)
  BY <1>2, SeqDef
<1> QED BY <1>1, <1>3

\* A framed chunk: the field name, the chunk, two ends of line.
LEMMA FramedTokens ==
    ASSUME NEW T, "da" \in T, "ta:" \in T, "\n" \in T, NEW chunk \in Seq(T)
    PROVE  /\ Framed(chunk) \in Seq(T)
           /\ Len(Framed(chunk)) = Len(chunk) + 4
           /\ Framed(chunk)[1] = "da" /\ Framed(chunk)[2] = "ta:"
           /\ \A i \in 1 .. Len(chunk) : Framed(chunk)[i + 2] = chunk[i]
           /\ Framed(chunk)[Len(chunk) + 3] = "\n"
           /\ Framed(chunk)[Len(chunk) + 4] = "\n"
<1> DEFINE e == <<"\n", "\n">>
           s == Field \o chunk
           k == Len(chunk)
<1>1. Field \in Seq(T) /\ Len(Field) = 2 /\ Field[1] = "da" /\ Field[2] = "ta:"
  BY PairTyped DEF Field
<1>2. e \in Seq(T) /\ Len(e) = 2 /\ e[1] = "\n" /\ e[2] = "\n"
  BY PairTyped
<1>3. k \in Nat
  BY LenProperties
<1>4. /\ s \in Seq(T) /\ Len(s) = Len(Field) + k
      /\ \A i \in 1 .. Len(Field) + k :
           s[i] = IF i <= Len(Field) THEN Field[i] ELSE chunk[i - Len(Field)]
  BY <1>1, ConcatProperties
<1>5. Framed(chunk) = s \o e
  BY DEF Framed
<1> HIDE DEF s, e
<1>6. /\ s \o e \in Seq(T) /\ Len(s \o e) = Len(s) + Len(e)
      /\ \A i \in 1 .. Len(s) + Len(e) :
           (s \o e)[i] = IF i <= Len(s) THEN s[i] ELSE e[i - Len(s)]
  <2>1. s \in Seq(T) /\ e \in Seq(T)
    BY <1>2, <1>4
  <2> QED BY <2>1, ConcatProperties
<1> HIDE DEF k
<1>7. Len(s) = k + 2 /\ Len(s \o e) = k + 4
  BY <1>1, <1>2, <1>3, <1>4, <1>6
<1>8. s[1] = "da" /\ s[2] = "ta:"
  <2>1. 1 \in 1 .. Len(Field) + k /\ 2 \in 1 .. Len(Field) + k
    BY <1>1, <1>3
  <2> QED BY <1>1, <1>4, <2>1
<1>9. \A i \in 1 .. k : s[i + 2] = chunk[i]
  <2> TAKE i \in 1 .. k
  <2>1. i + 2 \in 1 .. Len(Field) + k /\ ~ (i + 2 <= Len(Field)) /\ (i + 2) - Len(Field) = i
    BY <1>1, <1>3
  <2> QED BY <1>4, <2>1
<1>10. \A i \in 1 .. k + 2 : (s \o e)[i] = s[i]
  BY <1>2, <1>3, <1>6, <1>7
<1>11. (s \o e)[k + 3] = "\n" /\ (s \o e)[k + 4] = "\n"
  <2>1. k + 3 \in 1 .. Len(s) + Len(e) /\ ~ (k + 3 <= Len(s)) /\ (k + 3) - Len(s) = 1
    BY <1>2, <1>3, <1>7
  <2>2. k + 4 \in 1 .. Len(s) + Len(e) /\ ~ (k + 4 <= Len(s)) /\ (k + 4) - Len(s) = 2
    BY <1>2, <1>3, <1>7
  <2> QED BY <1>2, <1>6, <2>1, <2>2
<1>12. \A i \in 1 .. k : i + 2 \in 1 .. k + 2
  BY <1>3
<1>13. 1 \in 1 .. k + 2 /\ 2 \in 1 .. k + 2
  BY <1>3
<1>14. \A i \in 1 .. k : (s \o e)[i + 2] = chunk[i]
  BY <1>9, <1>10, <1>12
<1>15. (s \o e)[1] = "da" /\ (s \o e)[2] = "ta:"
  BY <1>8, <1>10, <1>13
<1> QED BY <1>5, <1>6, <1>7, <1>11, <1>14, <1>15 DEF k

\* Two ends of line: whatever the chunk was, the line and the event that it
\* may have begun are over.
LEMMA FramedParsed ==
    ASSUME NEW T, "da" \in T, "ta:" \in T, "\n" \in T,
           NEW chunk \in Seq(T), NEW p \in Parser(T)
    PROVE  /\ Parse(p, Framed(chunk)) \in Parser(T)
           /\ Parse(p, Framed(chunk)).line = << >>
           /\ Parse(p, Framed(chunk)).data = << >>
<1> DEFINE tokens == Framed(chunk)
           n == Len(tokens)
<1>1. tokens \in Seq(T) /\ n \in Nat /\ n >= 4 /\ tokens[n - 1] = "\n" /\ tokens[n] = "\n"
  <2>1. Len(chunk) \in Nat
    BY LenProperties
  <2>2. /\ tokens \in Seq(T) /\ n = Len(chunk) + 4
        /\ tokens[Len(chunk) + 3] = "\n" /\ tokens[Len(chunk) + 4] = "\n"
    BY FramedTokens
  <2> HIDE DEF tokens, n
  <2>3. n - 1 = Len(chunk) + 3
    BY <2>1, <2>2
  <2> QED BY <2>1, <2>2, <2>3
<1>2. Parse(p, tokens) \in Parser(T)
  BY <1>1, ParseTyped
<1>3. PICK g : /\ g[0] = p /\ Parse(p, tokens) = g[n]
               /\ \A i \in 1 .. n : g[i] = ReadToken(g[i - 1], tokens[i])
  BY <1>1, ParseReads
<1>4. \A i \in 1 .. n : tokens[i] \in T
  BY <1>1, ElementOfSeq
<1> HIDE DEF tokens, n
<1>5. g[n - 2] \in Parser(T) /\ g[n - 1] \in Parser(T)
  <2>1. \A i \in 0 .. n : g[i] \in Parser(T)
    BY <1>1, <1>3, <1>4, ReadingTyped
  <2> QED BY <1>1, <2>1
<1>6. g[n - 1] = ReadToken(g[n - 2], "\n") /\ g[n] = ReadToken(g[n - 1], "\n")
  BY <1>1, <1>3
<1>7. g[n - 1].line = << >>
  BY <1>5, <1>6 DEF ReadToken, EndOfLine, Dispatch, Parser
<1>8. g[n] = Dispatch(g[n - 1])
  BY <1>6, <1>7 DEF ReadToken
<1>9. g[n].line = << >> /\ g[n].data = << >>
  BY <1>5, <1>7, <1>8 DEF Dispatch, Parser
<1> QED BY <1>2, <1>3, <1>9 DEF tokens

\* A data field of one token.
LEMMA DataInField ==
    ASSUME NEW T, "da" \in T, "ta:" \in T, NEW line \in Seq(T), NEW x \in T,
           Len(line) = 3, line[1] = "da", line[2] = "ta:", line[3] = x
    PROVE  DataIn(line) = <<<<x>>>>
<1>1. Field \in Seq(T) /\ Len(Field) = 2 /\ Field[1] = "da" /\ Field[2] = "ta:"
  BY PairTyped DEF Field
<1>2. IsPrefix(Field, line)
  <2>1. /\ SubSeq(Field, 1, 2) \in Seq(T) /\ Len(SubSeq(Field, 1, 2)) = 2
        /\ \A i \in 1 .. 2 : SubSeq(Field, 1, 2)[i] = Field[1 + i - 1]
    <3>1. \A i \in 1 .. 2 : Field[i] \in T
      BY <1>1, ElementOfSeq
    <3> QED BY <3>1, SubSeqProperties
  <2>2. /\ SubSeq(line, 1, 2) \in Seq(T) /\ Len(SubSeq(line, 1, 2)) = 2
        /\ \A i \in 1 .. 2 : SubSeq(line, 1, 2)[i] = line[1 + i - 1]
    <3>1. \A i \in 1 .. 2 : line[i] \in T
      BY ElementOfSeq
    <3> QED BY <3>1, SubSeqProperties
  <2>3. \A i \in 1 .. 2 : Field[1 + i - 1] = line[1 + i - 1]
    <3>1. \A i \in 1 .. 2 : 1 + i - 1 = 1 \/ 1 + i - 1 = 2
      OBVIOUS
    <3> QED BY <1>1, <3>1
  <2>4. SubSeq(Field, 1, 2) = SubSeq(line, 1, 2)
    BY <2>1, <2>2, <2>3, SeqEqual
  <2> QED BY <1>1, <2>4 DEF IsPrefix
<1>3. SubSeq(line, 3, 3) = <<x>>
  <2>1. /\ SubSeq(line, 3, 3) \in Seq(T) /\ Len(SubSeq(line, 3, 3)) = 1
        /\ SubSeq(line, 3, 3)[1] = line[3]
    <3>1. \A i \in 3 .. 3 : line[i] \in T
      BY ElementOfSeq
    <3>2. /\ SubSeq(line, 3, 3) \in Seq(T)
          /\ Len(SubSeq(line, 3, 3)) = IF 3 <= 3 THEN 3 - 3 + 1 ELSE 0
          /\ \A i \in 1 .. 3 - 3 + 1 : SubSeq(line, 3, 3)[i] = line[3 + i - 1]
      BY <3>1, SubSeqProperties
    <3> QED BY <3>2
  <2>2. <<x>> \in Seq(T) /\ Len(<<x>>) = 1 /\ <<x>>[1] = x
    OBVIOUS
  <2>3. \A i \in 1 .. 1 : i = 1
    OBVIOUS
  <2>4. \A i \in 1 .. Len(SubSeq(line, 3, 3)) : SubSeq(line, 3, 3)[i] = <<x>>[i]
    BY <2>1, <2>2, <2>3
  <2> QED BY <2>1, <2>2, <2>4, SeqEqual
<1> QED BY <1>2, <1>3 DEF DataIn

\* The one reader with these fields.
Reader(l, d, e) == [line : {l}, data : {d}, events : {e}]

LEMMA OneReader ==
    ASSUME NEW l, NEW d, NEW e, NEW q \in Reader(l, d, e), NEW r \in Reader(l, d, e)
    PROVE  q = r
<1>1. q.line = r.line /\ q.data = r.data /\ q.events = r.events
  BY DEF Reader
<1>2. /\ q = [line |-> q.line, data |-> q.data, events |-> q.events]
      /\ r = [line |-> r.line, data |-> r.data, events |-> r.events]
  BY DEF Reader
<1> QED BY <1>1, <1>2

\* Between events, a write of one token is one event: that token.
LEMMA OwnEvent ==
    ASSUME NEW T, "da" \in T, "ta:" \in T, "\n" \in T,
           NEW x \in T, x # "\n", NEW p \in Parser(T), p.line = << >>, p.data = << >>
    PROVE  Parse(p, Framed(<<x>>)) = [p EXCEPT !.events = Append(@, <<<<x>>>>)]
<1> DEFINE tokens == Framed(<<x>>)
           n == Len(tokens)
<1>0. <<x>> \in Seq(T) /\ Len(<<x>>) = 1 /\ <<x>>[1] = x
  OBVIOUS
<1>1. /\ n = 5 /\ tokens[1] = "da" /\ tokens[2] = "ta:" /\ tokens[3] = x
      /\ tokens[4] = "\n" /\ tokens[5] = "\n"
  <2> DEFINE chunk == <<x>>
  <2>1. chunk \in Seq(T) /\ Len(chunk) = 1 /\ chunk[1] = x
    BY <1>0
  <2> HIDE DEF chunk
  <2>2. /\ Len(Framed(chunk)) = 1 + 4
        /\ Framed(chunk)[1] = "da" /\ Framed(chunk)[2] = "ta:"
        /\ \A i \in 1 .. 1 : Framed(chunk)[i + 2] = chunk[i]
        /\ Framed(chunk)[1 + 3] = "\n"
        /\ Framed(chunk)[1 + 4] = "\n"
    <3> DEFINE k == Len(chunk)
    <3>1. /\ Len(Framed(chunk)) = k + 4
          /\ Framed(chunk)[1] = "da" /\ Framed(chunk)[2] = "ta:"
          /\ \A i \in 1 .. k : Framed(chunk)[i + 2] = chunk[i]
          /\ Framed(chunk)[k + 3] = "\n"
          /\ Framed(chunk)[k + 4] = "\n"
      <4>1. chunk \in Seq(T)
        BY <2>1
      <4> QED BY <4>1, FramedTokens
    <3>2. k = 1
      BY <2>1
    <3> HIDE DEF k
    <3> QED BY <3>1, <3>2
  <2>3. Framed(chunk)[3] = x
    <3>1. 1 \in 1 .. 1 /\ 1 + 2 = 3
      OBVIOUS
    <3> QED BY <2>1, <2>2, <3>1
  <2>4. /\ Len(Framed(chunk)) = 5 /\ Framed(chunk)[4] = "\n" /\ Framed(chunk)[5] = "\n"
    BY <2>2
  <2> QED BY <2>2, <2>3, <2>4 DEF chunk
<1>2. PICK g : /\ g[0] = p /\ Parse(p, tokens) = g[n]
               /\ \A i \in 1 .. n : g[i] = ReadToken(g[i - 1], tokens[i])
  <2>1. n \in Nat
    BY <1>1
  <2> QED BY <2>1, ParseReads
<1> HIDE DEF tokens, n
<1>3. /\ g[1] = ReadToken(p, "da") /\ g[2] = ReadToken(g[1], "ta:")
      /\ g[3] = ReadToken(g[2], x)
      /\ g[4] = ReadToken(g[3], "\n") /\ g[5] = ReadToken(g[4], "\n")
  BY <1>1, <1>2
<1>4. p \in Reader(<< >>, << >>, p.events)
  BY DEF Parser, Reader
<1> DEFINE l1 == Append(<< >>, "da")
           l2 == Append(l1, "ta:")
           l3 == Append(l2, x)
<1>5. /\ l1 \in Seq(T) /\ Len(l1) = 1 /\ l1[1] = "da"
  <2>1. << >> \in Seq(T) /\ Len(<< >>) = 0
    OBVIOUS
  <2> QED BY <2>1, AppendProperties
<1> HIDE DEF l1
<1>6. /\ l2 \in Seq(T) /\ Len(l2) = 2 /\ l2[1] = "da" /\ l2[2] = "ta:"
  <2>1. l1 \in Seq(T)
    BY <1>5
  <2>2. /\ l2 \in Seq(T) /\ Len(l2) = Len(l1) + 1 /\ l2[Len(l1) + 1] = "ta:"
        /\ \A i \in 1 .. Len(l1) : l2[i] = l1[i]
    BY <2>1, AppendProperties
  <2> QED BY <1>5, <2>2
<1> HIDE DEF l2
<1>7. /\ l3 \in Seq(T) /\ l3 # << >> /\ Len(l3) = 3 /\ l3[1] = "da" /\ l3[2] = "ta:" /\ l3[3] = x
  <2>1. l2 \in Seq(T)
    BY <1>6
  <2>2. /\ l3 \in Seq(T) /\ l3 # << >> /\ Len(l3) = Len(l2) + 1 /\ l3[Len(l2) + 1] = x
        /\ \A i \in 1 .. Len(l2) : l3[i] = l2[i]
    BY <2>1, AppendProperties
  <2>3. 1 \in 1 .. Len(l2) /\ 2 \in 1 .. Len(l2)
    BY <1>6
  <2> QED BY <1>6, <2>2, <2>3
<1> HIDE DEF l3
<1>8. g[1] \in Reader(l1, << >>, p.events)
  <2>1. g[1] = [p EXCEPT !.line = Append(@, "da")]
    BY <1>3 DEF ReadToken
  <2>2. g[1] = [p EXCEPT !.line = l1]
    BY <2>1 DEF l1
  <2> QED BY <1>4, <2>2 DEF Reader
<1>9. g[2] \in Reader(l2, << >>, p.events)
  <2>1. g[2] = [g[1] EXCEPT !.line = Append(@, "ta:")]
    BY <1>3 DEF ReadToken
  <2>2. g[2] = [g[1] EXCEPT !.line = l2]
    BY <1>8, <2>1 DEF l2, Reader
  <2> QED BY <1>8, <2>2 DEF Reader
<1>10. g[3] \in Reader(l3, << >>, p.events)
  <2>1. g[3] = [g[2] EXCEPT !.line = Append(@, x)]
    BY <1>3 DEF ReadToken
  <2>2. g[3] = [g[2] EXCEPT !.line = l3]
    BY <1>9, <2>1 DEF l3, Reader
  <2> QED BY <1>9, <2>2 DEF Reader
<1> DEFINE d == <<<<x>>>>
<1>11. DataIn(l3) = d
  BY <1>7, DataInField
<1>12. << >> \o d = d /\ d # << >>
  OBVIOUS
<1> HIDE DEF d
<1>13. g[4] \in Reader(<< >>, d, p.events)
  <2>1. g[3].line = l3 /\ g[3].data = << >>
    BY <1>10 DEF Reader
  <2>2. g[4] = EndOfLine(g[3])
    BY <1>3, <1>7, <2>1 DEF ReadToken
  <2>3. EndOfLine(g[3]) = [g[3] EXCEPT !.data = << >> \o d, !.line = << >>]
    BY <1>11, <2>1 DEF EndOfLine
  <2>4. g[4] = [g[3] EXCEPT !.data = d, !.line = << >>]
    BY <1>12, <2>2, <2>3
  <2> QED BY <1>10, <2>4 DEF Reader
<1>14. g[5] \in Reader(<< >>, << >>, Append(p.events, d))
  <2>1. g[4].line = << >> /\ g[4].data = d /\ g[4].events = p.events
    BY <1>13 DEF Reader
  <2>2. g[5] = Dispatch(g[4])
    BY <1>3, <2>1 DEF ReadToken
  <2>3. g[5] = [g[4] EXCEPT !.data = << >>, !.events = Append(p.events, d)]
    BY <1>12, <2>1, <2>2 DEF Dispatch
  <2> QED BY <1>13, <2>3 DEF Reader
<1>15. [p EXCEPT !.events = Append(@, d)] \in Reader(<< >>, << >>, Append(p.events, d))
  BY <1>4 DEF Reader
<1>16. [p EXCEPT !.events = Append(@, d)] = g[5]
  BY <1>14, <1>15, OneReader
<1> QED BY <1>1, <1>2, <1>16 DEF tokens, n, d

-----------------------------------------------------------------------------
(* The gateway: what every phase of a request implies.                     *)

\* How far a request has come, whoever answers it.
Progress(r) ==
    /\ req[r].phase \in {"new", "awaiting"} => req[r].status = 0
    /\ req[r].phase \in {"accepted", "streaming", "closing", "mocking"} => req[r].status = 200
    /\ req[r].phase \in {"new", "accepted", "mocking"} => req[r].calls = 0
    /\ req[r].phase \in {"awaiting", "streaming"} => req[r].calls = 1
    /\ req[r].phase \in {"new", "awaiting", "accepted"} =>
         req[r].reader = NewParser /\ req[r].arrived = 0
    /\ req[r].phase \in {"awaiting", "accepted", "streaming", "closing"} => ~ Mocked(r)
    /\ req[r].phase = "mocking" => Mocked(r)

\* What RepliesExplained says of one request.
Explained(r) ==
    /\ req[r].calls > 0 =>
         ~ Mocked(r) /\ req[r].provider = DirectProvider(registry, req[r].model)
    /\ req[r].status = 404 =>
         registry.providers = << >> /\ req[r].model \notin Listed(registry) /\ req[r].calls = 0
    /\ req[r].status = 502 => Resolved(r) = "routed" \/ req[r].calls > 0
    /\ req[r].status = 500 => Mocked(r) /\ req[r].endpoint = "reranking"
    /\ req[r].status = 200 /\ ~ Streamed(r) => Mocked(r) \/ req[r].calls > 0

\* After an error, nothing but the [DONE] that closes the stream.
Closed(ev) ==
    \A i \in 1 .. Len(ev) : ev[i] = ErrorEvent =>
        i = Len(ev) \/ (i + 1 = Len(ev) /\ ev[i + 1] = DoneEvent)

\* An error, if any, is the last thing that was sent.
Closable(ev) == \A i \in 1 .. Len(ev) : ev[i] = ErrorEvent => i = Len(ev)

EndsWithDone(ev) == Len(ev) > 0 /\ ev[Len(ev)] = DoneEvent

\* What a reader has whose stream the gateway frames: of an upstream, nothing
\* that looks like an event of the gateway's own.
ReaderInv(r) ==
    /\ req[r].reader.line = << >> /\ req[r].reader.data = << >>
    /\ req[r].phase = "streaming" => req[r].reader \in Parser(UpstreamToken)
    /\ req[r].phase = "closing" => Closable(req[r].reader.events)
    /\ Closed(req[r].reader.events)
    /\ req[r].phase = "answered" /\ Streamed(r) => EndsWithDone(req[r].reader.events)

Steady(r) ==
    Progress(r) /\ Explained(r) /\ (~ Mocked(r) => ReaderInv(r))

GatewayInv == GatewayTypeOK /\ \A r \in Requests : Steady(r)

\* A step of one request leaves the others as they are.
LEMMA OneMoves ==
    ASSUME GatewayInv, NEW r \in Requests, UNCHANGED <<registry, mockMode>>,
           req' \in [Requests -> ReqRecord], \A s \in Requests \ {r} : req'[s] = req[s],
           req'[r].arrived <= Len(req'[r].body), broken' \in [Models -> Nat], Steady(r)'
    PROVE  GatewayInv'
<1>1. GatewayTypeOK'
  BY DEF GatewayInv, GatewayTypeOK
<1>2. ASSUME NEW s \in Requests, s # r PROVE Steady(s)'
  <2>1. Steady(s) /\ req'[s] = req[s] /\ registry' = registry /\ mockMode' = mockMode
    BY <1>2 DEF GatewayInv
  <2>2. /\ Mocked(s)' <=> Mocked(s)
        /\ Streamed(s)' <=> Streamed(s)
        /\ Resolved(s)' = Resolved(s)
    BY <2>1 DEF Mocked, Streamed, Resolved
  <2>3. Progress(s)'
    BY <2>1, <2>2 DEF Steady, Progress
  <2>4. Explained(s)'
    BY <2>1, <2>2 DEF Steady, Explained
  <2>5. ~ Mocked(s)' => ReaderInv(s)'
    BY <2>1, <2>2 DEF Steady, ReaderInv
  <2> QED BY <2>3, <2>4, <2>5 DEF Steady
<1> QED BY <1>1, <1>2 DEF GatewayInv

\* What load() leaves behind at startup.
LEMMA RegistryAtStart ==
    ASSUME GatewayTypeOK, NEW m \in Models
    PROVE  /\ DirectProvider(registry, m) \in Models \union {"none"}
           /\ Resolution(registry, m) = "unknown" =>
                registry.providers = << >> /\ m \notin Listed(registry)
<1>1. PICK f \in Files : registry = Loaded(EmptyRegistry, f, 1)
  BY DEF GatewayTypeOK
<1>2. f.providers \in Seq(Models)
  BY GatewayAssumption
<1>3. /\ registry.providers = f.providers
      /\ registry.default = IF f.providers = << >> THEN NoProvider ELSE Built(f.providers[1], 1)
  BY <1>1 DEF Loaded, EmptyRegistry
<1>4. CASE f.providers = << >>
  <2>1. registry.default = NoProvider /\ registry.providers = << >>
    BY <1>3, <1>4
  <2>2. registry.default.provider = "none"
    BY <2>1 DEF NoProvider
  <2> QED BY <2>1, <2>2 DEF DirectProvider, Resolution, Listed
<1>5. CASE f.providers # << >>
  <2>1. f.providers[1] \in Models
    BY <1>2, <1>5
  <2>2. registry.default = Built(f.providers[1], 1)
    BY <1>3, <1>5
  <2>3. registry.default.provider = f.providers[1]
    BY <2>2 DEF Built
  <2>4. registry.default # NoProvider
    BY <2>2 DEF Built, NoProvider
  <2> QED BY <2>1, <2>3, <2>4 DEF DirectProvider, Resolution
<1> QED BY <1>4, <1>5

LEMMA ReqFields ==
    ASSUME GatewayTypeOK, NEW r \in Requests
    PROVE  /\ req[r] \in ReqRecord
           /\ req[r].phase \in Phase /\ req[r].endpoint \in Endpoints /\ req[r].model \in Models
           /\ req[r].status \in {0, 200, 404, 500, 502} /\ req[r].reader \in Parser(Token)
           /\ req[r].body \in Bodies \union {<< >>} /\ req[r].arrived \in Nat
           /\ req[r].provider \in Models \union {"none"} /\ req[r].breaker \in BreakerRecord
           /\ req[r].calls \in Nat
<1>1. req[r] \in ReqRecord
  BY DEF GatewayTypeOK
<1> QED BY <1>1 DEF ReqRecord, Parser

\* ReqRecord with names for the sets of its fields.
Status == {0, 200, 404, 500, 502}
Body == Bodies \union {<< >>}
Provider == Models \union {"none"}

Record ==
    [phase : Phase, endpoint : Endpoints, model : Models, status : Status,
     reader : Parser(Token), body : Body, arrived : Nat, provider : Provider,
     breaker : BreakerRecord, calls : Nat]

LEMMA RecordIsTyped == Record = ReqRecord
BY DEF Record, ReqRecord, Status, Body, Provider, Parser

LEMMA ReqTyped == ASSUME GatewayTypeOK PROVE req \in [Requests -> Record]
BY RecordIsTyped DEF GatewayTypeOK

LEMMA NewParserTyped ==
    /\ \A T : NewParser \in Parser(T)
    /\ NewParser.line = << >> /\ NewParser.data = << >> /\ NewParser.events = << >>
    /\ Closed(<< >>) /\ Closable(<< >>)
<1>1. \A T : NewParser \in Parser(T)
  BY DEF NewParser, Parser
<1>2. NewParser.line = << >> /\ NewParser.data = << >> /\ NewParser.events = << >>
  BY DEF NewParser
<1>3. Closed(<< >>) /\ Closable(<< >>)
  BY DEF Closed, Closable
<1> QED BY <1>1, <1>2, <1>3

\* A reply that is no stream.
LEMMA Answered ==
    ASSUME GatewayInv, NEW r \in Requests, NEW status \in {200, 404, 500, 502},
           req[r].phase \in {"new", "awaiting"}, Answer(r, status),
           UNCHANGED <<registry, mockMode, broken>>,
           status = 404 => Resolved(r) = "unknown" /\ req[r].phase = "new",
           status = 502 => Resolved(r) = "routed" \/ req[r].phase = "awaiting",
           status = 500 => Mocked(r) /\ req[r].endpoint = "reranking",
           status = 200 => Mocked(r) \/ req[r].phase = "awaiting"
    PROVE  GatewayInv'
<1>1. Steady(r) /\ GatewayTypeOK
  BY DEF GatewayInv
<1>2. req[r] \in Record
  BY <1>1, ReqFields, RecordIsTyped
<1>3. PICK q : q = [req[r] EXCEPT !.phase = "answered", !.status = status]
  OBVIOUS
<1>4. q \in Record
  <2>1. "answered" \in Phase /\ status \in Status
    BY DEF Phase, Status
  <2> QED BY <1>2, <1>3, <2>1 DEF Record
<1>5. /\ req' \in [Requests -> ReqRecord]
      /\ \A s \in Requests \ {r} : req'[s] = req[s]
      /\ req'[r] = q
  <2>1. req' = [req EXCEPT ![r] = q]
    BY <1>3 DEF Answer
  <2> QED BY <1>1, <1>4, <2>1, ReqTyped, RecordIsTyped
<1>6. /\ req'[r].phase = "answered" /\ req'[r].status = status
      /\ req'[r].endpoint = req[r].endpoint /\ req'[r].model = req[r].model
      /\ req'[r].reader = req[r].reader /\ req'[r].body = req[r].body
      /\ req'[r].arrived = req[r].arrived /\ req'[r].calls = req[r].calls
      /\ req'[r].provider = req[r].provider
  BY <1>2, <1>3, <1>5 DEF Record
<1>7. req[r].reader = NewParser
  BY <1>1 DEF Steady, Progress
<1>8. Mocked(r)' = Mocked(r) /\ Resolved(r)' = Resolved(r) /\ ~ Streamed(r)'
  BY <1>6, <1>7 DEF Mocked, Resolved, Streamed
<1>9. Progress(r)'
  BY <1>1, <1>6, <1>8 DEF Steady, Progress
<1>10. Explained(r)'
  <2>1. status = 404 => registry.providers = << >> /\ req[r].model \notin Listed(registry)
    BY <1>1, ReqFields, RegistryAtStart DEF Resolved
  <2>2. req[r].phase = "new" => req[r].calls = 0
    BY <1>1 DEF Steady, Progress
  <2>3. req[r].phase = "awaiting" => req[r].calls = 1
    BY <1>1 DEF Steady, Progress
  <2>4. req[r].calls > 0 =>
          ~ Mocked(r) /\ req[r].provider = DirectProvider(registry, req[r].model)
    BY <1>1 DEF Steady, Explained
  <2> QED BY <1>6, <1>8, <2>1, <2>2, <2>3, <2>4 DEF Explained
<1>11. ReaderInv(r)'
  <2>1. req'[r].reader = NewParser
    BY <1>6, <1>7
  <2>2. Closed(<< >>)
    BY DEF Closed
  <2> QED BY <1>6, <1>8, <2>1, <2>2, NewParserTyped DEF ReaderInv
<1>12. req'[r].arrived <= Len(req'[r].body) /\ broken' \in [Models -> Nat]
  BY <1>1, <1>6 DEF GatewayTypeOK
<1> QED BY <1>5, <1>9, <1>10, <1>11, <1>12, OneMoves DEF Steady

\* The tokens of the gateway's own events.
LEMMA Tokens ==
    /\ "da" \in UpstreamToken /\ "ta:" \in UpstreamToken /\ "\n" \in UpstreamToken
    /\ "[DONE]" \in UpstreamToken /\ "error" \notin UpstreamToken
    /\ UpstreamToken \subseteq Token /\ "error" \in Token /\ "mock" \in Token
<1>1. "error" \notin Content
  BY GatewayAssumption
<1> QED BY <1>1, FieldTokens DEF UpstreamToken, Token

\* What an upstream sends is among what a reader may get.
LEMMA UpstreamParser ==
    ASSUME NEW p \in Parser(UpstreamToken)
    PROVE  p \in Parser(Token)
<1>1. \A S, T : S \subseteq T => Seq(S) \subseteq Seq(T)
  <2> SUFFICES ASSUME NEW S, NEW T, S \subseteq T, NEW s \in Seq(S) PROVE s \in Seq(T)
    OBVIOUS
  <2>1. Len(s) \in Nat /\ s \in [1 .. Len(s) -> S]
    BY LenProperties
  <2>2. s \in [1 .. Len(s) -> T]
    BY <2>1
  <2> QED BY <2>1, <2>2, SeqDef
<1>2. /\ Seq(UpstreamToken) \subseteq Seq(Token)
      /\ Seq(Seq(UpstreamToken)) \subseteq Seq(Seq(Token))
      /\ Seq(Seq(Seq(UpstreamToken))) \subseteq Seq(Seq(Seq(Token)))
  BY <1>1, Tokens
<1> QED BY <1>2 DEF Parser

\* Of an upstream comes nothing like the gateway's error event.
LEMMA NoErrorUpstream ==
    ASSUME NEW p \in Parser(UpstreamToken)
    PROVE  \A i \in 1 .. Len(p.events) : p.events[i] # ErrorEvent
<1>1. p.events \in Seq(Seq(Seq(UpstreamToken)))
  BY DEF Parser
<1> SUFFICES ASSUME NEW i \in 1 .. Len(p.events), p.events[i] = ErrorEvent PROVE FALSE
  OBVIOUS
<1>2. ErrorEvent \in Seq(Seq(UpstreamToken))
  BY <1>1, ElementOfSeq
<1>3. Len(ErrorEvent) = 1 /\ ErrorEvent[1] = <<"error">>
  BY DEF ErrorEvent
<1>4. <<"error">> \in Seq(UpstreamToken)
  BY <1>2, <1>3, ElementOfSeq
<1>5. Len(<<"error">>) = 1 /\ <<"error">>[1] = "error"
  OBVIOUS
<1>6. "error" \in UpstreamToken
  BY <1>4, <1>5, ElementOfSeq
<1> QED BY <1>6, Tokens

LEMMA EventsDiffer == ErrorEvent # DoneEvent
<1>1. ErrorEvent[1] = <<"error">> /\ DoneEvent[1] = <<"[DONE]">>
  BY DEF ErrorEvent, DoneEvent
<1>2. <<"error">>[1] = "error" /\ <<"[DONE]">>[1] = "[DONE]" /\ "error" # "[DONE]"
  OBVIOUS
<1> QED BY <1>1, <1>2

LEMMA ErrorAppended ==
    ASSUME NEW T, NEW ev \in Seq(T), ErrorEvent \in T,
           \A i \in 1 .. Len(ev) : ev[i] # ErrorEvent
    PROVE  Closable(Append(ev, ErrorEvent)) /\ Closed(Append(ev, ErrorEvent))
<1> DEFINE new == Append(ev, ErrorEvent)
<1>1. /\ Len(new) = Len(ev) + 1 /\ Len(ev) \in Nat
      /\ \A i \in 1 .. Len(ev) : new[i] = ev[i]
  BY AppendProperties, LenProperties
<1> HIDE DEF new
<1>2. \A i \in 1 .. Len(new) : new[i] = ErrorEvent => i = Len(new)
  BY <1>1
<1> QED BY <1>2 DEF Closable, Closed, new

LEMMA DoneAppended ==
    ASSUME NEW T, NEW ev \in Seq(T), DoneEvent \in T, Closable(ev)
    PROVE  Closed(Append(ev, DoneEvent)) /\ EndsWithDone(Append(ev, DoneEvent))
<1> DEFINE new == Append(ev, DoneEvent)
<1>1. /\ Len(new) = Len(ev) + 1 /\ Len(ev) \in Nat /\ new[Len(ev) + 1] = DoneEvent
      /\ \A i \in 1 .. Len(ev) : new[i] = ev[i]
  BY AppendProperties, LenProperties
<1> HIDE DEF new
<1>2. \A i \in 1 .. Len(ev) : ev[i] = ErrorEvent => i = Len(ev)
  BY DEF Closable
<1>3. ASSUME NEW i \in 1 .. Len(new), new[i] = ErrorEvent
      PROVE  i + 1 = Len(new) /\ new[i + 1] = DoneEvent
  <2>1. i \in 1 .. Len(ev)
    BY <1>1, <1>3, EventsDiffer
  <2>2. i = Len(ev)
    BY <1>1, <1>2, <1>3, <2>1
  <2> QED BY <1>1, <2>2
<1>4. Closed(new)
  BY <1>3 DEF Closed
<1>5. EndsWithDone(new)
  BY <1>1 DEF EndsWithDone
<1> QED BY <1>4, <1>5 DEF new

\* The gateway's own writes, between events.
LEMMA OwnWrite ==
    ASSUME NEW p \in Parser(Token), p.line = << >>, p.data = << >>,
           NEW x \in {"error", "[DONE]"}
    PROVE  /\ Parse(p, Framed(<<x>>)) \in Parser(Token)
           /\ Parse(p, Framed(<<x>>)).line = << >> /\ Parse(p, Framed(<<x>>)).data = << >>
           /\ Parse(p, Framed(<<x>>)).events = Append(p.events, <<<<x>>>>)
           /\ p.events \in Seq(Seq(Seq(Token)))
           /\ <<<<x>>>> \in Seq(Seq(Token))
<1>1. x \in Token /\ x # "\n" /\ "da" \in Token /\ "ta:" \in Token /\ "\n" \in Token
  BY Tokens
<1>2. Parse(p, Framed(<<x>>)) = [p EXCEPT !.events = Append(@, <<<<x>>>>)]
  BY <1>1, OwnEvent
<1>3. p.events \in Seq(Seq(Seq(Token))) /\ <<<<x>>>> \in Seq(Seq(Token))
  <2>1. <<x>> \in Seq(Token)
    BY <1>1
  <2>2. <<<<x>>>> \in Seq(Seq(Token))
    BY <2>1
  <2> QED BY <2>2 DEF Parser
<1>4. Append(p.events, <<<<x>>>>) \in Seq(Seq(Seq(Token)))
  BY <1>3, AppendProperties
<1>5. /\ [p EXCEPT !.events = Append(@, <<<<x>>>>)] \in Parser(Token)
      /\ [p EXCEPT !.events = Append(@, <<<<x>>>>)].line = p.line
      /\ [p EXCEPT !.events = Append(@, <<<<x>>>>)].data = p.data
      /\ [p EXCEPT !.events = Append(@, <<<<x>>>>)].events = Append(p.events, <<<<x>>>>)
  BY <1>4 DEF Parser
<1> QED BY <1>2, <1>3, <1>5

-----------------------------------------------------------------------------
(* The gateway: each step keeps the invariant.                             *)

LEMMA MockAnsweredKeeps ==
    ASSUME GatewayInv, NEW r \in Requests, MockAnswered(r) PROVE GatewayInv'
BY Answered DEF MockAnswered

LEMMA MockRaisesKeeps ==
    ASSUME GatewayInv, NEW r \in Requests, MockRaises(r) PROVE GatewayInv'
BY Answered DEF MockRaises

LEMMA RefusedKeeps ==
    ASSUME GatewayInv, NEW r \in Requests, Refused(r) PROVE GatewayInv'
BY Answered DEF Refused

LEMMA RouteFailsKeeps ==
    ASSUME GatewayInv, NEW r \in Requests, RouteFails(r) PROVE GatewayInv'
BY Answered DEF RouteFails

LEMMA UpstreamAnswersKeeps ==
    ASSUME GatewayInv, NEW r \in Requests, UpstreamAnswers(r) PROVE GatewayInv'
BY Answered DEF UpstreamAnswers

LEMMA UpstreamFailsKeeps ==
    ASSUME GatewayInv, NEW r \in Requests, UpstreamFails(r) PROVE GatewayInv'
BY Answered DEF UpstreamFails

\* The record of a request whose client has just sent it.
LEMMA Sent ==
    ASSUME GatewayTypeOK, NEW r \in Requests, NEW phase \in Phase, NEW q,
           q = Sends(req[r], phase)
    PROVE  /\ q \in Record /\ q.phase = phase /\ q.calls = req[r].calls + 1
           /\ q.provider = DirectProvider(registry, req[r].model)
           /\ q.endpoint = req[r].endpoint /\ q.model = req[r].model
           /\ q.status = req[r].status /\ q.reader = req[r].reader
           /\ q.body = req[r].body /\ q.arrived = req[r].arrived
<1>1. req[r] \in Record /\ req[r].model \in Models /\ req[r].calls \in Nat
  BY ReqFields, RecordIsTyped
<1>2. DirectProvider(registry, req[r].model) \in Provider
  BY <1>1, RegistryAtStart DEF Provider
<1>3. Observe(NewBreaker, 0) \in BreakerRecord
  BY NewBreakerCalibrated, ObserveEffect
<1>4. req[r].calls + 1 \in Nat
  BY <1>1
<1>5. q = [req[r] EXCEPT !.phase = phase,
                         !.provider = DirectProvider(registry, req[r].model),
                         !.breaker = Observe(NewBreaker, 0),
                         !.calls = req[r].calls + 1]
  BY DEF Sends
<1> QED BY <1>1, <1>2, <1>3, <1>4, <1>5 DEF Record

LEMMA ForwardedKeeps ==
    ASSUME GatewayInv, NEW r \in Requests, Forwarded(r) PROVE GatewayInv'
<1>1. Steady(r) /\ GatewayTypeOK
  BY DEF GatewayInv
<1>2. /\ req[r].phase = "new" /\ ~ Mocked(r) /\ UNCHANGED <<registry, mockMode, broken>>
      /\ req' = [req EXCEPT ![r] = Sends(req[r], "awaiting")]
  BY DEF Forwarded
<1>3. PICK q : q = Sends(req[r], "awaiting")
  OBVIOUS
<1>4. /\ q \in Record /\ q.phase = "awaiting" /\ q.calls = req[r].calls + 1
      /\ q.provider = DirectProvider(registry, req[r].model)
      /\ q.endpoint = req[r].endpoint /\ q.model = req[r].model
      /\ q.status = req[r].status /\ q.reader = req[r].reader
      /\ q.body = req[r].body /\ q.arrived = req[r].arrived
  BY <1>1, <1>3, Sent DEF Phase
<1>5. /\ req' \in [Requests -> ReqRecord]
      /\ \A s \in Requests \ {r} : req'[s] = req[s]
      /\ req'[r] = q
  <2>1. req' = [req EXCEPT ![r] = q]
    BY <1>2, <1>3
  <2> QED BY <1>1, <1>4, <2>1, ReqTyped, RecordIsTyped
<1>6. /\ req[r].status = 0 /\ req[r].calls = 0
      /\ req[r].reader = NewParser /\ req[r].arrived = 0
  BY <1>1, <1>2 DEF Steady, Progress
<1>7. Mocked(r)' = Mocked(r)
  BY <1>2, <1>4, <1>5 DEF Mocked
<1>8. Progress(r)'
  BY <1>2, <1>4, <1>5, <1>6, <1>7 DEF Progress
<1>9. Explained(r)'
  BY <1>2, <1>4, <1>5, <1>6, <1>7 DEF Explained
<1>10. ReaderInv(r)'
  BY <1>4, <1>5, <1>6, NewParserTyped DEF ReaderInv
<1>11. req'[r].arrived <= Len(req'[r].body) /\ broken' \in [Models -> Nat]
  BY <1>1, <1>2, <1>4, <1>5 DEF GatewayTypeOK
<1> QED BY <1>2, <1>5, <1>8, <1>9, <1>10, <1>11, OneMoves DEF Steady

LEMMA StreamAcceptedKeeps ==
    ASSUME GatewayInv, NEW r \in Requests, StreamAccepted(r) PROVE GatewayInv'
<1>1. Steady(r) /\ GatewayTypeOK
  BY DEF GatewayInv
<1>2. req[r].phase = "new" /\ UNCHANGED <<registry, mockMode, broken>>
  BY DEF StreamAccepted
<1>3. PICK phase : phase = IF Mocked(r) THEN "mocking" ELSE "accepted"
  OBVIOUS
<1>4. PICK q : q = [req[r] EXCEPT !.phase = phase, !.status = 200]
  OBVIOUS
<1>5. req[r] \in Record
  BY <1>1, ReqFields, RecordIsTyped
<1>6. /\ q \in Record /\ q.phase = phase /\ q.status = 200 /\ q.calls = req[r].calls
      /\ q.endpoint = req[r].endpoint /\ q.reader = req[r].reader
      /\ q.body = req[r].body /\ q.arrived = req[r].arrived
  <2>1. phase \in Phase /\ 200 \in Status
    BY <1>3 DEF Phase, Status
  <2> QED BY <1>4, <1>5, <2>1 DEF Record
<1>7. /\ req' \in [Requests -> ReqRecord]
      /\ \A s \in Requests \ {r} : req'[s] = req[s]
      /\ req'[r] = q
  <2>1. req' = [req EXCEPT ![r] = q]
    BY <1>3, <1>4 DEF StreamAccepted
  <2> QED BY <1>1, <1>6, <2>1, ReqTyped, RecordIsTyped
<1>8. req[r].calls = 0 /\ req[r].reader = NewParser /\ req[r].arrived = 0
  BY <1>1, <1>2 DEF Steady, Progress
<1>9. Mocked(r)' = Mocked(r)
  BY <1>2, <1>6, <1>7 DEF Mocked
<1>10. Progress(r)'
  BY <1>3, <1>6, <1>7, <1>8, <1>9 DEF Progress
<1>11. Explained(r)'
  <2>1. Streamed(r)'
    BY <1>3, <1>6, <1>7 DEF Streamed
  <2> QED BY <1>6, <1>7, <1>8, <2>1 DEF Explained
<1>12. ~ Mocked(r)' => ReaderInv(r)'
  BY <1>3, <1>6, <1>7, <1>8, <1>9, NewParserTyped DEF ReaderInv
<1>13. req'[r].arrived <= Len(req'[r].body) /\ broken' \in [Models -> Nat]
  BY <1>1, <1>2, <1>6, <1>7 DEF GatewayTypeOK
<1> QED BY <1>2, <1>7, <1>10, <1>11, <1>12, <1>13, OneMoves DEF Steady

\* A step in the middle or at the end of a stream: the request is as it was but
\* for its phase, its reader, what has arrived, and the breaker.
LEMMA StreamMoves ==
    ASSUME GatewayInv, NEW r \in Requests, NEW q \in Record,
           UNCHANGED <<registry, mockMode>>, broken' \in [Models -> Nat],
           req' = [req EXCEPT ![r] = q],
           req[r].phase \in {"accepted", "streaming", "closing", "mocking"},
           q.endpoint = req[r].endpoint, q.model = req[r].model,
           q.status = req[r].status, q.calls = req[r].calls, q.body = req[r].body,
           q.provider = req[r].provider,
           q.arrived <= Len(q.body),
           q.phase \in {"streaming", "closing", "mocking", "answered", "abandoned"},
           q.phase \in {"streaming", "mocking"} => q.phase = req[r].phase,
           q.phase = "closing" => req[r].phase # "mocking",
           q.phase = "answered" => req[r].phase = "mocking" \/ EndsWithDone(q.reader.events),
           q.phase = "streaming" => q.reader \in Parser(UpstreamToken),
           q.phase = "closing" => Closable(q.reader.events),
           ~ Mocked(r) =>
             q.reader.line = << >> /\ q.reader.data = << >> /\ Closed(q.reader.events)
    PROVE  GatewayInv'
<1>1. Steady(r) /\ GatewayTypeOK
  BY DEF GatewayInv
<1>2. /\ req' \in [Requests -> ReqRecord]
      /\ \A s \in Requests \ {r} : req'[s] = req[s]
      /\ req'[r] = q
  BY <1>1, ReqTyped, RecordIsTyped
<1>3. Mocked(r)' = Mocked(r)
  BY <1>2 DEF Mocked
<1>4. req[r].phase = "mocking" <=> Mocked(r)
  BY <1>1 DEF Steady, Progress
<1>5. Progress(r)'
  BY <1>1, <1>2, <1>3, <1>4 DEF Steady, Progress
<1>6. Explained(r)'
  <2>1. q.status = 200
    BY <1>1 DEF Steady, Progress
  <2>2. q.calls > 0 => ~ Mocked(r) /\ q.provider = DirectProvider(registry, q.model)
    BY <1>1 DEF Steady, Explained
  <2>3. registry' = registry
    OBVIOUS
  <2>4. Streamed(r)' \/ Mocked(r)'
    <3>1. CASE q.phase # "answered"
      BY <1>2, <3>1 DEF Streamed
    <3>2. CASE q.phase = "answered" /\ EndsWithDone(q.reader.events)
      <4>1. Len(<< >>) = 0
        OBVIOUS
      <4>2. q.reader.events # << >>
        BY <3>2, <4>1 DEF EndsWithDone
      <4>3. q.reader # NewParser
        BY <4>2, NewParserTyped
      <4> QED BY <1>2, <4>3 DEF Streamed
    <3> QED BY <1>3, <1>4, <3>1, <3>2
  <2> QED BY <1>2, <1>3, <2>1, <2>2, <2>3, <2>4 DEF Explained
<1>7. ~ Mocked(r)' => ReaderInv(r)'
  BY <1>2, <1>3, <1>4 DEF ReaderInv
<1> QED BY <1>2, <1>5, <1>6, <1>7, OneMoves DEF Steady

LEMMA BodyFailsKeeps ==
    ASSUME GatewayInv, NEW r \in Requests, BodyFails(r) PROVE GatewayInv'
<1>1. Steady(r) /\ GatewayTypeOK
  BY DEF GatewayInv
<1>2. req[r].phase = "accepted" /\ UNCHANGED <<registry, mockMode, broken>>
  BY DEF BodyFails
<1>3. req[r] \in Record /\ req[r].reader = NewParser /\ req[r].arrived <= Len(req[r].body)
  BY <1>1, <1>2, ReqFields, RecordIsTyped DEF Steady, Progress, GatewayTypeOK
<1>4. PICK w : w = Parse(req[r].reader, Framed(<<"error">>))
  OBVIOUS
<1>5. /\ w \in Parser(Token) /\ w.line = << >> /\ w.data = << >>
      /\ Closable(w.events) /\ Closed(w.events)
  <2>1. /\ w \in Parser(Token) /\ w.line = << >> /\ w.data = << >>
        /\ w.events = Append(<< >>, <<<<"error">>>>)
        /\ << >> \in Seq(Seq(Seq(Token))) /\ <<<<"error">>>> \in Seq(Seq(Token))
    BY <1>3, <1>4, NewParserTyped, OwnWrite
  <2>2. \A i \in 1 .. Len(<< >>) : << >>[i] # ErrorEvent
    OBVIOUS
  <2> QED BY <2>1, <2>2, ErrorAppended DEF ErrorEvent
<1>6. PICK q : q = [req[r] EXCEPT !.phase = "closing", !.reader = w]
  OBVIOUS
<1>7. /\ q \in Record /\ q.phase = "closing" /\ q.reader = w
      /\ q.endpoint = req[r].endpoint /\ q.model = req[r].model
      /\ q.status = req[r].status /\ q.calls = req[r].calls
      /\ q.provider = req[r].provider /\ q.body = req[r].body /\ q.arrived = req[r].arrived
  <2>1. "closing" \in Phase
    BY DEF Phase
  <2> QED BY <1>3, <1>5, <1>6, <2>1 DEF Record
<1>8. req' = [req EXCEPT ![r] = q]
  BY <1>4, <1>6 DEF BodyFails, Writes
<1>9. broken' \in [Models -> Nat]
  BY <1>1, <1>2 DEF GatewayTypeOK
<1> QED BY <1>2, <1>3, <1>5, <1>7, <1>8, <1>9, StreamMoves

LEMMA BodyStartsKeeps ==
    ASSUME GatewayInv, NEW r \in Requests, BodyStarts(r) PROVE GatewayInv'
<1>1. Steady(r) /\ GatewayTypeOK
  BY DEF GatewayInv
<1>2. req[r].phase = "accepted" /\ UNCHANGED <<registry, mockMode, broken>>
  BY DEF BodyStarts
<1>3. PICK body \in Bodies :
        req' = [req EXCEPT ![r] = [Sends(req[r], "streaming") EXCEPT !.body = body]]
  BY DEF BodyStarts
<1>4. PICK p : p = Sends(req[r], "streaming")
  OBVIOUS
<1>5. /\ p \in Record /\ p.phase = "streaming" /\ p.calls = req[r].calls + 1
      /\ p.provider = DirectProvider(registry, req[r].model)
      /\ p.endpoint = req[r].endpoint /\ p.model = req[r].model
      /\ p.status = req[r].status /\ p.reader = req[r].reader
      /\ p.arrived = req[r].arrived
  BY <1>1, <1>4, Sent DEF Phase
<1>6. PICK q : q = [p EXCEPT !.body = body]
  OBVIOUS
<1>7. /\ q \in Record /\ q.body = body /\ q.phase = p.phase /\ q.calls = p.calls
      /\ q.provider = p.provider
      /\ q.endpoint = p.endpoint /\ q.model = p.model
      /\ q.status = p.status /\ q.reader = p.reader /\ q.arrived = p.arrived
  <2>1. body \in Body
    BY DEF Body
  <2> QED BY <1>5, <1>6, <2>1 DEF Record
<1>8. /\ req' \in [Requests -> ReqRecord]
      /\ \A s \in Requests \ {r} : req'[s] = req[s]
      /\ req'[r] = q
  <2>1. req' = [req EXCEPT ![r] = q]
    BY <1>3, <1>4, <1>6
  <2> QED BY <1>1, <1>7, <2>1, ReqTyped, RecordIsTyped
<1>9. /\ req[r].status = 200 /\ req[r].calls = 0 /\ ~ Mocked(r)
      /\ req[r].reader = NewParser /\ req[r].arrived = 0
  BY <1>1, <1>2 DEF Steady, Progress
<1>10. ~ Mocked(r)'
  BY <1>2, <1>5, <1>7, <1>8, <1>9 DEF Mocked
<1>11. Progress(r)'
  BY <1>5, <1>7, <1>8, <1>9, <1>10 DEF Progress
<1>12. Explained(r)'
  BY <1>2, <1>5, <1>7, <1>8, <1>9, <1>10 DEF Explained
<1>13. ReaderInv(r)'
  <2>1. req'[r].reader = NewParser /\ req'[r].phase = "streaming"
    BY <1>5, <1>7, <1>8, <1>9
  <2> QED BY <2>1, NewParserTyped DEF ReaderInv
<1>14. req'[r].arrived <= Len(req'[r].body) /\ broken' \in [Models -> Nat]
  <2>1. Len(body) \in Nat
    BY GatewayAssumption, LenProperties
  <2> QED BY <1>1, <1>2, <1>5, <1>7, <1>8, <1>9, <2>1 DEF GatewayTypeOK
<1> QED BY <1>2, <1>8, <1>11, <1>12, <1>13, <1>14, OneMoves DEF Steady

LEMMA ChunkArrivesKeeps ==
    ASSUME GatewayInv, NEW r \in Requests, ChunkArrives(r) PROVE GatewayInv'
<1>1. Steady(r) /\ GatewayTypeOK
  BY DEF GatewayInv
<1>2. req[r].phase = "streaming" /\ UNCHANGED <<registry, mockMode, broken>>
  BY DEF ChunkArrives
<1>3. /\ req[r] \in Record /\ req[r].arrived \in Nat /\ req[r].body \in Bodies \union {<< >>}
      /\ ~ Mocked(r) /\ req[r].reader \in Parser(UpstreamToken)
  BY <1>1, <1>2, ReqFields, RecordIsTyped DEF Steady, Progress, ReaderInv
<1>4. req[r].body \in Seq(UpstreamToken)
  <2>1. << >> \in Seq(UpstreamToken)
    OBVIOUS
  <2>2. \A body \in Bodies : body \in Seq(UpstreamToken)
    BY GatewayAssumption
  <2> QED BY <1>3, <2>1, <2>2
<1>5. PICK n \in req[r].arrived + 1 .. Len(req[r].body) :
        req' = [req EXCEPT ![r] =
                 [req[r] EXCEPT
                    !.arrived = n,
                    !.reader = Parse(@, Framed(SubSeq(req[r].body, req[r].arrived + 1, n)))]]
  BY DEF ChunkArrives
<1>6. PICK chunk : chunk = SubSeq(req[r].body, req[r].arrived + 1, n)
  OBVIOUS
<1>7. n \in Nat /\ n <= Len(req[r].body)
  BY <1>3, <1>4, <1>5, LenProperties
<1>8. chunk \in Seq(UpstreamToken)
  <2>1. \A i \in req[r].arrived + 1 .. n : req[r].body[i] \in UpstreamToken
    BY <1>3, <1>4, <1>7, ElementOfSeq
  <2> QED BY <1>3, <1>6, <1>7, <2>1, SubSeqProperties
<1>9. PICK w : w = Parse(req[r].reader, Framed(chunk))
  OBVIOUS
<1>10. w \in Parser(UpstreamToken) /\ w.line = << >> /\ w.data = << >>
  BY <1>3, <1>8, <1>9, FramedParsed, Tokens
<1>11. w \in Parser(Token) /\ Closed(w.events)
  BY <1>10, UpstreamParser, NoErrorUpstream DEF Closed
<1>12. PICK q : q = [req[r] EXCEPT !.arrived = n, !.reader = w]
  OBVIOUS
<1>13. /\ q \in Record /\ q.phase = "streaming" /\ q.reader = w
       /\ q.endpoint = req[r].endpoint /\ q.model = req[r].model
       /\ q.status = req[r].status /\ q.calls = req[r].calls
       /\ q.provider = req[r].provider /\ q.body = req[r].body /\ q.arrived = n
  BY <1>2, <1>3, <1>7, <1>11, <1>12 DEF Record
<1>14. req' = [req EXCEPT ![r] = q]
  BY <1>5, <1>6, <1>9, <1>12
<1>15. broken' \in [Models -> Nat]
  BY <1>1, <1>2 DEF GatewayTypeOK
<1> QED BY <1>2, <1>7, <1>10, <1>11, <1>13, <1>14, <1>15, StreamMoves

LEMMA UpstreamEndsKeeps ==
    ASSUME GatewayInv, NEW r \in Requests, UpstreamEnds(r) PROVE GatewayInv'
<1>1. Steady(r) /\ GatewayTypeOK
  BY DEF GatewayInv
<1>2. req[r].phase = "streaming" /\ UNCHANGED <<registry, mockMode>>
  BY DEF UpstreamEnds
<1>3. /\ req[r] \in Record /\ req[r].breaker \in BreakerRecord
      /\ req[r].arrived <= Len(req[r].body)
      /\ ~ Mocked(r) /\ ReaderInv(r) /\ req[r].reader \in Parser(UpstreamToken)
  BY <1>1, <1>2, ReqFields, RecordIsTyped DEF Steady, Progress, ReaderInv, GatewayTypeOK
<1>4. Closable(req[r].reader.events) /\ Closed(req[r].reader.events)
  BY <1>3, NoErrorUpstream DEF Closable, Closed
<1>5. PICK q : q = [req[r] EXCEPT !.phase = "closing", !.breaker = RecordSuccess(req[r].breaker)]
  OBVIOUS
<1>6. /\ q \in Record /\ q.phase = "closing" /\ q.reader = req[r].reader
      /\ q.endpoint = req[r].endpoint /\ q.model = req[r].model
      /\ q.status = req[r].status /\ q.calls = req[r].calls
      /\ q.provider = req[r].provider /\ q.body = req[r].body /\ q.arrived = req[r].arrived
  <2>1. "closing" \in Phase
    BY DEF Phase
  <2>2. RecordSuccess(req[r].breaker) \in BreakerRecord
    BY <1>3, RecordSuccessEffect
  <2> QED BY <1>3, <1>5, <2>1, <2>2 DEF Record
<1>7. req' = [req EXCEPT ![r] = q]
  BY <1>5 DEF UpstreamEnds
<1>8. broken' \in [Models -> Nat]
  BY <1>1 DEF UpstreamEnds, GatewayTypeOK
<1>9. req[r].reader.line = << >> /\ req[r].reader.data = << >>
  BY <1>3 DEF ReaderInv
<1> QED BY <1>2, <1>3, <1>4, <1>6, <1>7, <1>8, <1>9, StreamMoves

LEMMA UpstreamBreaksKeeps ==
    ASSUME GatewayInv, NEW r \in Requests, UpstreamBreaks(r) PROVE GatewayInv'
<1>1. Steady(r) /\ GatewayTypeOK
  BY DEF GatewayInv
<1>2. req[r].phase = "streaming" /\ UNCHANGED <<registry, mockMode>>
  BY DEF UpstreamBreaks
<1>3. /\ req[r] \in Record /\ req[r].breaker \in BreakerRecord
      /\ req[r].arrived <= Len(req[r].body)
      /\ ~ Mocked(r) /\ ReaderInv(r) /\ req[r].reader \in Parser(UpstreamToken)
  BY <1>1, <1>2, ReqFields, RecordIsTyped DEF Steady, Progress, ReaderInv, GatewayTypeOK
<1>4. PICK w : w = Parse(req[r].reader, Framed(<<"error">>))
  OBVIOUS
<1>5. /\ w \in Parser(Token) /\ w.line = << >> /\ w.data = << >>
      /\ Closable(w.events) /\ Closed(w.events)
  <2>1. /\ req[r].reader \in Parser(Token)
        /\ req[r].reader.line = << >> /\ req[r].reader.data = << >>
    BY <1>3, UpstreamParser DEF ReaderInv
  <2>2. /\ w \in Parser(Token) /\ w.line = << >> /\ w.data = << >>
        /\ w.events = Append(req[r].reader.events, ErrorEvent)
        /\ req[r].reader.events \in Seq(Seq(Seq(Token))) /\ ErrorEvent \in Seq(Seq(Token))
    BY <1>4, <2>1, OwnWrite DEF ErrorEvent
  <2>3. \A i \in 1 .. Len(req[r].reader.events) : req[r].reader.events[i] # ErrorEvent
    BY <1>3, NoErrorUpstream
  <2> QED BY <2>2, <2>3, ErrorAppended
<1>6. PICK q : q = [req[r] EXCEPT !.phase = "closing", !.reader = w,
                                  !.breaker = RecordFailure(req[r].breaker, 0)]
  OBVIOUS
<1>7. /\ q \in Record /\ q.phase = "closing" /\ q.reader = w
      /\ q.endpoint = req[r].endpoint /\ q.model = req[r].model
      /\ q.status = req[r].status /\ q.calls = req[r].calls
      /\ q.provider = req[r].provider /\ q.body = req[r].body /\ q.arrived = req[r].arrived
  <2>1. "closing" \in Phase
    BY DEF Phase
  <2>2. RecordFailure(req[r].breaker, 0) \in BreakerRecord
    BY <1>3, RecordFailureEffect
  <2> QED BY <1>3, <1>5, <1>6, <2>1, <2>2 DEF Record
<1>8. req' = [req EXCEPT ![r] = q]
  BY <1>4, <1>6 DEF UpstreamBreaks
<1>9. broken' \in [Models -> Nat]
  <2>1. PICK p : p = req[r].provider
    OBVIOUS
  <2>2. broken \in [Models -> Nat] /\ broken' = [broken EXCEPT ![p] = broken[p] + 1]
    BY <1>1, <2>1 DEF UpstreamBreaks, GatewayTypeOK
  <2>3. \A m \in Models : broken[m] + 1 \in Nat
    BY <2>2
  <2> QED BY <2>2, <2>3
<1> QED BY <1>2, <1>3, <1>5, <1>7, <1>8, <1>9, StreamMoves

LEMMA BodyClosesKeeps ==
    ASSUME GatewayInv, NEW r \in Requests, BodyCloses(r) PROVE GatewayInv'
<1>1. Steady(r) /\ GatewayTypeOK
  BY DEF GatewayInv
<1>2. req[r].phase = "closing" /\ UNCHANGED <<registry, mockMode, broken>>
  BY DEF BodyCloses
<1>3. /\ req[r] \in Record /\ req[r].reader \in Parser(Token)
      /\ req[r].arrived <= Len(req[r].body)
      /\ req[r].reader.line = << >> /\ req[r].reader.data = << >>
      /\ Closable(req[r].reader.events)
  BY <1>1, <1>2, ReqFields, RecordIsTyped DEF Steady, Progress, ReaderInv, GatewayTypeOK
<1>4. PICK w : w = Parse(req[r].reader, Framed(<<"[DONE]">>))
  OBVIOUS
<1>5. /\ w \in Parser(Token) /\ w.line = << >> /\ w.data = << >>
      /\ Closed(w.events) /\ EndsWithDone(w.events)
  <2>1. /\ w \in Parser(Token) /\ w.line = << >> /\ w.data = << >>
        /\ w.events = Append(req[r].reader.events, DoneEvent)
        /\ req[r].reader.events \in Seq(Seq(Seq(Token))) /\ DoneEvent \in Seq(Seq(Token))
    BY <1>3, <1>4, OwnWrite DEF DoneEvent
  <2> QED BY <1>3, <2>1, DoneAppended
<1>6. PICK q : q = [req[r] EXCEPT !.phase = "answered", !.reader = w]
  OBVIOUS
<1>7. /\ q \in Record /\ q.phase = "answered" /\ q.reader = w
      /\ q.endpoint = req[r].endpoint /\ q.model = req[r].model
      /\ q.status = req[r].status /\ q.calls = req[r].calls
      /\ q.provider = req[r].provider /\ q.body = req[r].body /\ q.arrived = req[r].arrived
  <2>1. "answered" \in Phase
    BY DEF Phase
  <2> QED BY <1>3, <1>5, <1>6, <2>1 DEF Record
<1>8. req' = [req EXCEPT ![r] = q]
  BY <1>4, <1>6 DEF BodyCloses, Writes
<1>9. broken' \in [Models -> Nat]
  BY <1>1, <1>2 DEF GatewayTypeOK
<1> QED BY <1>2, <1>3, <1>5, <1>7, <1>8, <1>9, StreamMoves

LEMMA ClientLeavesKeeps ==
    ASSUME GatewayInv, NEW r \in Requests, ClientLeaves(r) PROVE GatewayInv'
<1>1. Steady(r) /\ GatewayTypeOK
  BY DEF GatewayInv
<1>2. /\ req[r].phase \in {"accepted", "streaming", "closing", "mocking"}
      /\ UNCHANGED <<registry, mockMode, broken>>
  BY DEF ClientLeaves
<1>3. /\ req[r] \in Record /\ req[r].arrived <= Len(req[r].body)
      /\ ~ Mocked(r) => ReaderInv(r)
  BY <1>1, ReqFields, RecordIsTyped DEF Steady, GatewayTypeOK
<1>4. PICK q : q = [req[r] EXCEPT !.phase = "abandoned"]
  OBVIOUS
<1>5. /\ q \in Record /\ q.phase = "abandoned" /\ q.reader = req[r].reader
      /\ q.endpoint = req[r].endpoint /\ q.model = req[r].model
      /\ q.status = req[r].status /\ q.calls = req[r].calls
      /\ q.provider = req[r].provider /\ q.body = req[r].body /\ q.arrived = req[r].arrived
  <2>1. "abandoned" \in Phase
    BY DEF Phase
  <2> QED BY <1>3, <1>4, <2>1 DEF Record
<1>6. req' = [req EXCEPT ![r] = q]
  BY <1>4 DEF ClientLeaves
<1>7. broken' \in [Models -> Nat]
  BY <1>1, <1>2 DEF GatewayTypeOK
<1>8. ~ Mocked(r) => /\ q.reader.line = << >> /\ q.reader.data = << >>
                     /\ Closed(q.reader.events)
  BY <1>3, <1>5 DEF ReaderInv
<1> QED BY <1>2, <1>3, <1>5, <1>6, <1>7, <1>8, StreamMoves

\* A mock stream: its reader gets a line that does not end.
LEMMA MockWrites ==
    ASSUME GatewayInv, NEW r \in Requests, NEW phase \in {"mocking", "answered"},
           req[r].phase = "mocking", Writes(r, <<"mock">>, phase),
           UNCHANGED <<registry, mockMode, broken>>
    PROVE  GatewayInv'
<1>1. Steady(r) /\ GatewayTypeOK
  BY DEF GatewayInv
<1>2. /\ req[r] \in Record /\ req[r].reader \in Parser(Token)
      /\ req[r].arrived <= Len(req[r].body) /\ Mocked(r)
  BY <1>1, ReqFields, RecordIsTyped DEF Steady, Progress, GatewayTypeOK
<1>3. PICK w : w = Parse(req[r].reader, <<"mock">>)
  OBVIOUS
<1>4. w \in Parser(Token)
  <2>1. <<"mock">> \in Seq(Token)
    BY Tokens
  <2> QED BY <1>2, <1>3, <2>1, ParseTyped
<1>5. PICK q : q = [req[r] EXCEPT !.phase = phase, !.reader = w]
  OBVIOUS
<1>6. /\ q \in Record /\ q.phase = phase /\ q.reader = w
      /\ q.endpoint = req[r].endpoint /\ q.model = req[r].model
      /\ q.status = req[r].status /\ q.calls = req[r].calls
      /\ q.provider = req[r].provider /\ q.body = req[r].body /\ q.arrived = req[r].arrived
  <2>1. phase \in Phase
    BY DEF Phase
  <2> QED BY <1>2, <1>4, <1>5, <2>1 DEF Record
<1>7. req' = [req EXCEPT ![r] = q]
  BY <1>3, <1>5 DEF Writes
<1>8. broken' \in [Models -> Nat]
  BY <1>1 DEF GatewayTypeOK
<1> QED BY <1>2, <1>6, <1>7, <1>8, StreamMoves

LEMMA MockChunkKeeps ==
    ASSUME GatewayInv, NEW r \in Requests, MockChunk(r) PROVE GatewayInv'
BY MockWrites DEF MockChunk

LEMMA MockEndsKeeps ==
    ASSUME GatewayInv, NEW r \in Requests, MockEnds(r) PROVE GatewayInv'
BY MockWrites DEF MockEnds

LEMMA GatewayInvInit == GatewayInit => GatewayInv
<1> SUFFICES ASSUME GatewayInit PROVE GatewayInv
  OBVIOUS
<1>1. ASSUME NEW r \in Requests
      PROVE  /\ req[r] \in Record /\ req[r].phase = "new" /\ req[r].status = 0
             /\ req[r].reader = NewParser /\ req[r].body = << >> /\ req[r].arrived = 0
             /\ req[r].calls = 0
  <2>1. PICK e \in Endpoints, m \in Models :
          req[r] = [phase |-> "new", endpoint |-> e, model |-> m, status |-> 0,
                    reader |-> NewParser, body |-> << >>, arrived |-> 0,
                    provider |-> "none", breaker |-> NewBreaker, calls |-> 0]
    BY DEF GatewayInit
  <2>2. /\ "new" \in Phase /\ 0 \in Status /\ NewParser \in Parser(Token)
        /\ << >> \in Body /\ "none" \in Provider /\ NewBreaker \in BreakerRecord
    BY NewParserTyped, NewBreakerCalibrated DEF Phase, Status, Body, Provider
  <2> QED BY <2>1, <2>2 DEF Record
<1>2. GatewayTypeOK
  <2>1. req \in [Requests -> ReqRecord]
    <3>1. \A r \in Requests : req[r] \in ReqRecord
      BY <1>1, RecordIsTyped
    <3>2. req = [r \in Requests |-> req[r]]
      BY DEF GatewayInit
    <3> QED BY <3>1, <3>2
  <2>2. \A r \in Requests : req[r].arrived <= Len(req[r].body)
    <3>1. Len(<< >>) = 0
      OBVIOUS
    <3> QED BY <1>1, <3>1
  <2>3. broken \in [Models -> Nat]
    BY DEF GatewayInit
  <2> QED BY <2>1, <2>2, <2>3 DEF GatewayInit, GatewayTypeOK
<1>3. ASSUME NEW r \in Requests PROVE Steady(r)
  <2>1. Progress(r)
    BY <1>1 DEF Progress
  <2>2. Explained(r)
    BY <1>1 DEF Explained
  <2>3. ReaderInv(r)
    BY <1>1, NewParserTyped DEF ReaderInv
  <2> QED BY <2>1, <2>2, <2>3 DEF Steady
<1> QED BY <1>2, <1>3 DEF GatewayInv

LEMMA GatewayInvStep == GatewayInv /\ [GatewayNext]_gatewayVars => GatewayInv'
<1> SUFFICES ASSUME GatewayInv, [GatewayNext]_gatewayVars PROVE GatewayInv'
  OBVIOUS
<1>1. CASE UNCHANGED gatewayVars
  <2>1. \A r \in Requests : /\ Mocked(r)' <=> Mocked(r)
                            /\ Streamed(r)' <=> Streamed(r)
                            /\ Resolved(r)' = Resolved(r)
    BY <1>1 DEF gatewayVars, Mocked, Streamed, Resolved
  <2>2. \A r \in Requests : Steady(r)'
    BY <1>1, <2>1 DEF gatewayVars, GatewayInv, Steady, Progress, Explained, ReaderInv
  <2> QED BY <1>1, <2>2 DEF gatewayVars, GatewayInv, GatewayTypeOK
<1>2. CASE GatewayNext
  <2>1. PICK r \in Requests :
          \/ MockAnswered(r) \/ MockRaises(r) \/ Refused(r) \/ RouteFails(r) \/ Forwarded(r)
          \/ UpstreamAnswers(r) \/ UpstreamFails(r)
          \/ StreamAccepted(r) \/ BodyFails(r) \/ BodyStarts(r)
          \/ ChunkArrives(r) \/ UpstreamEnds(r) \/ UpstreamBreaks(r)
          \/ BodyCloses(r) \/ ClientLeaves(r) \/ MockChunk(r) \/ MockEnds(r)
    BY <1>2 DEF GatewayNext
  <2>2. CASE MockAnswered(r) \/ MockRaises(r) \/ Refused(r) \/ RouteFails(r) \/ Forwarded(r)
    BY <2>2, MockAnsweredKeeps, MockRaisesKeeps, RefusedKeeps, RouteFailsKeeps, ForwardedKeeps
  <2>3. CASE UpstreamAnswers(r) \/ UpstreamFails(r) \/ StreamAccepted(r)
    BY <2>3, UpstreamAnswersKeeps, UpstreamFailsKeeps, StreamAcceptedKeeps
  <2>4. CASE BodyFails(r) \/ BodyStarts(r) \/ ChunkArrives(r)
    BY <2>4, BodyFailsKeeps, BodyStartsKeeps, ChunkArrivesKeeps
  <2>5. CASE UpstreamEnds(r) \/ UpstreamBreaks(r) \/ BodyCloses(r)
    BY <2>5, UpstreamEndsKeeps, UpstreamBreaksKeeps, BodyClosesKeeps
  <2>6. CASE ClientLeaves(r) \/ MockChunk(r) \/ MockEnds(r)
    BY <2>6, ClientLeavesKeeps, MockChunkKeeps, MockEndsKeeps
  <2> QED BY <2>1, <2>2, <2>3, <2>4, <2>5, <2>6
<1> QED BY <1>1, <1>2

\* Whatever a request has come to, its phase tells how it was answered and
\* what the reader of its stream has.
THEOREM GatewayInvariant == GatewaySpec => []GatewayInv
BY GatewayInvInit, GatewayInvStep, PTL DEF GatewaySpec

\* The gateway's state has the shape it was given: in particular no request
\* has received more of a body than its upstream had to stream.
THEOREM GatewayTypeCorrect == GatewaySpec => []GatewayTypeOK
<1>1. GatewayInv => GatewayTypeOK
  BY DEF GatewayInv
<1> QED BY <1>1, GatewayInvariant, PTL

\* Whatever requests arrive and whatever their upstreams do, every status is
\* explained by the registry, by what was sent or by a mock, and what is sent
\* goes to the provider that the model's name or else the default stands for.
THEOREM Replies == GatewaySpec => []RepliesExplained
<1>1. GatewayInv => RepliesExplained
  <2> SUFFICES ASSUME GatewayInv, NEW r \in Requests PROVE Explained(r)
    BY DEF RepliesExplained, Explained
  <2> QED BY DEF GatewayInv, Steady
<1> QED BY <1>1, GatewayInvariant, PTL

\* However long the bodies of the upstreams are and wherever they are cut, the
\* gateway's own events reach the reader of a stream as events by themselves,
\* an error at most once, and [DONE] as the last.
THEOREM StreamsFramed == GatewaySpec => []StreamsWellFormed
<1>1. GatewayInv => StreamsWellFormed
  <2> SUFFICES ASSUME GatewayInv, NEW r \in Requests, ~ Mocked(r), NEW reader, NEW ev,
                      reader = req[r].reader, ev = reader.events
               PROVE  /\ reader.line = << >> /\ reader.data = << >>
                      /\ \A i \in 1 .. Len(ev) : ev[i] = ErrorEvent =>
                           SubSeq(ev, i + 1, Len(ev)) \in {<< >>, <<DoneEvent>>}
                      /\ req[r].phase = "answered" /\ Streamed(r) => Last(ev) = DoneEvent
    BY DEF StreamsWellFormed
  <2>1. ReaderInv(r) /\ GatewayTypeOK
    BY DEF GatewayInv, Steady
  <2>2. ev \in Seq(Seq(Seq(Token)))
    BY <2>1, ReqFields DEF Parser
  <2>3. Closed(ev) /\ reader.line = << >> /\ reader.data = << >>
    BY <2>1 DEF ReaderInv
  <2>4. req[r].phase = "answered" /\ Streamed(r) => Last(ev) = DoneEvent
    BY <2>1 DEF ReaderInv, EndsWithDone, Last
  <2>5. ASSUME NEW i \in 1 .. Len(ev), ev[i] = ErrorEvent
        PROVE  SubSeq(ev, i + 1, Len(ev)) \in {<< >>, <<DoneEvent>>}
    <3>1. Len(ev) \in Nat
      BY <2>2, LenProperties
    <3>2. CASE i = Len(ev)
      <4>1. SubSeq(ev, i + 1, Len(ev)) = << >>
        BY <3>1, <3>2, SubSeqEmpty
      <4> QED BY <4>1
    <3>3. CASE i + 1 = Len(ev) /\ ev[i + 1] = DoneEvent
      <4> DEFINE n == Len(ev)
                 s == SubSeq(ev, n, n)
      <4>1. n \in 1 .. n /\ ev[n] = DoneEvent
        BY <3>1, <3>3
      <4>2. DoneEvent \in Seq(Seq(Token))
        BY <2>2, <4>1, ElementOfSeq
      <4>3. /\ s \in Seq(Seq(Seq(Token))) /\ Len(s) = IF n <= n THEN n - n + 1 ELSE 0
            /\ \A k \in 1 .. n - n + 1 : s[k] = ev[n + k - 1]
        <5>1. \A k \in n .. n : ev[k] \in Seq(Seq(Token))
          BY <3>1, <4>1, <4>2
        <5> QED BY <3>1, <5>1, SubSeqProperties
      <4>4. Len(s) = 1 /\ s[1] = DoneEvent
        <5>1. n - n + 1 = 1 /\ n + 1 - 1 = n
          BY <3>1
        <5> HIDE DEF n, s
        <5> QED BY <4>1, <4>3, <5>1
      <4>5. /\ <<DoneEvent>> \in Seq(Seq(Seq(Token))) /\ Len(<<DoneEvent>>) = 1
            /\ <<DoneEvent>>[1] = DoneEvent
        BY <4>2
      <4> HIDE DEF n, s
      <4>6. \A k \in 1 .. Len(s) : s[k] = <<DoneEvent>>[k]
        BY <4>4, <4>5
      <4>7. s = <<DoneEvent>>
        BY <4>3, <4>4, <4>5, <4>6, SeqEqual
      <4> QED BY <3>3, <4>7 DEF n, s
    <3> QED BY <2>3, <2>5, <3>2, <3>3 DEF Closed
  <2> QED BY <2>3, <2>4, <2>5
<1> QED BY <1>1, GatewayInvariant, PTL

=============================================================================
