------------------------ MODULE FallbackChainProofs ------------------------
(***************************************************************************)
(* Theorems about FallbackChain for every chain (repetitions included),    *)
(* every finite set of executions, threshold, timeout and quota.           *)
(***************************************************************************)
EXTENDS FallbackChain, BreakerTheorems, FiniteSetTheorems

(***************************************************************************)
(* The inductive invariant.  Per provider: an open circuit waits exactly   *)
(* as long as the history says, the half-open counter is idle, the circuit *)
(* is closed while the failure count is below the threshold, and only what *)
(* failed at this provider is counted.  Per execution: where it is         *)
(* determines what it has behind it.                                       *)
(***************************************************************************)
ProviderInv(p) ==
    /\ breaker[p].state = "open" => quietUntil[p] = breaker[p].lastFailure + RecoveryTimeout
    /\ breaker[p].halfOpenCalls = 0
    /\ Calibrated(breaker[p])
    /\ breaker[p].failures <= Cardinality(FailedAt(p))

Tried(q) ==
    /\ q.status = "new" => q.skipped = {}
    /\ q.status \in {"new", "streaming"} => q.failed = {}
    /\ q.status \in {"awaiting", "ok", "exhausted"} =>
         /\ q.skipped \union q.failed = 1 .. q.at - 1
         /\ q.skipped \intersect q.failed = {}
         /\ q.at >= 1
         /\ q.status = "exhausted" <=> q.at = Len(Chain) + 1

IInv ==
    /\ TypeOK
    /\ \A p \in Providers : ProviderInv(p)
    /\ \A r \in Requests : Tried(req[r])

LEMMA ChainFacts ==
    /\ Len(Chain) \in Nat /\ Len(Chain) >= 1
    /\ \A k \in 1 .. Len(Chain) : Chain[k] \in Providers
    /\ Preferred \in Providers
BY ChainAssumption DEF Preferred

-----------------------------------------------------------------------------
(* What has failed at a provider.                                          *)

LEMMA FailedAtFinite ==
    ASSUME NEW p
    PROVE  /\ IsFiniteSet(FailedAt(p)) /\ Cardinality(FailedAt(p)) \in Nat
           /\ IsFiniteSet(FailedAt(p)') /\ Cardinality(FailedAt(p)') \in Nat
<1>1. IsFiniteSet(1 .. Len(Chain))
  BY ChainFacts, FS_Interval
<1>2. IsFiniteSet(Requests \X (1 .. Len(Chain)))
  BY <1>1, ChainAssumption, FS_Product
<1>3. /\ FailedAt(p) \subseteq Requests \X (1 .. Len(Chain))
      /\ FailedAt(p)' \subseteq Requests \X (1 .. Len(Chain))
  BY DEF FailedAt
<1> QED BY <1>2, <1>3, FS_Subset, FS_CardinalityType

\* No execution unlearns where it failed, so the failures only grow in number;
\* and a failure that is new makes one more.
LEMMA FailuresGrow ==
    ASSUME NEW p, \A r \in Requests : req[r].failed \subseteq req'[r].failed
    PROVE  /\ Cardinality(FailedAt(p)) <= Cardinality(FailedAt(p)')
           /\ \A f \in FailedAt(p)' \ FailedAt(p) :
                Cardinality(FailedAt(p)) + 1 <= Cardinality(FailedAt(p)')
<1>1. FailedAt(p) \subseteq FailedAt(p)'
  BY DEF FailedAt
<1>2. Cardinality(FailedAt(p)) <= Cardinality(FailedAt(p)')
  BY <1>1, FailedAtFinite, FS_Subset
<1>3. ASSUME NEW f \in FailedAt(p)' \ FailedAt(p)
      PROVE  Cardinality(FailedAt(p)) + 1 <= Cardinality(FailedAt(p)')
  <2>1. /\ IsFiniteSet(FailedAt(p) \union {f})
        /\ Cardinality(FailedAt(p) \union {f}) = Cardinality(FailedAt(p)) + 1
    BY <1>3, FailedAtFinite, FS_AddElement
  <2>2. FailedAt(p) \union {f} \subseteq FailedAt(p)'
    BY <1>1
  <2> QED BY <2>1, <2>2, FailedAtFinite, FS_Subset
<1> QED BY <1>2, <1>3

-----------------------------------------------------------------------------
(* One provider's breaker.                                                 *)

\* Looking at a breaker, and a success on top of it, keep what is known of it.
LEMMA ObservedProvider ==
    ASSUME TypeOK, NEW p \in Providers, ProviderInv(p),
           NEW b \in {breaker[p], Seen(p), RecordSuccess(breaker[p]), RecordSuccess(Seen(p))}
    PROVE  /\ b \in BreakerRecord
           /\ b.state = "open" => quietUntil[p] = b.lastFailure + RecoveryTimeout
           /\ b.halfOpenCalls = 0
           /\ Calibrated(b)
           /\ b.failures <= Cardinality(FailedAt(p))
<1>1. breaker[p] \in BreakerRecord /\ now \in Nat /\ breaker[p].halfOpenCalls = 0
  BY DEF TypeOK, ProviderInv
<1>2. /\ Seen(p) \in BreakerRecord /\ Seen(p).halfOpenCalls = 0
      /\ Seen(p).state = "open" => Seen(p) = breaker[p]
      /\ Seen(p).failures = breaker[p].failures /\ Calibrated(Seen(p))
  BY <1>1, ObserveEffect, HalfOpenCallsIdle DEF Seen, ProviderInv
<1>3. \A c \in {breaker[p], Seen(p)} :
        /\ RecordSuccess(c) \in BreakerRecord /\ RecordSuccess(c).halfOpenCalls = 0
        /\ RecordSuccess(c).state = "open" => RecordSuccess(c) = c
        /\ RecordSuccess(c).failures \in {0, c.failures} /\ Calibrated(RecordSuccess(c))
  BY <1>1, <1>2, RecordSuccessEffect, HalfOpenCallsIdle DEF ProviderInv
<1>4. Cardinality(FailedAt(p)) \in Nat /\ breaker[p].failures <= Cardinality(FailedAt(p))
  BY FailedAtFinite DEF ProviderInv
<1>5. b.failures \in {0, breaker[p].failures}
  BY <1>2, <1>3
<1> QED BY <1>1, <1>2, <1>3, <1>4, <1>5 DEF ProviderInv

\* A provider whose circuit lets nothing through is still in its waiting time,
\* unless the half-open quota is zero.
LEMMA RejectedIsQuiet ==
    ASSUME HalfOpenMaxCalls > 0, TypeOK, NEW p \in Providers, ProviderInv(p),
           Seen(p).state = "open" \/ ~ Admits(Seen(p))
    PROVE  now < quietUntil[p]
<1>1. breaker[p] \in BreakerRecord /\ now \in Nat
  BY DEF TypeOK
<1>2. Seen(p).halfOpenCalls = 0
  BY ObservedProvider
<1>3. Seen(p).state = "open"
  BY <1>2, BreakerAssumption DEF Admits
<1>4. breaker[p].state = "open" /\ now < breaker[p].lastFailure + RecoveryTimeout
  BY <1>1, <1>3, ObserveEffect DEF Seen
<1> QED BY <1>4 DEF ProviderInv

-----------------------------------------------------------------------------
(* The loop.                                                               *)

\* Wherever the loop stops, everything it passed over rejected the call.
LEMMA StopsAtFirst ==
    ASSUME NEW from \in 1 .. Len(Chain) + 1, NEW k \in 1 .. Len(Chain) + 1, StopsAt(k, from)
    PROVE  /\ k >= from
           /\ \A j \in from .. k - 1 : j \in 1 .. Len(Chain) /\ ~ Admits(Seen(Chain[j]))
<1>0. Len(Chain) \in Nat
  BY ChainFacts
<1>1. CASE Usable(from) = {}
  <2>1. k = Len(Chain) + 1
    BY <1>1 DEF StopsAt
  <2> QED BY <1>0, <1>1, <2>1 DEF Usable
<1>2. CASE Usable(from) # {}
  <2>1. k \in Usable(from) /\ \A j \in Usable(from) : k <= j
    BY <1>2 DEF StopsAt
  <2>2. k \in from .. Len(Chain)
    BY <2>1 DEF Usable
  <2>3. ASSUME NEW j \in from .. k - 1
        PROVE  j \in 1 .. Len(Chain) /\ ~ Admits(Seen(Chain[j]))
    <3>1. j \in from .. Len(Chain) /\ ~ (k <= j)
      BY <1>0, <2>2
    <3>2. j \notin Usable(from)
      BY <2>1, <3>1
    <3> QED BY <1>0, <3>1, <3>2 DEF Usable
  <2> QED BY <1>0, <2>2, <2>3
<1> QED BY <1>1, <1>2

LEMMA ContinueStep ==
    ASSUME IInv, NEW r \in Requests, NEW from \in 1 .. Len(Chain) + 1,
           NEW failed \in SUBSET (1 .. Len(Chain)),
           req[r].failed \subseteq failed,
           req[r].skipped \union failed = 1 .. from - 1,
           req[r].skipped \intersect failed = {},
           Continue(r, from, failed), UNCHANGED <<now, quietUntil>>
    PROVE  IInv'
<1>0. Len(Chain) \in Nat
  BY ChainFacts
<1>1. PICK k \in 1 .. Len(Chain) + 1 :
        /\ StopsAt(k, from)
        /\ breaker' = [p \in Providers |->
             IF k <= Len(Chain) /\ p = Chain[k] THEN RecordSuccess(Seen(p))
             ELSE IF \E j \in from .. k - 1 : p = Chain[j] THEN Seen(p)
             ELSE breaker[p]]
        /\ req' = [req EXCEPT ![r] =
             [status  |-> IF k > Len(Chain) THEN "exhausted" ELSE "awaiting",
              at      |-> k,
              skipped |-> req[r].skipped \union (from .. k - 1),
              failed  |-> failed]]
  BY DEF Continue
<1>2. k >= from
  BY <1>1, StopsAtFirst
<1> DEFINE q == [status  |-> IF k > Len(Chain) THEN "exhausted" ELSE "awaiting",
                 at      |-> k,
                 skipped |-> req[r].skipped \union (from .. k - 1),
                 failed  |-> failed]
<1>3. \A p \in Providers :
        breaker'[p] \in {breaker[p], Seen(p), RecordSuccess(breaker[p]), RecordSuccess(Seen(p))}
  BY <1>1
<1>4. \A p \in Providers : breaker'[p] \in BreakerRecord /\ ProviderInv(p)'
  <2>1. \A s \in Requests : req[s].failed \subseteq req'[s].failed
    BY <1>1 DEF IInv, TypeOK
  <2>2. ASSUME NEW p \in Providers PROVE breaker'[p] \in BreakerRecord /\ ProviderInv(p)'
    <3>1. /\ breaker'[p] \in BreakerRecord /\ breaker'[p].failures \in Nat
          /\ breaker'[p].state = "open" =>
               quietUntil[p] = breaker'[p].lastFailure + RecoveryTimeout
          /\ breaker'[p].halfOpenCalls = 0 /\ Calibrated(breaker'[p])
          /\ breaker'[p].failures <= Cardinality(FailedAt(p))
      BY <1>3, ObservedProvider, RecordFields DEF IInv
    <3>2. breaker'[p].failures <= Cardinality(FailedAt(p)')
      BY <2>1, <3>1, FailuresGrow, FailedAtFinite
    <3> QED BY <3>1, <3>2 DEF ProviderInv
  <2> QED BY <2>2
<1>5. q \in ReqRecord /\ Tried(q)
  <2>1. q.skipped \subseteq 1 .. Len(Chain)
    <3>1. req[r].skipped \subseteq 1 .. Len(Chain)
      BY DEF IInv, TypeOK, ReqRecord
    <3>2. from .. k - 1 \subseteq 1 .. Len(Chain)
      BY <1>0
    <3> QED BY <3>1, <3>2
  <2>2. q.skipped \union q.failed = 1 .. k - 1
    <3>1. (1 .. from - 1) \union (from .. k - 1) = 1 .. k - 1
      BY <1>0, <1>2
    <3>2. q.skipped \union q.failed = (req[r].skipped \union failed) \union (from .. k - 1)
      OBVIOUS
    <3> QED BY <3>1, <3>2
  <2>3. q.skipped \intersect q.failed = {}
    <3>1. failed \subseteq 1 .. from - 1
      OBVIOUS
    <3>2. (1 .. from - 1) \intersect (from .. k - 1) = {}
      BY <1>0
    <3> QED BY <3>1, <3>2
  <2>4. q.status \in {"exhausted", "awaiting"} /\ (q.status = "exhausted" <=> k = Len(Chain) + 1)
    BY <1>0
  <2>5. q \in ReqRecord
    <3>1. q.status \in {"new"} \union Active \union Settled
      BY <2>4 DEF Active, Settled
    <3>2. k \in 0 .. Len(Chain) + 1
      BY <1>0
    <3> QED BY <2>1, <3>1, <3>2 DEF ReqRecord
  <2> HIDE DEF q
  <2>6. q.at = k
    BY DEF q
  <2> QED BY <1>0, <2>2, <2>3, <2>4, <2>5, <2>6 DEF Tried
<1>6. req' \in [Requests -> ReqRecord] /\ \A s \in Requests : Tried(req'[s])
  <2>1. req' = [req EXCEPT ![r] = q]
    BY <1>1
  <2> HIDE DEF q
  <2> QED BY <1>5, <2>1 DEF IInv, TypeOK
<1>7. breaker' \in [Providers -> BreakerRecord]
  <2>1. breaker' = [p \in Providers |-> breaker'[p]]
    BY <1>1
  <2> QED BY <1>4, <2>1
<1>8. TypeOK'
  BY <1>6, <1>7 DEF IInv, TypeOK
<1> QED BY <1>4, <1>6, <1>8, <1>0 DEF IInv, Tried

\* The loop resumes behind the provider that just failed.
LEMMA UpstreamFailsResumes ==
    ASSUME IInv, NEW r \in Requests, req[r].status = "awaiting"
    PROVE  LET failed == req[r].failed \union {req[r].at} IN
             /\ req[r].at \in 1 .. Len(Chain)
             /\ failed \in SUBSET (1 .. Len(Chain))
             /\ req[r].skipped \union failed = 1 .. req[r].at
             /\ req[r].skipped \intersect failed = {}
<1>1. /\ req[r].at \in 0 .. Len(Chain) + 1
      /\ req[r].failed \in SUBSET (1 .. Len(Chain))
  BY DEF IInv, TypeOK, ReqRecord
<1>2. /\ req[r].skipped \union req[r].failed = 1 .. req[r].at - 1
      /\ req[r].skipped \intersect req[r].failed = {}
      /\ req[r].at >= 1 /\ req[r].at # Len(Chain) + 1
  BY DEF IInv, Tried
<1>3. req[r].at \in 1 .. Len(Chain)
  BY <1>1, <1>2, ChainFacts
<1>4. (1 .. req[r].at - 1) \union {req[r].at} = 1 .. req[r].at
  BY <1>3, ChainFacts
<1>5. req[r].at \notin 1 .. req[r].at - 1
  BY <1>3
<1> QED BY <1>1, <1>2, <1>3, <1>4, <1>5

-----------------------------------------------------------------------------
(* Streams.                                                                *)

\* A step that changes one provider's breaker within what its invariant allows
\* and gives one execution another record keeps the invariant.
LEMMA OneStep ==
    ASSUME IInv, NEW r \in Requests, NEW p \in Providers, NEW b \in BreakerRecord,
           NEW q \in ReqRecord, Tried(q),
           breaker' = [breaker EXCEPT ![p] = b],
           req' = [req EXCEPT ![r] = q],
           now' = now,
           quietUntil' \in [Providers -> Nat],
           \A o \in Providers \ {p} : quietUntil'[o] = quietUntil[o],
           b.state = "open" => quietUntil'[p] = b.lastFailure + RecoveryTimeout,
           b.halfOpenCalls = 0,
           req[r].failed \subseteq q.failed, Calibrated(b),
           \/ b.failures <= Cardinality(FailedAt(p))
           \/ /\ b.failures <= Cardinality(FailedAt(p)) + 1
              /\ \E k \in q.failed \ req[r].failed : k \in 1 .. Len(Chain) /\ Chain[k] = p
    PROVE  IInv'
<1>1. TypeOK'
  BY DEF IInv, TypeOK
<1>2. \A o \in Providers : breaker'[o] = IF o = p THEN b ELSE breaker[o]
  BY DEF IInv, TypeOK
<1>f. \A s \in Requests : req[s].failed \subseteq req'[s].failed
  BY DEF IInv, TypeOK
<1>3. ASSUME NEW o \in Providers PROVE ProviderInv(o)'
  <2>1. /\ Cardinality(FailedAt(o)) \in Nat /\ Cardinality(FailedAt(o)') \in Nat
        /\ Cardinality(FailedAt(o)) <= Cardinality(FailedAt(o)')
    BY <1>f, FailuresGrow, FailedAtFinite
  <2>2. CASE o # p
    <3>1. breaker'[o].failures \in Nat
      BY <1>1, RecordFields DEF TypeOK
    <3> QED BY <1>2, <2>1, <2>2, <3>1 DEF IInv, ProviderInv
  <2>3. CASE o = p
    <3>1. b.failures \in Nat
      BY RecordFields
    <3>2. b.failures <= Cardinality(FailedAt(p)')
      <4>1. CASE b.failures <= Cardinality(FailedAt(p))
        BY <2>1, <2>3, <3>1, <4>1
      <4>2. ASSUME NEW k \in q.failed \ req[r].failed, k \in 1 .. Len(Chain), Chain[k] = p,
                   b.failures <= Cardinality(FailedAt(p)) + 1
            PROVE  b.failures <= Cardinality(FailedAt(p)')
        <5>1. req'[r] = q
          BY DEF IInv, TypeOK
        <5>2. <<r, k>> \in FailedAt(p)' \ FailedAt(p)
          BY <4>2, <5>1 DEF FailedAt
        <5>3. Cardinality(FailedAt(p)) + 1 <= Cardinality(FailedAt(p)')
          BY <1>f, <5>2, FailuresGrow
        <5> QED BY <2>1, <2>3, <3>1, <4>2, <5>3
      <4> QED BY <4>1, <4>2
    <3> QED BY <1>2, <2>3, <3>2 DEF ProviderInv
  <2> QED BY <2>2, <2>3
<1>4. \A s \in Requests : req'[s] = IF s = r THEN q ELSE req[s]
  BY DEF IInv, TypeOK
<1>5. \A s \in Requests : Tried(req[s])'
  BY <1>4 DEF IInv, Tried
<1> QED BY <1>1, <1>3, <1>5 DEF IInv

-----------------------------------------------------------------------------
(* The invariant.                                                          *)

LEMMA InvariantInit == Init => IInv
<1> SUFFICES ASSUME Init PROVE IInv
  OBVIOUS
<1>1. TypeOK
  BY NewBreakerCalibrated, ChainFacts DEF Init, TypeOK, ReqRecord
<1>2. ASSUME NEW p \in Providers PROVE ProviderInv(p)
  <2>1. breaker[p] = NewBreaker /\ NewBreaker.failures = 0 /\ NewBreaker.state = "closed"
        /\ NewBreaker.halfOpenCalls = 0
    BY DEF Init, NewBreaker
  <2> QED BY <2>1, NewBreakerCalibrated, FailedAtFinite DEF ProviderInv
<1>3. \A r \in Requests : Tried(req[r])
  BY DEF Init, Tried
<1> QED BY <1>1, <1>2, <1>3 DEF IInv

LEMMA InvariantStep == IInv /\ [Next]_vars => IInv'
<1> SUFFICES ASSUME IInv, [Next]_vars PROVE IInv'
  OBVIOUS
<1>0. /\ breaker[Preferred] \in BreakerRecord /\ now \in Nat /\ RecoveryTimeout \in Nat
      /\ quietUntil \in [Providers -> Nat] /\ Preferred \in Providers
      /\ Len(Chain) \in Nat /\ Len(Chain) >= 1
  BY ChainFacts, BreakerAssumption DEF IInv, TypeOK
<1>p. \A b \in {breaker[Preferred], Seen(Preferred), RecordSuccess(breaker[Preferred])} :
        /\ b \in BreakerRecord
        /\ b.state = "open" => quietUntil[Preferred] = b.lastFailure + RecoveryTimeout
        /\ b.halfOpenCalls = 0 /\ Calibrated(b)
        /\ b.failures <= Cardinality(FailedAt(Preferred))
  BY ObservedProvider, ChainFacts DEF IInv
<1>r. \A r \in Requests : req[r] \in ReqRecord /\ Tried(req[r])
  BY DEF IInv, TypeOK
<1>a. ASSUME NEW r \in Requests, ExecuteStarts(r) PROVE IInv'
  <2>1. req[r].skipped = {} /\ req[r].failed = {}
    BY <1>a, <1>r DEF ExecuteStarts, Tried
  <2>2. 1 .. 1 - 1 = {} /\ 1 \in 1 .. Len(Chain) + 1
    BY <1>0
  <2> QED BY <1>a, <2>1, <2>2, ContinueStep DEF ExecuteStarts
<1>b. ASSUME NEW r \in Requests, UpstreamFails(r) PROVE IInv'
  <2>1. req[r].at + 1 \in 1 .. Len(Chain) + 1 /\ (req[r].at + 1) - 1 = req[r].at
    BY <1>0, <1>b, UpstreamFailsResumes DEF UpstreamFails
  <2> QED BY <1>b, <2>1, UpstreamFailsResumes, ContinueStep DEF UpstreamFails
<1>c. ASSUME NEW r \in Requests, UpstreamAnswers(r) PROVE IInv'
  <2> DEFINE q == [req[r] EXCEPT !.status = "ok"]
  <2>1. q \in ReqRecord
    BY <1>r DEF ReqRecord, Settled
  <2>2. q.status = "ok" /\ q.at = req[r].at /\ q.skipped = req[r].skipped /\ q.failed = req[r].failed
    BY <1>r DEF ReqRecord
  <2>3. req' = [req EXCEPT ![r] = q]
    BY <1>c DEF UpstreamAnswers
  <2> HIDE DEF q
  <2>4. Tried(q)
    BY <1>c, <1>r, <2>2 DEF UpstreamAnswers, Tried
  <2>5. breaker' = [breaker EXCEPT ![Preferred] = breaker[Preferred]]
    BY <1>c DEF UpstreamAnswers, IInv, TypeOK
  <2>6. now' = now /\ quietUntil' = quietUntil
    BY <1>c DEF UpstreamAnswers
  <2> QED BY <1>0, <1>p, <2>1, <2>2, <2>3, <2>4, <2>5, <2>6, OneStep
<1>d. ASSUME NEW r \in Requests, StreamStarts(r) PROVE IInv'
  <2> DEFINE q == [req[r] EXCEPT !.status = "streaming", !.at = 1]
  <2>1. q.status = "streaming" /\ q.failed = {} /\ req[r].failed = {}
    BY <1>d, <1>r DEF ReqRecord, StreamStarts, Tried
  <2>2. q \in ReqRecord
    <3>1. 1 \in 0 .. Len(Chain) + 1
      BY <1>0
    <3> QED BY <1>r, <3>1 DEF ReqRecord, Active
  <2>3. req' = [req EXCEPT ![r] = q]
    BY <1>d DEF StreamStarts
  <2> HIDE DEF q
  <2>4. Tried(q)
    BY <2>1 DEF Tried
  <2> QED BY <1>d, <1>0, <1>p, <2>1, <2>2, <2>3, <2>4, OneStep DEF StreamStarts
<1>e. ASSUME NEW r \in Requests, StreamRejected(r) PROVE IInv'
  <2> DEFINE q == [req[r] EXCEPT !.status = "stream_error", !.at = 1, !.skipped = {1}]
  <2>1. q.status = "stream_error" /\ q.failed = req[r].failed
    BY <1>r DEF ReqRecord
  <2>2. q \in ReqRecord
    <3>1. 1 \in 0 .. Len(Chain) + 1 /\ {1} \in SUBSET (1 .. Len(Chain))
      BY <1>0
    <3> QED BY <1>r, <3>1 DEF ReqRecord, Settled
  <2>3. req' = [req EXCEPT ![r] = q]
    BY <1>e DEF StreamRejected
  <2> HIDE DEF q
  <2>4. Tried(q)
    BY <2>1 DEF Tried
  <2> QED BY <1>e, <1>0, <1>p, <2>1, <2>2, <2>3, <2>4, OneStep DEF StreamRejected
<1>f. ASSUME NEW r \in Requests, NEW status \in {"stream_ok", "abandoned"},
             NEW b \in {breaker[Preferred], RecordSuccess(breaker[Preferred])},
             EndStream(r, status, b), UNCHANGED <<now, quietUntil>>
      PROVE  IInv'
  <2> DEFINE q == [req[r] EXCEPT !.status = status]
  <2>1. q.status = status /\ q.failed = req[r].failed
    BY <1>r DEF ReqRecord
  <2>2. q \in ReqRecord
    BY <1>r DEF ReqRecord, Settled
  <2>3. req' = [req EXCEPT ![r] = q]
    BY <1>f DEF EndStream
  <2> HIDE DEF q
  <2>4. Tried(q)
    BY <2>1 DEF Tried
  <2> QED BY <1>f, <1>0, <1>p, <2>1, <2>2, <2>3, <2>4, OneStep DEF EndStream
<1>g. ASSUME NEW r \in Requests, StreamFails(r) PROVE IInv'
  <2> DEFINE q == [req[r] EXCEPT !.status = "stream_error", !.failed = {1}]
             b == RecordFailure(breaker[Preferred], now)
  <2>1. q.status = "stream_error" /\ q.failed = {1} /\ req[r].failed = {}
    BY <1>g, <1>r DEF ReqRecord, StreamFails, Tried
  <2>2. q \in ReqRecord
    <3>1. {1} \in SUBSET (1 .. Len(Chain))
      BY <1>0
    <3> QED BY <1>r, <3>1 DEF ReqRecord, Settled
  <2>3. req' = [req EXCEPT ![r] = q] /\ breaker' = [breaker EXCEPT ![Preferred] = b]
    BY <1>g DEF StreamFails
  <2>4. /\ b \in BreakerRecord /\ b.lastFailure = now /\ b.halfOpenCalls = 0
        /\ b.failures = breaker[Preferred].failures + 1 /\ Calibrated(b)
    BY <1>0, <1>p, RecordFailureEffect, HalfOpenCallsIdle
  <2>5. breaker'[Preferred] = b
    BY <1>0, <2>3 DEF IInv, TypeOK
  <2>6. /\ quietUntil' \in [Providers -> Nat]
        /\ \A o \in Providers \ {Preferred} : quietUntil'[o] = quietUntil[o]
        /\ b.state = "open" => quietUntil'[Preferred] = b.lastFailure + RecoveryTimeout
    BY <1>g, <1>0, <2>4, <2>5 DEF StreamFails
  <2> HIDE DEF q, b
  <2>7. Tried(q)
    BY <2>1 DEF Tried
  <2>8. b.failures <= Cardinality(FailedAt(Preferred)) + 1
    <3>1. breaker[Preferred].failures \in Nat
      BY <1>0, RecordFields
    <3> QED BY <1>p, <2>4, <3>1, FailedAtFinite
  <2>9. \E k \in q.failed \ req[r].failed : k \in 1 .. Len(Chain) /\ Chain[k] = Preferred
    BY <1>0, <2>1 DEF Preferred
  <2> QED BY <1>g, <1>0, <2>1, <2>2, <2>3, <2>4, <2>6, <2>7, <2>8, <2>9, OneStep DEF StreamFails
<1>s. ASSUME UNCHANGED <<breaker, req, quietUntil>>, now' \in Nat PROVE IInv'
  <2>1. TypeOK'
    BY <1>s DEF IInv, TypeOK
  <2>2. ASSUME NEW p \in Providers PROVE ProviderInv(p)'
    <3>1. FailedAt(p)' = FailedAt(p)
      BY <1>s DEF FailedAt
    <3>2. ProviderInv(p) /\ breaker'[p] = breaker[p] /\ quietUntil'[p] = quietUntil[p]
      BY <1>s DEF IInv
    <3> QED BY <3>1, <3>2 DEF ProviderInv
  <2>3. \A r \in Requests : Tried(req[r])'
    BY <1>s DEF IInv, Tried
  <2> QED BY <2>1, <2>2, <2>3 DEF IInv
<1>h. CASE Tick
  BY <1>h, <1>s, <1>0 DEF Tick
<1>i. CASE UNCHANGED vars
  BY <1>i, <1>s, <1>0 DEF vars
<1> QED BY <1>a, <1>b, <1>c, <1>d, <1>e, <1>f, <1>g, <1>h, <1>i
        DEF Next, UpstreamSettles, StreamEnds, StreamAbandoned

\* Whatever the executions of a chain do to its breakers in between one
\* another's awaits, each breaker and each execution keeps its part of IInv.
THEOREM Invariant == Spec => []IInv
BY InvariantInit, InvariantStep, PTL DEF Spec

-----------------------------------------------------------------------------
(* The properties of FallbackChain.                                        *)

\* The state keeps its type.
THEOREM TypeCorrect == Spec => []TypeOK
<1>1. IInv => TypeOK
  BY DEF IInv
<1> QED BY <1>1, Invariant, PTL

\* Each provider before the one a non-streaming execution is at has rejected or
\* failed that very execution, and none was tried twice.
THEOREM OrderKept == Spec => []TriedInOrder
<1>1. IInv => TriedInOrder
  BY DEF IInv, Tried, TriedInOrder
<1> QED BY <1>1, Invariant, PTL

\* A circuit that is not closed belongs to a provider at which FailureThreshold
\* executions have failed, whatever else the executions of the chain have met.
THEOREM ChargedForTheirOwn == Spec => []TripsForOwnFailures
<1>1. IInv => TripsForOwnFailures
  <2> SUFFICES ASSUME IInv, NEW p \in Providers, breaker[p].state # "closed"
      PROVE  Cardinality(FailedAt(p)) >= FailureThreshold
    BY DEF TripsForOwnFailures
  <2>1. breaker[p].failures \in Nat /\ FailureThreshold \in Nat
    BY RecordFields, BreakerAssumption DEF IInv, TypeOK
  <2>2. breaker[p].failures >= FailureThreshold
    BY <2>1 DEF IInv, ProviderInv, Calibrated
  <2>3. breaker[p].failures <= Cardinality(FailedAt(p))
    BY DEF IInv, ProviderInv
  <2> QED BY <2>1, <2>2, <2>3, FailedAtFinite
<1> QED BY <1>1, Invariant, PTL

\* A provider is passed over only while it is in the waiting time after a
\* failure that left its circuit open, unless the half-open quota is zero.
THEOREM SkipsForCause ==
    ASSUME HalfOpenMaxCalls > 0
    PROVE  Spec => SkippedForCause
<1>1. ASSUME IInv, [Next]_vars, NEW r \in Requests, NEW k \in req'[r].skipped \ req[r].skipped
      PROVE  now < quietUntil[Chain[k]]
  <2>1. ASSUME NEW from \in 1 .. Len(Chain) + 1, NEW failed, Continue(r, from, failed)
        PROVE  now < quietUntil[Chain[k]]
    <3>1. PICK stop \in 1 .. Len(Chain) + 1 :
            /\ StopsAt(stop, from)
            /\ req'[r].skipped = req[r].skipped \union (from .. stop - 1)
      BY <2>1 DEF Continue, IInv, TypeOK
    <3>2. k \in 1 .. Len(Chain) /\ ~ Admits(Seen(Chain[k]))
      BY <1>1, <3>1, StopsAtFirst
    <3> QED BY <1>1, <3>2, ChainFacts, RejectedIsQuiet DEF IInv
  <2>2. CASE ExecuteStarts(r)
    <3>1. 1 \in 1 .. Len(Chain) + 1
      BY ChainFacts
    <3> QED BY <2>1, <2>2, <3>1 DEF ExecuteStarts
  <2>3. CASE UpstreamFails(r)
    <3>1. req[r].at + 1 \in 1 .. Len(Chain) + 1
      BY <1>1, <2>3, ChainFacts, UpstreamFailsResumes DEF UpstreamFails
    <3> QED BY <2>1, <2>3, <3>1 DEF UpstreamFails
  <2>4. CASE StreamRejected(r)
    <3>1. k = 1
      BY <1>1, <2>4 DEF StreamRejected, IInv, TypeOK, ReqRecord
    <3> QED BY <1>1, <2>4, <3>1, ChainFacts, RejectedIsQuiet DEF StreamRejected, Preferred, IInv
  <2>5. ASSUME NEW s \in Requests, NEW q, req' = [req EXCEPT ![s] = q],
               s # r \/ q.skipped = req[s].skipped
        PROVE  FALSE
    BY <1>1, <2>5 DEF IInv, TypeOK
  <2>6. ASSUME NEW s \in Requests, ExecuteStarts(s) \/ UpstreamFails(s) \/ StreamRejected(s)
        PROVE  s = r
    <3>1. PICK q : req' = [req EXCEPT ![s] = q]
      BY <2>6 DEF ExecuteStarts, UpstreamFails, StreamRejected, Continue
    <3> QED BY <2>5, <3>1
  <2>7. ASSUME NEW s \in Requests,
               UpstreamAnswers(s) \/ StreamStarts(s) \/ StreamEnds(s)
                 \/ StreamFails(s) \/ StreamAbandoned(s)
        PROVE  FALSE
    <3>1. req'[s].skipped = req[s].skipped
      BY <1>1, <2>7 DEF UpstreamAnswers, StreamStarts, StreamEnds, StreamFails, StreamAbandoned,
                        EndStream, IInv, TypeOK, ReqRecord
    <3>2. req' = [req EXCEPT ![s] = req'[s]]
      BY <1>1, <2>7 DEF UpstreamAnswers, StreamStarts, StreamEnds, StreamFails, StreamAbandoned,
                        EndStream, IInv, TypeOK
    <3> QED BY <2>5, <3>1, <3>2
  <2>8. ~ Tick /\ ~ UNCHANGED vars
    BY <1>1 DEF Tick, vars
  <2> QED BY <1>1, <2>2, <2>3, <2>4, <2>6, <2>7, <2>8 DEF Next, UpstreamSettles
<1>2. IInv /\ [Next]_vars =>
        [\A r \in Requests : \A k \in req'[r].skipped \ req[r].skipped :
           now < quietUntil[Chain[k]]]_vars
  BY <1>1
<1> QED BY <1>2, Invariant, PTL DEF Spec, SkippedForCause

=============================================================================
