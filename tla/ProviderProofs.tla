--------------------------- MODULE ProviderProofs ---------------------------
(***************************************************************************)
(* Theorems about the two components that go through all of a registry's   *)
(* clients: the load balancer, which gives each its share, and the health  *)
(* checker, which asks each in turn.  They have no variable in common, and *)
(* neither argument needs the other.                                       *)
(***************************************************************************)
EXTENDS LoadBalancer, HealthChecker, BreakerTheorems,
        FiniteSetTheorems, FunctionTheorems, SequenceTheorems

-----------------------------------------------------------------------------
(* The health checker.                                                     *)

(***************************************************************************)
(* Until there is a report every pass is a warm-up pass; a request's pass  *)
(* is one for ever, for it would not have begun with a report there.       *)
(***************************************************************************)
AllWarmUp == statuses = << >> => \A x \in Passes : pass[x].running => x \in warmup

RequestsWarmUp == \A c \in Requests : pass[c].running => c \in warmup

\* What began before a warm-up pass is one, too.
WarmUpFirst == \A x \in warmup : earlier[x] \subseteq warmup

EarlierRun == \A x \in Passes : \A y \in earlier[x] : pass[y].running

\* Stopping the loop ends its pass, so a second start finds none.
LoopOnly == pass[Loop].running => looping

(***************************************************************************)
(* The inductive invariant: a pass that has been overtaken is a warm-up    *)
(* pass.  Only a warm-up pass can overtake the loop's, for the others are  *)
(* the loop's own; and the loop's overtakes nothing but requests' passes.  *)
(***************************************************************************)
HealthInv ==
    /\ TypeOK
    /\ AllWarmUp /\ RequestsWarmUp /\ WarmUpFirst /\ EarlierRun /\ LoopOnly
    /\ late \subseteq warmup

LEMMA PassesFacts ==
    /\ Passes = Requests \union {Loop} /\ Loop \notin Requests
    /\ N \in Nat /\ N > 0
BY HealthAssumption DEF Passes

LEMMA HealthInvInit == Init => HealthInv
<1> SUFFICES ASSUME Init PROVE HealthInv
  OBVIOUS
<1>1. << >> \in Seq(Verdict) /\ Len(<< >>) = 0
  OBVIOUS
<1>2. NoPass \in PassRecord /\ ~ NoPass.running /\ Len(NoPass.results) = 0
  BY <1>1 DEF NoPass, PassRecord
<1>3. \A x \in Passes : pass[x] = NoPass
  BY DEF Init
<1>4. TypeOK
  BY <1>1, <1>2, <1>3, PassesFacts DEF Init, TypeOK
<1> QED BY <1>2, <1>3, <1>4, PassesFacts
        DEF Init, HealthInv, AllWarmUp, RequestsWarmUp, WarmUpFirst, EarlierRun, LoopOnly

\* A pass that begins knows of every running pass that it is earlier.
LEMMA BeginsKeeps ==
    ASSUME HealthInv, NEW x \in Passes, ~ pass[x].running, Begins(x),
           x \in Requests => statuses = << >>,
           looping' \in BOOLEAN, looping => looping', x = Loop => looping',
           UNCHANGED <<upstream, statuses, reply>>
    PROVE  HealthInv'
<1>0. /\ TypeOK /\ pass \in [Passes -> PassRecord] /\ earlier \in [Passes -> SUBSET Passes]
      /\ warmup \subseteq Passes /\ late \subseteq Passes
  BY DEF HealthInv, TypeOK
<1>1. << >> \in Seq(Verdict) /\ Len(<< >>) = 0
  OBVIOUS
<1>2. FirstProbe \in PassRecord /\ FirstProbe.running /\ Len(FirstProbe.results) = 0
  BY <1>1 DEF FirstProbe, PassRecord
<1>3. \A y \in Passes : pass'[y] = IF y = x THEN FirstProbe ELSE pass[y]
  BY <1>0 DEF Begins
<1>4. \A y \in Passes :
        earlier'[y] = IF y = x THEN {z \in Passes : pass[z].running} ELSE earlier[y]
  BY <1>0 DEF Begins
<1>5. warmup' = (IF statuses = << >> THEN warmup \union {x} ELSE warmup) /\ late' = late
  BY DEF Begins
<1>6. TypeOK'
  <2>1. pass' \in [Passes -> PassRecord]
    BY <1>0, <1>2 DEF Begins
  <2>2. \A y \in Passes : Len(pass'[y].results) < N
    BY <1>0, <1>2, <1>3, PassesFacts DEF TypeOK
  <2>3. earlier' \in [Passes -> SUBSET Passes]
    BY <1>0 DEF Begins
  <2>4. late' \subseteq Passes /\ warmup' \subseteq Passes
    BY <1>0, <1>5
  <2> QED BY <1>0, <2>1, <2>2, <2>3, <2>4 DEF TypeOK
<1>7. AllWarmUp' /\ RequestsWarmUp'
  BY <1>3, <1>5, PassesFacts DEF HealthInv, AllWarmUp, RequestsWarmUp
<1>8. WarmUpFirst'
  <2>1. {z \in Passes : pass[z].running} \subseteq warmup
    <3>1. CASE statuses = << >>
      BY <3>1 DEF HealthInv, AllWarmUp
    <3>2. CASE statuses # << >>
      <4>1. x = Loop
        BY <3>2, PassesFacts
      <4> QED BY <4>1, PassesFacts DEF HealthInv, RequestsWarmUp
    <3> QED BY <3>1, <3>2
  <2> QED BY <1>0, <1>4, <1>5, <2>1 DEF HealthInv, WarmUpFirst
<1>9. EarlierRun'
  BY <1>0, <1>2, <1>3, <1>4 DEF HealthInv, EarlierRun
<1>10. LoopOnly'
  BY <1>3, PassesFacts DEF HealthInv, LoopOnly
<1> QED BY <1>5, <1>6, <1>7, <1>8, <1>9, <1>10 DEF HealthInv

\* A pass that ends takes its place in the history with it; what it overtakes
\* are warm-up passes.
LEMMA EndsKeeps ==
    ASSUME HealthInv, NEW x \in Passes, NEW overtakes \in {{}, earlier[x]},
           pass[x].running \/ overtakes = {}, Ends(x, overtakes),
           statuses' \in Seq(Verdict), Len(statuses') \in {0, N},
           statuses' = << >> => statuses = << >>,
           reply' \in [Requests -> Seq(Verdict)],
           \A c \in Requests : Len(reply'[c]) \in {0, N},
           looping' \in BOOLEAN, looping => looping' \/ x = Loop, UNCHANGED upstream
    PROVE  HealthInv'
<1>0. /\ TypeOK /\ pass \in [Passes -> PassRecord] /\ earlier \in [Passes -> SUBSET Passes]
      /\ warmup \subseteq Passes /\ late \subseteq Passes
  BY DEF HealthInv, TypeOK
<1>1. << >> \in Seq(Verdict) /\ Len(<< >>) = 0
  OBVIOUS
<1>2. NoPass \in PassRecord /\ ~ NoPass.running /\ Len(NoPass.results) = 0
  BY <1>1 DEF NoPass, PassRecord
<1>3. \A y \in Passes : pass'[y] = IF y = x THEN NoPass ELSE pass[y]
  BY <1>0 DEF Ends
<1>4. \A y \in Passes : earlier'[y] = IF y = x THEN {} ELSE earlier[y] \ {x}
  BY DEF Ends
<1>5. warmup' = warmup \ {x} /\ late' = (late \union overtakes) \ {x}
  BY DEF Ends
<1>6. TypeOK'
  <2>1. pass' \in [Passes -> PassRecord]
    BY <1>0, <1>2 DEF Ends
  <2>2. \A y \in Passes : Len(pass'[y].results) < N
    BY <1>0, <1>2, <1>3, PassesFacts DEF TypeOK
  <2>3. earlier' \in [Passes -> SUBSET Passes]
    BY <1>0 DEF Ends
  <2>4. late' \subseteq Passes /\ warmup' \subseteq Passes
    BY <1>0, <1>5
  <2> QED BY <1>0, <2>1, <2>2, <2>3, <2>4 DEF TypeOK
<1>7. AllWarmUp' /\ RequestsWarmUp'
  BY <1>2, <1>3, <1>5, PassesFacts DEF HealthInv, AllWarmUp, RequestsWarmUp
<1>8. WarmUpFirst'
  BY <1>0, <1>4, <1>5 DEF HealthInv, WarmUpFirst
<1>9. EarlierRun'
  BY <1>0, <1>3, <1>4 DEF HealthInv, EarlierRun
<1>10. LoopOnly'
  BY <1>2, <1>3, PassesFacts DEF HealthInv, LoopOnly
<1>11. overtakes \ {x} \subseteq warmup
  <2>1. CASE x \in Requests /\ overtakes = earlier[x]
    BY <2>1, <1>1 DEF HealthInv, RequestsWarmUp, WarmUpFirst
  <2>2. CASE x = Loop /\ overtakes = earlier[x]
    <3>1. ASSUME NEW y \in earlier[x], y # x PROVE y \in warmup
      <4>1. y \in Requests /\ pass[y].running
        BY <1>0, <2>2, <3>1, PassesFacts DEF HealthInv, EarlierRun
      <4> QED BY <4>1 DEF HealthInv, RequestsWarmUp
    <3> QED BY <2>2, <3>1
  <2> QED BY <2>1, <2>2, PassesFacts
<1>12. late' \subseteq warmup'
  BY <1>5, <1>11 DEF HealthInv
<1> QED BY <1>6, <1>7, <1>8, <1>9, <1>10, <1>12 DEF HealthInv

\* The step in which a pass learns of its last probe: everything it found.
LEMMA ResultsFull ==
    ASSUME HealthInv, NEW x \in Passes, pass[x].running, pass[x].answer # "waiting"
    PROVE  LET results == Append(pass[x].results, pass[x].answer)
           IN  /\ results \in Seq(Verdict) /\ Len(results) \in 1 .. N
               /\ results # << >>
<1>1. pass[x].results \in Seq(Verdict) /\ pass[x].answer \in Verdict /\ Len(pass[x].results) < N
  BY DEF HealthInv, TypeOK, PassRecord
<1> DEFINE results == Append(pass[x].results, pass[x].answer)
<1>2. results \in Seq(Verdict) /\ Len(results) = Len(pass[x].results) + 1
  BY <1>1, AppendProperties
<1>3. Len(results) \in 1 .. N
  BY <1>1, <1>2, PassesFacts, LenProperties
<1>4. results # << >>
  BY <1>2, <1>3, EmptySeq
<1> QED BY <1>2, <1>3, <1>4

LEMMA HealthInvStep == HealthInv /\ [Next]_vars => HealthInv'
<1> SUFFICES ASSUME HealthInv, [Next]_vars PROVE HealthInv'
  OBVIOUS
<1>0. /\ TypeOK /\ pass \in [Passes -> PassRecord]
      /\ statuses \in Seq(Verdict) /\ Len(statuses) \in {0, N}
      /\ reply \in [Requests -> Seq(Verdict)] /\ \A c \in Requests : Len(reply[c]) \in {0, N}
      /\ upstream \in [Providers -> Verdict] /\ looping \in BOOLEAN
  BY DEF HealthInv, TypeOK
<1> DEFINE Rest == AllWarmUp /\ RequestsWarmUp /\ WarmUpFirst /\ EarlierRun /\ LoopOnly
<1>r. ASSUME \A x \in Passes : pass'[x].running = pass[x].running,
             UNCHANGED <<statuses, looping, history>>
      PROVE  Rest' /\ late' \subseteq warmup'
  <2>1. /\ earlier' = earlier /\ late' = late /\ warmup' = warmup
        /\ statuses' = statuses /\ looping' = looping
    BY <1>r DEF history
  <2>2. AllWarmUp' /\ RequestsWarmUp' /\ LoopOnly'
    BY <1>r, <2>1, PassesFacts DEF HealthInv, AllWarmUp, RequestsWarmUp, LoopOnly
  <2>3. WarmUpFirst' /\ late' \subseteq warmup'
    BY <2>1 DEF HealthInv, WarmUpFirst
  <2>4. EarlierRun'
    BY <1>0, <1>r, <2>1 DEF HealthInv, TypeOK, EarlierRun
  <2> QED BY <2>2, <2>3, <2>4
<1>1. ASSUME NEW x \in Passes, ProbeAnswered(x) PROVE HealthInv'
  <2>1. upstream[Len(pass[x].results) + 1] \in Verdict
    BY <1>0, PassesFacts DEF TypeOK, PassRecord, Providers
  <2>2. [pass[x] EXCEPT !.answer = upstream[Len(pass[x].results) + 1]] \in PassRecord
    BY <1>0, <2>1 DEF PassRecord
  <2>3. /\ pass' \in [Passes -> PassRecord]
        /\ \A y \in Passes : /\ pass'[y].running = pass[y].running
                             /\ pass'[y].results = pass[y].results
    BY <1>0, <1>1, <2>2 DEF ProbeAnswered, PassRecord
  <2>4. TypeOK'
    BY <1>0, <1>1, <2>3 DEF ProbeAnswered, TypeOK, history
  <2> QED BY <1>1, <1>r, <2>3, <2>4 DEF ProbeAnswered, HealthInv
<1>2. ASSUME NEW x \in Passes, ProbeReturns(x) PROVE HealthInv'
  <2> DEFINE results == Append(pass[x].results, pass[x].answer)
  <2>1. pass[x].running /\ pass[x].answer # "waiting"
    BY <1>2 DEF ProbeReturns
  <2>2. results \in Seq(Verdict) /\ Len(results) \in 1 .. N /\ results # << >>
    BY <2>1, ResultsFull
  <2>3. CASE Len(results) < N
    <3>1. /\ pass' = [pass EXCEPT ![x] = [running |-> TRUE, answer |-> "waiting",
                                          results |-> results]]
          /\ UNCHANGED <<upstream, looping, statuses, reply, history>>
      BY <1>2, <2>3 DEF ProbeReturns
    <3>2. [running |-> TRUE, answer |-> "waiting", results |-> results] \in PassRecord
      BY <2>2 DEF PassRecord
    <3>3. /\ pass' \in [Passes -> PassRecord]
          /\ \A y \in Passes : /\ pass'[y].running = pass[y].running
                               /\ Len(pass'[y].results) < N
      BY <1>0, <2>1, <2>3, <3>1, <3>2 DEF TypeOK
    <3>4. TypeOK'
      BY <1>0, <3>1, <3>3 DEF TypeOK, history
    <3> QED BY <1>r, <3>1, <3>3, <3>4 DEF HealthInv
  <2>4. CASE ~ (Len(results) < N)
    <3>1. /\ Ends(x, earlier[x]) /\ statuses' = results
          /\ reply' = (IF x = Loop THEN reply ELSE [reply EXCEPT ![x] = results])
          /\ UNCHANGED <<upstream, looping>>
      BY <1>2, <2>4 DEF ProbeReturns
    <3>2. Len(results) = N
      BY <2>2, <2>4, PassesFacts
    <3>3. /\ reply' \in [Requests -> Seq(Verdict)]
          /\ \A c \in Requests : Len(reply'[c]) \in {0, N}
      BY <1>0, <2>2, <3>1, <3>2, PassesFacts
    <3> HIDE DEF results
    <3> QED BY <1>0, <2>1, <2>2, <3>1, <3>2, <3>3, EndsKeeps
  <2> QED BY <2>3, <2>4
<1>3. CASE Start
  <2>1. ~ pass[Loop].running
    BY <1>3 DEF Start, HealthInv, LoopOnly
  <2> QED BY <1>3, <2>1, BeginsKeeps, PassesFacts DEF Start
<1>4. CASE LoopWakes
  BY <1>0, <1>4, BeginsKeeps, PassesFacts DEF LoopWakes
<1>5. CASE Stop
  BY <1>0, <1>5, EndsKeeps, PassesFacts DEF Stop
<1>6. ASSUME NEW c \in Requests, HealthAsked(c) PROVE HealthInv'
  <2>1. CASE statuses # << >>
    <3>1. /\ reply' = [reply EXCEPT ![c] = statuses]
          /\ UNCHANGED <<upstream, statuses, looping, pass, history>>
      BY <1>6, <2>1 DEF HealthAsked
    <3>2. TypeOK'
      BY <1>0, <3>1 DEF TypeOK, history
    <3> QED BY <1>r, <3>1, <3>2 DEF HealthInv
  <2>2. CASE statuses = << >>
    <3>1. ~ pass[c].running /\ Begins(c) /\ UNCHANGED <<upstream, statuses, looping, reply>>
      BY <1>6, <2>2 DEF HealthAsked
    <3> QED BY <1>0, <2>2, <3>1, BeginsKeeps, PassesFacts
  <2> QED BY <2>1, <2>2
<1>7. ASSUME NEW p \in Providers, ConditionChanges(p) PROVE HealthInv'
  <2>1. upstream' \in [Providers -> Verdict]
    BY <1>0, <1>7 DEF ConditionChanges, Verdict
  <2>2. TypeOK'
    BY <1>0, <1>7, <2>1 DEF ConditionChanges, TypeOK, history
  <2> QED BY <1>7, <1>r, <2>2 DEF ConditionChanges, HealthInv
<1>8. CASE UNCHANGED vars
  <2>1. TypeOK'
    BY <1>0, <1>8 DEF vars, TypeOK
  <2> QED BY <1>8, <1>r, <2>1 DEF vars, history, HealthInv
<1> QED BY <1>1, <1>2, <1>3, <1>4, <1>5, <1>6, <1>7, <1>8 DEF Next

\* Whoever asks, and wherever the loop is stopped, the invariant holds.
THEOREM HealthInvariant == Spec => []HealthInv
BY HealthInvInit, HealthInvStep, PTL DEF Spec

\* A report is empty or of every provider, a pass never has more results than
\* providers, and so on: the types.
THEOREM HealthTypeCorrect == Spec => []TypeOK
<1>1. HealthInv => TypeOK
  BY DEF HealthInv
<1> QED BY <1>1, HealthInvariant, PTL

\* Whatever is published or answered is a report of every provider
\* (check_all, health).
THEOREM ReportsComplete == Spec => ReportsAreComplete
<1>1. ASSUME HealthInv, [Next]_vars
      PROVE  /\ \A c \in Requests : reply'[c] # reply[c] => Len(reply'[c]) = N
             /\ statuses' # statuses => Len(statuses') = N
  <2>1. TypeOK' /\ TypeOK
    BY <1>1, HealthInvStep DEF HealthInv
  <2>2. statuses' # statuses => statuses' # << >>
    BY <1>1, ResultsFull DEF Next, vars, ProbeAnswered, ProbeReturns, Start, LoopWakes, Stop,
                             HealthAsked, ConditionChanges
  <2>3. ASSUME NEW c \in Requests, reply'[c] # reply[c] PROVE reply'[c] # << >>
    <3>1. CASE \E x \in Passes : ProbeReturns(x)
      BY <1>1, <2>1, <2>3, <3>1, ResultsFull DEF ProbeReturns, TypeOK
    <3>2. CASE \E d \in Requests : HealthAsked(d)
      BY <2>1, <2>3, <3>2 DEF HealthAsked, TypeOK
    <3> QED BY <1>1, <2>3, <3>1, <3>2
            DEF Next, vars, ProbeAnswered, Start, LoopWakes, Stop, ConditionChanges
  <2>4. \A s \in Seq(Verdict) : s # << >> => Len(s) # 0
    OBVIOUS
  <2> QED BY <2>1, <2>2, <2>3, <2>4 DEF TypeOK
<1>2. HealthInv /\ [Next]_vars =>
        [/\ \A c \in Requests : reply'[c] # reply[c] => Len(reply'[c]) = N
         /\ statuses' # statuses => Len(statuses') = N]_vars
  BY <1>1
<1> QED BY <1>2, HealthInvariant, PTL DEF Spec, ReportsAreComplete

\* A report is only ever replaced by that of a pass that began before it if
\* both are from before the first report; the report does not go back in time
\* afterwards.
THEOREM NoRegression == Spec => NoRegressionAfterWarmup
<1>1. HealthInv => \A x \in Passes : x \in late => x \in warmup
  BY DEF HealthInv
<1>2. HealthInv /\ [Next]_vars =>
        [\A x \in Passes :
           pass[x].running /\ ~ pass'[x].running /\ statuses' # statuses /\ x \in late
              => x \in warmup]_vars
  BY <1>1
<1> QED BY <1>2, HealthInvariant, PTL DEF Spec, NoRegressionAfterWarmup

-----------------------------------------------------------------------------
(* The load balancer: the shares.                                          *)

\* Two sets that match one to one are equally large.
LEMMA SameSize ==
    ASSUME NEW A, NEW B, IsFiniteSet(A), NEW f \in [A -> B],
           \A x, y \in A : f[x] = f[y] => x = y,
           \A z \in B : \E x \in A : f[x] = z
    PROVE  IsFiniteSet(B) /\ Cardinality(B) = Cardinality(A)
<1>1. f \in Bijection(A, B)
  BY Fun_IsBij
<1>2. ExistsBijection(A, B)
  BY <1>1, Fun_ExistsBij
<1> QED BY <1>2, FS_Bijection

LEMMA CopiesPositive ==
    ASSUME NEW c \in Clients
    PROVE  Copies(c) \in Nat \ {0}
BY LoadBalancerAssumption DEF Copies

\* The places of the client list.
Places == 1 .. Len(ClientList)

LEMMA ListedClients ==
    /\ DOMAIN ClientList = Places /\ IsFiniteSet(Places) /\ 1 \in Places
    /\ \A k \in Places : ClientList[k] \in Clients
<1>1. ClientList \in Seq(Clients) /\ ClientList # << >>
  BY LoadBalancerAssumption
<1>2. Len(ClientList) \in Nat /\ DOMAIN ClientList = 1 .. Len(ClientList) /\ Len(ClientList) # 0
  BY <1>1, LenProperties, EmptySeq
<1>3. IsFiniteSet(1 .. Len(ClientList))
  BY <1>2, FS_Interval
<1>4. \A k \in 1 .. Len(ClientList) : ClientList[k] \in Clients
  BY <1>1, ElementOfSeq
<1> QED BY <1>2, <1>3, <1>4 DEF Places

\* How many of the pool's entries are a client: one turn of the rotation.
Share(c) == Occurrences(ClientList, c) * Copies(c)

\* The weighted pool, before it is shuffled: finite, and not empty.
SlotsOf(k) == {k} \X (1 .. Copies(ClientList[k]))
PoolSlots == UNION {SlotsOf(k) : k \in DOMAIN ClientList}

LEMMA PoolSlotsFinite == IsFiniteSet(PoolSlots)
<1> DEFINE slotSets == {SlotsOf(k) : k \in Places}
<1>1. ASSUME NEW k \in Places PROVE IsFiniteSet(SlotsOf(k))
  <2>1. IsFiniteSet({k})
    BY FS_Singleton
  <2>2. Copies(ClientList[k]) \in Int
    BY ListedClients, CopiesPositive
  <2>3. IsFiniteSet(1 .. Copies(ClientList[k]))
    BY <2>2, FS_Interval
  <2> QED BY <2>1, <2>3, FS_Product DEF SlotsOf
<1>2. IsFiniteSet(slotSets)
  <2> DEFINE g == [k \in Places |-> SlotsOf(k)]
  <2>1. g \in Surjection(Places, slotSets)
    <3>1. g \in [Places -> slotSets] /\ \A t \in slotSets : \E k \in Places : g[k] = t
      OBVIOUS
    <3> HIDE DEF g, slotSets
    <3> QED BY <3>1, Fun_IsSurj
  <2> HIDE DEF g, slotSets
  <2> QED BY <2>1, FS_Surjection, ListedClients
<1>3. \A T \in slotSets : IsFiniteSet(T)
  BY <1>1
<1> HIDE DEF slotSets
<1>4. IsFiniteSet(UNION slotSets)
  BY <1>2, <1>3, FS_UNION
<1> QED BY <1>4, ListedClients DEF slotSets, PoolSlots

LEMMA InPoolSlots ==
    /\ \A s \in PoolSlots : \E k \in Places : \E i \in 1 .. Copies(ClientList[k]) : s = <<k, i>>
    /\ \A k \in Places : \A i \in 1 .. Copies(ClientList[k]) : <<k, i>> \in PoolSlots
<1>1. ASSUME NEW s \in PoolSlots
      PROVE  \E k \in Places : \E i \in 1 .. Copies(ClientList[k]) : s = <<k, i>>
  <2>1. PICK k \in Places : s \in SlotsOf(k)
    BY ListedClients DEF PoolSlots
  <2>2. \E i \in 1 .. Copies(ClientList[k]) : s = <<k, i>>
    BY <2>1 DEF SlotsOf
  <2> QED BY <2>2
<1>2. ASSUME NEW k \in Places, NEW i \in 1 .. Copies(ClientList[k]) PROVE <<k, i>> \in PoolSlots
  <2>1. <<k, i>> \in SlotsOf(k)
    BY DEF SlotsOf
  <2> QED BY <2>1, ListedClients DEF PoolSlots
<1> QED BY <1>1, <1>2

\* Whatever the shuffle does, every client is in the pool as often as its share
\* says (__init__).
LEMMA ShuffledShares ==
    ASSUME NEW p \in Shuffled
    PROVE  /\ p \in Seq(Clients) /\ p # << >>
           /\ \A c \in Clients : Occurrences(p, c) = Share(c)
<1> DEFINE n == Cardinality(PoolSlots)
<1>1. n \in Nat
  BY PoolSlotsFinite, FS_CardinalityType
<1>2. PICK order \in SetToSeqs(PoolSlots) : p = [i \in DOMAIN order |-> ClientList[order[i][1]]]
  BY DEF Shuffled, PoolSlots, SlotsOf
<1>3. order \in [1 .. n -> PoolSlots] /\ \A i, j \in 1 .. n : i # j => order[i] # order[j]
  BY <1>2 DEF SetToSeqs
<1>4. \A s \in PoolSlots : \E i \in 1 .. n : order[i] = s
  <2>1. order \in Injection(1 .. n, PoolSlots)
    BY <1>3, Fun_IsInj
  <2>2. IsFiniteSet(1 .. n) /\ Cardinality(1 .. n) = n
    BY <1>1, FS_Interval
  <2>3. order \in Surjection(1 .. n, PoolSlots)
    BY <2>1, <2>2, PoolSlotsFinite, FS_Injection
  <2> HIDE DEF n
  <2> QED BY <2>3 DEF Surjection
<1> HIDE DEF n
<1>5. ASSUME NEW i \in 1 .. n
      PROVE  /\ order[i][1] \in Places /\ order[i][2] \in 1 .. Copies(ClientList[order[i][1]])
             /\ order[i] = <<order[i][1], order[i][2]>>
  <2>1. order[i] \in PoolSlots
    BY <1>3
  <2>2. PICK k \in Places : \E j \in 1 .. Copies(ClientList[k]) : order[i] = <<k, j>>
    BY <2>1, InPoolSlots
  <2>3. PICK j \in 1 .. Copies(ClientList[k]) : order[i] = <<k, j>>
    BY <2>2
  <2>4. order[i][1] = k /\ order[i][2] = j
    BY <2>3
  <2> QED BY <2>3, <2>4
<1>6. p \in [1 .. n -> Clients] /\ \A i \in 1 .. n : p[i] = ClientList[order[i][1]]
  <2>1. \A i \in 1 .. n : ClientList[order[i][1]] \in Clients
    BY <1>5, ListedClients
  <2> QED BY <1>2, <1>3, <2>1
<1>7. p \in Seq(Clients) /\ Len(p) = n
  BY <1>1, <1>6, SeqDef
<1>8. p # << >>
  <2>1. 1 \in Places /\ 1 \in 1 .. Copies(ClientList[1])
    BY ListedClients, CopiesPositive
  <2>2. \E i \in 1 .. n : order[i] = <<1, 1>>
    BY <1>4, <2>1, InPoolSlots
  <2>3. n # 0
    BY <2>2
  <2> QED BY <1>7, <2>3
<1>9. ASSUME NEW c \in Clients PROVE Occurrences(p, c) = Share(c)
  <2> DEFINE K == {k \in Places : ClientList[k] = c}
             A == K \X (1 .. Copies(c))
             B == {i \in DOMAIN p : p[i] = c}
             g == [i \in B |-> order[i]]
  <2>1. B = {i \in 1 .. n : p[i] = c}
    BY <1>6
  <2>2. IsFiniteSet(B)
    <3>1. IsFiniteSet(1 .. n)
      BY <1>1, FS_Interval
    <3>2. B \subseteq 1 .. n
      BY <2>1
    <3> HIDE DEF B
    <3> QED BY <3>1, <3>2, FS_Subset
  <2>3. g \in [B -> A]
    <3>1. ASSUME NEW i \in B PROVE order[i] \in A
      <4>1. i \in 1 .. n /\ p[i] = c
        BY <2>1
      <4>2. ClientList[order[i][1]] = c
        BY <1>6, <4>1
      <4>3. order[i][1] \in K /\ order[i][2] \in 1 .. Copies(c)
        BY <1>5, <4>1, <4>2
      <4> QED BY <1>5, <4>1, <4>3
    <3> HIDE DEF A, B
    <3> QED BY <3>1
  <2>4. \A x, y \in B : g[x] = g[y] => x = y
    BY <1>3, <2>1
  <2>5. ASSUME NEW z \in A PROVE \E x \in B : g[x] = z
    <3>1. PICK k \in K, i \in 1 .. Copies(c) : z = <<k, i>>
      OBVIOUS
    <3>2. k \in Places /\ ClientList[k] = c
      OBVIOUS
    <3>3. z \in PoolSlots
      BY <3>1, <3>2, InPoolSlots
    <3>4. PICK x \in 1 .. n : order[x] = z
      BY <1>4, <3>3
    <3>5. order[x][1] = k
      BY <3>1, <3>4
    <3>6. x \in B
      BY <1>6, <2>1, <3>2, <3>4, <3>5
    <3> QED BY <3>4, <3>6
  <2>6. IsFiniteSet(K) /\ Cardinality(K) = Occurrences(ClientList, c)
    <3>1. IsFiniteSet(K)
      BY ListedClients, FS_Subset
    <3> QED BY <3>1, ListedClients DEF Occurrences
  <2>7. /\ IsFiniteSet(1 .. Copies(c)) /\ Cardinality(1 .. Copies(c)) = Copies(c)
    BY CopiesPositive, FS_Interval
  <2>8. Cardinality(A) = Cardinality(K) * Cardinality(1 .. Copies(c))
    <3> HIDE DEF K
    <3> QED BY <2>6, <2>7, FS_Product
  <2>9. Cardinality(B) = Occurrences(p, c)
    BY DEF Occurrences
  <2> HIDE DEF A, B, K, g
  <2>10. Cardinality(A) = Cardinality(B)
    BY <2>2, <2>3, <2>4, <2>5, SameSize
  <2> QED BY <2>6, <2>7, <2>8, <2>9, <2>10 DEF Share
<1> QED BY <1>7, <1>8, <1>9

-----------------------------------------------------------------------------
(* The load balancer: the invariant.                                       *)

\* The place in a list that a count n comes to, going round at most once.
Rot(list, n) == IF n <= Len(list) THEN n ELSE n - Len(list)

\* The history ends with the pool, turned so that it begins where the cycle
\* stands: the last round, or as much of it as there is.
LastRound ==
    \A k \in 1 .. Len(pool) :
        Len(picks) - Len(pool) + k >= 1 =>
            picks[Len(picks) - Len(pool) + k] = pool[Rot(pool, position + k - 1)]

\* The shuffle changed the order of the weighted pool and nothing else.
FairPool == \A c \in Clients : Occurrences(pool, c) = Share(c)

\* Going round a list from anywhere meets everyone as often as the list has them.
LEMMA RoundOccurrences ==
    ASSUME NEW p \in Seq(Clients), NEW s \in 1 .. Len(p),
           NEW w \in Seq(Clients), Len(w) = Len(p),
           \A k \in 1 .. Len(p) : w[k] = p[Rot(p, s + k - 1)],
           NEW c \in Clients
    PROVE  Occurrences(w, c) = Occurrences(p, c)
<1> DEFINE L == Len(p)
           A == {i \in DOMAIN w : w[i] = c}
           B == {i \in DOMAIN p : p[i] = c}
           f == [k \in A |-> Rot(p, s + k - 1)]
           back(z) == IF z >= s THEN z - s + 1 ELSE z - s + 1 + L
<1>1. L \in Nat /\ s \in 1 .. L /\ DOMAIN w = 1 .. L /\ DOMAIN p = 1 .. L
  BY LenProperties
<1>2. IsFiniteSet(A)
  <2>1. IsFiniteSet(1 .. L) /\ A \in SUBSET (1 .. L)
    BY <1>1, FS_Interval
  <2> QED BY <2>1, FS_Subset
<1>3. \A k \in 1 .. L : Rot(p, s + k - 1) \in 1 .. L
  BY <1>1 DEF Rot
<1>4. f \in [A -> B]
  BY <1>1, <1>3
<1>5. \A x, y \in A : f[x] = f[y] => x = y
  <2> SUFFICES ASSUME NEW x \in A, NEW y \in A, f[x] = f[y] PROVE x = y
    OBVIOUS
  <2>1. x \in 1 .. L /\ y \in 1 .. L /\ Rot(p, s + x - 1) = Rot(p, s + y - 1)
    BY <1>1
  <2> HIDE DEF A, f
  <2> QED BY <1>1, <2>1 DEF Rot
<1>6. ASSUME NEW z \in B PROVE \E x \in A : f[x] = z
  <2>1. z \in 1 .. L /\ p[z] = c
    BY <1>1
  <2>2. back(z) \in 1 .. L /\ Rot(p, s + back(z) - 1) = z
    <3> HIDE DEF L
    <3>1. CASE z >= s
      <4>1. back(z) = z - s + 1
        BY <3>1
      <4> HIDE DEF back
      <4> QED BY <1>1, <2>1, <3>1, <4>1 DEF Rot, L
    <3>2. CASE ~ (z >= s)
      <4>1. back(z) = z - s + 1 + L
        BY <3>2
      <4> HIDE DEF back
      <4> QED BY <1>1, <2>1, <3>2, <4>1 DEF Rot, L
    <3> QED BY <3>1, <3>2
  <2> HIDE DEF back
  <2>3. back(z) \in A
    BY <1>1, <2>1, <2>2
  <2> QED BY <2>2, <2>3
<1> HIDE DEF A, B, f
<1>7. Cardinality(B) = Cardinality(A)
  BY <1>2, <1>4, <1>5, <1>6, SameSize
<1> QED BY <1>7 DEF A, B, Occurrences

\* An open circuit tells when its client last failed.
OpenSinceFailure ==
    \A c \in Clients : breaker[c].state = "open" => failedAt[c] = {breaker[c].lastFailure}

(***************************************************************************)
(* The inductive invariant.  ExactShares speaks of every Len(pool) picks   *)
(* in a row and says nothing of the next one; with the last round it does. *)
(* A filtered-out client is open, and the clock has not moved since.       *)
(***************************************************************************)
BalancerInv ==
    /\ BalancerTypeOK
    /\ FairPool /\ LastRound /\ ExactShares
    /\ OpenSinceFailure /\ FilteredForCause

LEMMA BalancerInvInit == BalancerInit => BalancerInv
<1> SUFFICES ASSUME BalancerInit PROVE BalancerInv
  OBVIOUS
<1>1. /\ pool \in Seq(Clients) /\ pool # << >> /\ FairPool
      /\ position = 1 /\ picks = << >> /\ now = 0 /\ available = {}
      /\ breaker = [c \in Clients |-> NewBreaker]
      /\ failedAt = [c \in Clients |-> {}]
  BY ShuffledShares DEF BalancerInit, FairPool
<1>2. Len(pool) \in Nat \ {0} /\ picks \in Seq(Clients) /\ Len(picks) = 0
  BY <1>1, EmptySeq
<1>3. BalancerTypeOK
  BY <1>1, <1>2, NewBreakerCalibrated DEF BalancerTypeOK
<1>4. LastRound /\ ExactShares
  BY <1>2 DEF LastRound, ExactShares
<1>5. OpenSinceFailure
  BY <1>1 DEF OpenSinceFailure, NewBreaker
<1> QED BY <1>1, <1>3, <1>4, <1>5 DEF BalancerInv, FilteredForCause

\* next() keeps the last round and the shares of all rounds before it.
LEMMA PickShares ==
    ASSUME BalancerInv, Pick
    PROVE  /\ position' \in 1 .. Len(pool) /\ picks' \in Seq(Clients)
           /\ LastRound' /\ ExactShares'
<1> DEFINE L == Len(pool)
           n == Len(picks)
<1>0. /\ BalancerTypeOK /\ FairPool /\ LastRound /\ ExactShares
      /\ pool \in Seq(Clients) /\ picks \in Seq(Clients)
      /\ L \in Nat /\ n \in Nat /\ position \in 1 .. L
  BY LenProperties DEF BalancerInv, BalancerTypeOK
<1>1. /\ picks' = Append(picks, pool[position])
      /\ position' = IF position < L THEN position + 1 ELSE 1
      /\ pool' = pool
  BY DEF Pick
<1>2. position' \in 1 .. L /\ pool[position] \in Clients
  BY <1>0, <1>1, ElementOfSeq
<1>3. /\ picks' \in Seq(Clients) /\ Len(picks') = n + 1
      /\ \A i \in 1 .. n : picks'[i] = picks[i]
      /\ picks'[n + 1] = pool[position]
  BY <1>0, <1>1, <1>2, AppendProperties
<1>4. ASSUME NEW k \in 1 .. L, n + 1 - L + k >= 1
      PROVE  picks'[n + 1 - L + k] = pool[Rot(pool, position' + k - 1)]
  <2>1. CASE k = L
    <3>1. Rot(pool, position' + k - 1) = position
      BY <1>0, <1>1, <2>1 DEF Rot
    <3>2. n + 1 - L + k = n + 1
      BY <1>0, <2>1
    <3> QED BY <1>3, <3>1, <3>2
  <2>2. CASE k # L
    <3>1. k + 1 \in 1 .. L /\ n - L + (k + 1) >= 1 /\ n - L + (k + 1) \in 1 .. n
      BY <1>0, <1>4, <2>2
    <3>2. picks[n - L + (k + 1)] = pool[Rot(pool, position + (k + 1) - 1)]
      BY <1>0, <3>1 DEF LastRound
    <3>3. Rot(pool, position + (k + 1) - 1) = Rot(pool, position' + k - 1)
      <4>1. CASE position < L
        BY <1>0, <1>1, <4>1
      <4>2. CASE ~ (position < L)
        <5>1. position' = 1 /\ position = L
          BY <1>0, <1>1, <4>2
        <5> QED BY <1>0, <3>1, <5>1 DEF Rot
      <4> QED BY <4>1, <4>2
    <3>4. n + 1 - L + k = n - L + (k + 1)
      BY <1>0
    <3> QED BY <1>3, <3>1, <3>2, <3>3, <3>4
  <2> QED BY <2>1, <2>2
<1>r. pool' = pool /\ Len(pool') = L /\ Len(picks') = n + 1
  BY <1>1, <1>3
<1>5. LastRound'
  <2> SUFFICES ASSUME NEW k \in 1 .. Len(pool'), Len(picks') - Len(pool') + k >= 1
               PROVE  picks'[Len(picks') - Len(pool') + k] =
                          pool'[Rot(pool', position' + k - 1)]
    BY DEF LastRound
  <2>1. k \in 1 .. L /\ n + 1 - L + k >= 1
    BY <1>r
  <2> HIDE DEF L, n
  <2>2. picks'[n + 1 - L + k] = pool[Rot(pool, position' + k - 1)]
    BY <1>4, <2>1
  <2>3. Len(picks') - Len(pool') + k = n + 1 - L + k
    BY <1>0, <1>r
  <2>4. pool'[Rot(pool', position' + k - 1)] = pool[Rot(pool, position' + k - 1)]
    BY <1>r
  <2> QED BY <2>2, <2>3, <2>4
<1>6. ASSUME NEW i \in 1 .. n + 1 - L + 1, NEW c \in Clients
      PROVE  Occurrences(SubSeq(picks', i, i + L - 1), c) = Share(c)
  <2> DEFINE w == SubSeq(picks', i, i + L - 1)
  <2>0. i \in Nat \ {0} /\ L >= 1 /\ i + L - 1 \in Int /\ i + L - 1 <= n + 1
    BY <1>0
  <2>1. w \in Seq(Clients) /\ Len(w) = L /\ \A k \in 1 .. L : w[k] = picks'[i + k - 1]
    <3>1. \A j \in i .. i + L - 1 : picks'[j] \in Clients
      BY <1>0, <1>3, <2>0, ElementOfSeq
    <3> QED BY <2>0, <3>1, SubSeqProperties
  <2>2. CASE i + L - 1 <= n
    <3> DEFINE v == SubSeq(picks, i, i + L - 1)
    <3>1. v \in Seq(Clients) /\ Len(v) = L /\ \A k \in 1 .. L : v[k] = picks[i + k - 1]
      <4>1. \A j \in i .. i + L - 1 : picks[j] \in Clients
        BY <1>0, <2>0, <2>2, ElementOfSeq
      <4> QED BY <2>0, <4>1, SubSeqProperties
    <3>2. \A k \in 1 .. L : v[k] = w[k]
      BY <1>0, <1>3, <2>0, <2>1, <2>2, <3>1
    <3>3. v = w
      BY <2>1, <3>1, <3>2, SeqEqual
    <3>4. i \in 1 .. n - L + 1
      BY <1>0, <2>0, <2>2
    <3>5. Occurrences(v, c) = Share(c)
      BY <1>0, <3>4 DEF ExactShares, Share, Copies
    <3> QED BY <3>3, <3>5
  <2>3. CASE i + L - 1 = n + 1
    <3>1. \A k \in 1 .. L : w[k] = pool[Rot(pool, position' + k - 1)]
      <4>1. ASSUME NEW k \in 1 .. L PROVE w[k] = pool[Rot(pool, position' + k - 1)]
        <5>1. i + k - 1 = n + 1 - L + k /\ n + 1 - L + k >= 1
          BY <1>0, <2>0, <2>3
        <5> QED BY <1>4, <2>1, <5>1
      <4> QED BY <4>1
    <3>2. Occurrences(w, c) = Occurrences(pool, c)
      <4> HIDE DEF w
      <4> QED BY <1>0, <1>2, <2>1, <3>1, RoundOccurrences
    <3> QED BY <1>0, <3>2 DEF FairPool
  <2> QED BY <2>0, <2>2, <2>3
<1>7. ExactShares'
  <2> SUFFICES ASSUME NEW i \in 1 .. Len(picks') - Len(pool') + 1, NEW c \in Clients
               PROVE  Occurrences(SubSeq(picks', i, i + Len(pool') - 1), c) = Share(c)
    BY DEF ExactShares, Share, Copies, Occurrences
  <2>1. i \in 1 .. n + 1 - L + 1
    BY <1>r
  <2> HIDE DEF L, n
  <2>2. Occurrences(SubSeq(picks', i, i + L - 1), c) = Share(c)
    BY <1>6, <2>1
  <2> QED BY <1>r, <2>2
<1> QED BY <1>1, <1>2, <1>3, <1>5, <1>7

\* The filter: who is not in the result is open, and has been since it failed.
LEMMA FilterExplained ==
    ASSUME BalancerInv, AvailableClients
    PROVE  /\ breaker' \in [Clients -> BreakerRecord] /\ OpenSinceFailure' /\ FilteredForCause'
           /\ available' \in {{}} \union {{s} : s \in SUBSET Clients}
<1>0. /\ BalancerTypeOK /\ OpenSinceFailure
      /\ breaker \in [Clients -> BreakerRecord] /\ now \in Nat /\ now' = now
      /\ failedAt' = failedAt
      /\ \A c \in Clients : breaker'[c] = Observe(breaker[c], now)
  BY DEF BalancerInv, BalancerTypeOK, AvailableClients
<1>1. ASSUME NEW c \in Clients
      PROVE  /\ breaker'[c] \in BreakerRecord
             /\ breaker'[c].state = "open" =>
                  /\ failedAt[c] = {breaker'[c].lastFailure}
                  /\ now - breaker'[c].lastFailure < RecoveryTimeout
  <2>1. breaker[c] \in BreakerRecord
    BY <1>0
  <2>2. breaker'[c] \in BreakerRecord /\ breaker'[c].lastFailure = breaker[c].lastFailure
    BY <1>0, <2>1, ObserveEffect
  <2>3. ASSUME breaker'[c].state = "open"
        PROVE  breaker[c].state = "open" /\ now < breaker[c].lastFailure + RecoveryTimeout
    BY <1>0, <2>1, <2>3, ObserveEffect
  <2>4. breaker[c].lastFailure \in Nat /\ RecoveryTimeout \in Nat
    BY <2>1, RecordFields, BreakerAssumption
  <2> QED BY <1>0, <2>2, <2>3, <2>4 DEF OpenSinceFailure
<1>2. breaker' \in [Clients -> BreakerRecord]
  BY <1>1 DEF AvailableClients
<1>3. OpenSinceFailure'
  BY <1>0, <1>1 DEF OpenSinceFailure
<1>4. available' = {{c \in Clients : breaker'[c].state # "open"}}
  BY DEF AvailableClients
<1>5. FilteredForCause'
  BY <1>0, <1>1, <1>4 DEF FilteredForCause
<1> QED BY <1>2, <1>3, <1>4, <1>5

LEMMA BalancerInvStep == BalancerInv /\ [BalancerNext]_balancerVars => BalancerInv'
<1> SUFFICES ASSUME BalancerInv, [BalancerNext]_balancerVars PROVE BalancerInv'
  OBVIOUS
<1>0. /\ BalancerTypeOK /\ breaker \in [Clients -> BreakerRecord] /\ now \in Nat
      /\ failedAt \in [Clients -> {{}} \union {{t} : t \in 0 .. now}]
  BY DEF BalancerInv, BalancerTypeOK
\* What does not touch the rotation keeps all that is said of it.
<1>s. ASSUME UNCHANGED <<pool, position, picks>>
      PROVE  FairPool' /\ LastRound' /\ ExactShares'
  <2>1. pool' = pool /\ position' = position /\ picks' = picks
    BY <1>s
  <2>2. FairPool' /\ LastRound'
    BY <2>1 DEF BalancerInv, FairPool, LastRound
  <2>3. ExactShares'
    BY <2>1, Zenon DEF BalancerInv, ExactShares
  <2> QED BY <2>2, <2>3
<1>1. CASE Pick
  <2>1. /\ UNCHANGED <<pool, breaker, now, available, failedAt>>
        /\ position' \in 1 .. Len(pool) /\ picks' \in Seq(Clients)
        /\ LastRound' /\ ExactShares'
    BY <1>1, PickShares DEF Pick
  <2>2. BalancerTypeOK'
    BY <1>0, <2>1 DEF BalancerTypeOK
  <2>3. FairPool' /\ OpenSinceFailure' /\ FilteredForCause'
    BY <2>1 DEF BalancerInv, FairPool, OpenSinceFailure, FilteredForCause
  <2> QED BY <2>1, <2>2, <2>3 DEF BalancerInv
<1>2. CASE AvailableClients
  <2>1. UNCHANGED <<pool, position, picks, now, failedAt>>
    BY <1>2 DEF AvailableClients
  <2>2. BalancerTypeOK'
    BY <1>0, <1>2, <2>1, FilterExplained DEF BalancerTypeOK
  <2> QED BY <1>2, <1>s, <2>1, <2>2, FilterExplained DEF BalancerInv
<1>3. ASSUME NEW c \in Clients, StreamFails(c) PROVE BalancerInv'
  <2>0. /\ UNCHANGED <<pool, position, picks, now>> /\ available' = {}
        /\ breaker' = [breaker EXCEPT ![c] = RecordFailure(breaker[c], now)]
        /\ failedAt' = [failedAt EXCEPT ![c] = {now}]
    BY <1>3 DEF StreamFails
  <2>1. /\ RecordFailure(breaker[c], now) \in BreakerRecord
        /\ RecordFailure(breaker[c], now).lastFailure = now
    BY <1>0, RecordFailureEffect
  <2>2. BalancerTypeOK'
    BY <1>0, <2>0, <2>1 DEF BalancerTypeOK
  <2>3. OpenSinceFailure' /\ FilteredForCause'
    BY <1>0, <2>0, <2>1 DEF BalancerInv, OpenSinceFailure, FilteredForCause
  <2> QED BY <1>s, <2>0, <2>2, <2>3 DEF BalancerInv
<1>4. ASSUME NEW c \in Clients, StreamEnds(c) PROVE BalancerInv'
  <2>0. /\ UNCHANGED <<pool, position, picks, now, failedAt>> /\ available' = {}
        /\ breaker' = [breaker EXCEPT ![c] = RecordSuccess(breaker[c])]
    BY <1>4 DEF StreamEnds
  <2>1. /\ RecordSuccess(breaker[c]) \in BreakerRecord
        /\ RecordSuccess(breaker[c]).state = "open" => RecordSuccess(breaker[c]) = breaker[c]
    BY <1>0, RecordSuccessEffect
  <2>2. BalancerTypeOK'
    BY <1>0, <2>0, <2>1 DEF BalancerTypeOK
  <2>3. OpenSinceFailure' /\ FilteredForCause'
    BY <1>0, <2>0, <2>1 DEF BalancerInv, OpenSinceFailure, FilteredForCause
  <2> QED BY <1>s, <2>0, <2>2, <2>3 DEF BalancerInv
<1>5. CASE Tick
  <2>0. /\ UNCHANGED <<pool, position, picks, breaker, failedAt>>
        /\ available' = {} /\ now' = now + 1
    BY <1>5 DEF Tick
  <2>1. BalancerTypeOK'
    BY <1>0, <2>0 DEF BalancerTypeOK
  <2>2. OpenSinceFailure' /\ FilteredForCause'
    BY <2>0 DEF BalancerInv, OpenSinceFailure, FilteredForCause
  <2> QED BY <1>s, <2>0, <2>1, <2>2 DEF BalancerInv
<1>6. CASE UNCHANGED balancerVars
  <2>1. BalancerTypeOK'
    BY <1>0, <1>6 DEF BalancerTypeOK, balancerVars
  <2>2. OpenSinceFailure' /\ FilteredForCause'
    BY <1>6 DEF BalancerInv, OpenSinceFailure, FilteredForCause, balancerVars
  <2> QED BY <1>6, <1>s, <2>1, <2>2 DEF BalancerInv, balancerVars
<1> QED BY <1>1, <1>2, <1>3, <1>4, <1>5, <1>6 DEF BalancerNext

\* Whatever is asked of the balancer and whichever streams fail meanwhile.
THEOREM BalancerInvariant == BalancerSpec => []BalancerInv
BY BalancerInvInit, BalancerInvStep, PTL DEF BalancerSpec

\* The cycle stays within the pool, the breakers keep their fields' types.
THEOREM BalancerTypeCorrect == BalancerSpec => []BalancerTypeOK
<1>1. BalancerInv => BalancerTypeOK
  BY DEF BalancerInv
<1> QED BY <1>1, BalancerInvariant, PTL

\* Whatever order the shuffle chose, and for every choice of weights: as many
\* picks in a row as the pool is long give every client exactly its weight,
\* across the end of a round, too (next, __init__).
THEOREM Shares == BalancerSpec => []ExactShares
<1>1. BalancerInv => ExactShares
  BY DEF BalancerInv
<1> QED BY <1>1, BalancerInvariant, PTL

\* available_clients leaves out only those that failed less than
\* RecoveryTimeout ago, however long nobody had looked at their breakers.
THEOREM FilterHasCause == BalancerSpec => []FilteredForCause
<1>1. BalancerInv => FilteredForCause
  BY DEF BalancerInv
<1> QED BY <1>1, BalancerInvariant, PTL

=============================================================================
