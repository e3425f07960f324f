------------------------- MODULE RateLimiterProofs -------------------------
(***************************************************************************)
(* Theorems about RateLimiter for every set of clients, limit (zero        *)
(* included), window, clock resolution and length of history.              *)
(***************************************************************************)
EXTENDS RateLimiter, FiniteSetTheorems, SequenceTheorems, WellFoundedInduction, TLAPS

(***************************************************************************)
(* The inductive invariant.  A bucket is the end of its client's history:  *)
(* what is missing at its head is older than a window, so it would not     *)
(* have counted anyway.  A client that was told when to come back either   *)
(* finds room already, or will have it then and not a second earlier.      *)
(***************************************************************************)
Ordered(a, t) ==
    /\ \A i, j \in 1 .. Len(a) : i <= j => a[i] <= a[j]
    /\ \A i \in 1 .. Len(a) : a[i] <= t

EndsHistory(b, a, t) ==
    /\ Len(b) <= Len(a)
    /\ \A i \in 1 .. Len(b) : b[i] = a[Len(a) - Len(b) + i]
    /\ \A i \in 1 .. Len(a) - Len(b) : a[i] < t - Window

Spaced(a, limit) ==
    \A i \in 1 .. Len(a) - limit : a[i + limit] - a[i] > Window

ToldWhen(o, b, limit) ==
    o.kind = "raised_429" =>
        /\ limit > 0
        /\ Len(b) = limit =>
             /\ b[1] < o.retryAt - Window
             /\ b[1] >= o.retryAt - Second - Window

ClientInv(c) ==
    /\ Ordered(admitted[c], now)
    /\ EndsHistory(bucket[c], admitted[c], now)
    /\ Spaced(admitted[c], Limit[c])
    /\ ToldWhen(outcome[c], bucket[c], Limit[c])

IInv == TypeOK /\ \A c \in Clients : ClientInv(c)

-----------------------------------------------------------------------------
(* Eviction.                                                               *)

LEMMA WindowNat == Window \in Nat
BY RateLimiterAssumption DEF Window

\* A set of natural numbers has a least element.
LEMMA LeastElement ==
    ASSUME NEW T \in SUBSET Nat, T # {}
    PROVE  \E m \in T : \A j \in T : m <= j
<1>1. IsWellFoundedOn(OpToRel(<, Nat), Nat)
  BY NatLessThanWellFounded
<1>2. PICK m \in T : \A j \in T : <<j, m>> \notin OpToRel(<, Nat)
  BY <1>1, WFMin
<1>3. \A j \in T : ~ (j < m)
  BY <1>2 DEF OpToRel
<1> QED BY <1>3

\* The `while` loop pops the leading entries that are older than a window, and
\* stops in front of the first that is not.
LEMMA PoppedEffect ==
    ASSUME NEW b \in Seq(Nat), NEW t \in Int
    PROVE  /\ Popped(b, t) \in 0 .. Len(b)
           /\ \A j \in 1 .. Popped(b, t) : b[j] < t - Window
           /\ Popped(b, t) < Len(b) => b[Popped(b, t) + 1] >= t - Window
<1> DEFINE Stays(k) == /\ \A j \in 1 .. k : b[j] < t - Window
                       /\ k < Len(b) => b[k + 1] >= t - Window
<1>1. \E k \in 0 .. Len(b) : Stays(k)
  <2> DEFINE T == {j \in 1 .. Len(b) : b[j] >= t - Window}
  <2>0. Window \in Nat /\ Len(b) \in Nat /\ \A j \in 1 .. Len(b) : b[j] \in Nat
    BY WindowNat
  <2>1. CASE T = {}
    <3>1. Stays(Len(b))
      BY <2>0, <2>1
    <3> QED BY <2>0, <3>1
  <2>2. CASE T # {}
    <3>0. T \in SUBSET Nat
      BY <2>0
    <3>1. PICK m \in T : \A j \in T : m <= j
      <4> HIDE DEF T
      <4> QED BY <2>2, <3>0, LeastElement
    <3>2. m - 1 \in 0 .. Len(b) /\ Stays(m - 1)
      BY <2>0, <3>1
    <3> QED BY <3>2
  <2> QED BY <2>1, <2>2
<1>2. Popped(b, t) = CHOOSE k \in 0 .. Len(b) : Stays(k)
  BY DEF Popped
<1> HIDE DEF Stays
<1>3. Popped(b, t) \in 0 .. Len(b) /\ Stays(Popped(b, t))
  BY <1>1, <1>2
<1> QED BY <1>3 DEF Stays

LEMMA EvictedEffect ==
    ASSUME NEW b \in Seq(Nat), NEW t \in Int
    PROVE  /\ Evicted(b, t) \in Seq(Nat)
           /\ Len(Evicted(b, t)) = Len(b) - Popped(b, t)
           /\ \A i \in 1 .. Len(Evicted(b, t)) : Evicted(b, t)[i] = b[Popped(b, t) + i]
<1>1. Popped(b, t) \in 0 .. Len(b) /\ Len(b) \in Nat /\ \A i \in 1 .. Len(b) : b[i] \in Nat
  <2>1. Popped(b, t) \in 0 .. Len(b)
    BY PoppedEffect
  <2> QED BY <2>1
<1>2. SUFFICES ASSUME NEW k \in 0 .. Len(b), NEW e, e = SubSeq(b, k + 1, Len(b))
      PROVE  /\ e \in Seq(Nat)
             /\ Len(e) = Len(b) - k
             /\ \A i \in 1 .. Len(e) : e[i] = b[k + i]
  BY <1>1 DEF Evicted
<1>3. \A i \in k + 1 .. Len(b) : b[i] \in Nat
  BY <1>1
<1>4. /\ e \in Seq(Nat)
      /\ Len(e) = IF k + 1 <= Len(b) THEN Len(b) - (k + 1) + 1 ELSE 0
      /\ \A i \in 1 .. Len(b) - (k + 1) + 1 : e[i] = b[k + 1 + i - 1]
  <2>1. k + 1 \in Int /\ Len(b) \in Int
    BY <1>1
  <2> QED BY <1>2, <1>3, <2>1, SubSeqProperties
<1>5. Len(e) = Len(b) - k
  BY <1>1, <1>4
<1>6. ASSUME NEW i \in 1 .. Len(e) PROVE e[i] = b[k + i]
  <2>1. i \in 1 .. Len(b) - (k + 1) + 1 /\ k + 1 + i - 1 = k + i
    BY <1>1, <1>5
  <2> QED BY <1>4, <2>1
<1> QED BY <1>4, <1>5, <1>6

\* What eviction at time t leaves of a bucket b that ends a history a: exactly
\* the admissions of the window that ends at t.
LeftOf(e, b, a, t) ==
    /\ e \in Seq(Nat) /\ Len(e) \in Nat /\ Len(e) <= Len(b)
    /\ Len(e) = Len(b) => e = b
    /\ \A i \in 1 .. Len(e) : e[i] = a[Len(a) - Len(e) + i]
    /\ \A i \in 1 .. Len(a) - Len(e) : a[i] < t - Window
    /\ \A i \in 1 .. Len(a) : i > Len(a) - Len(e) => a[i] >= t - Window

LEMMA EvictedEndsHistory ==
    ASSUME NEW a \in Seq(Nat), NEW b \in Seq(Nat), NEW t \in Nat,
           Ordered(a, t), EndsHistory(b, a, t)
    PROVE  LeftOf(Evicted(b, t), b, a, t)
<1> SUFFICES ASSUME NEW e, e = Evicted(b, t) PROVE LeftOf(e, b, a, t)
  OBVIOUS
<1>0. /\ Window \in Nat /\ Len(b) \in Nat /\ Len(a) \in Nat
      /\ \A i \in 1 .. Len(a) : a[i] \in Nat
      /\ \A i \in 1 .. Len(b) : b[i] \in Nat
  BY WindowNat
<1>a. \A i, j \in 1 .. Len(a) : i <= j => a[i] <= a[j]
  BY DEF Ordered
<1>b. /\ Len(b) <= Len(a)
      /\ \A i \in 1 .. Len(b) : b[i] = a[Len(a) - Len(b) + i]
      /\ \A i \in 1 .. Len(a) - Len(b) : a[i] < t - Window
  BY DEF EndsHistory
<1>1. PICK k \in 0 .. Len(b) :
        /\ \A j \in 1 .. k : b[j] < t - Window
        /\ k < Len(b) => b[k + 1] >= t - Window
        /\ e \in Seq(Nat)
        /\ Len(e) = Len(b) - k
        /\ \A i \in 1 .. Len(e) : e[i] = b[k + i]
  <2>1. t \in Int
    OBVIOUS
  <2>2. /\ Popped(b, t) \in 0 .. Len(b)
        /\ \A j \in 1 .. Popped(b, t) : b[j] < t - Window
        /\ Popped(b, t) < Len(b) => b[Popped(b, t) + 1] >= t - Window
    BY <2>1, PoppedEffect
  <2>3. /\ e \in Seq(Nat)
        /\ Len(e) = Len(b) - Popped(b, t)
        /\ \A i \in 1 .. Len(e) : e[i] = b[Popped(b, t) + i]
    BY <2>1, EvictedEffect
  <2> QED BY <2>2, <2>3
<1>f. PICK f \in Nat : f = Len(a) - Len(b)
  <2>1. Len(a) - Len(b) \in Nat
    BY <1>0, <1>b
  <2> QED BY <2>1
<1>2. Len(e) \in Nat /\ Len(e) <= Len(b) /\ Len(a) - Len(e) = f + k
  <2>1. Len(e) = Len(b) - k /\ k \in Nat /\ k <= Len(b)
    BY <1>0, <1>1
  <2> QED BY <1>0, <1>f, <2>1
<1>3. Len(e) = Len(b) => e = b
  <2> SUFFICES ASSUME Len(e) = Len(b) PROVE e = b
    OBVIOUS
  <2>1. k = 0
    BY <1>0, <1>1
  <2>2. \A i \in 1 .. Len(e) : e[i] = b[i]
    BY <1>0, <1>1, <2>1
  <2> QED BY <1>1, <2>2, SeqEqual
<1>4. ASSUME NEW i \in 1 .. Len(e) PROVE e[i] = a[Len(a) - Len(e) + i]
  <2>1. k + i \in 1 .. Len(b) /\ f + (k + i) = Len(a) - Len(e) + i
    <3>1. Len(e) = Len(b) - k
      BY <1>1
    <3>2. k + i \in 1 .. Len(b)
      BY <1>0, <3>1
    <3>3. f + (k + i) = (f + k) + i
      OBVIOUS
    <3> QED BY <1>2, <3>2, <3>3
  <2>2. e[i] = b[k + i]
    BY <1>1
  <2>3. b[k + i] = a[f + (k + i)]
    BY <1>b, <1>f, <2>1
  <2> QED BY <2>1, <2>2, <2>3
<1>5. ASSUME NEW i \in 1 .. f + k PROVE a[i] < t - Window
  <2>1. CASE i <= f
    <3>1. i \in 1 .. f
      BY <2>1
    <3> QED BY <1>b, <1>f, <3>1
  <2>2. CASE i > f
    <3>1. PICK j \in 1 .. k : f + j = i
      <4>1. i - f \in 1 .. k /\ f + (i - f) = i
        BY <2>2
      <4> QED BY <4>1
    <3>2. j \in 1 .. Len(b)
      BY <1>0
    <3>3. b[j] = a[i] /\ b[j] < t - Window
      BY <1>1, <1>b, <1>f, <3>1, <3>2
    <3> QED BY <3>3
  <2> QED BY <2>1, <2>2
<1>6. ASSUME NEW i \in 1 .. Len(a), i > f + k PROVE a[i] >= t - Window
  <2>1. k < Len(b) /\ k + 1 \in 1 .. Len(b)
    <3>1. f + k < f + Len(b)
      BY <1>0, <1>f, <1>6
    <3> QED BY <1>0, <3>1
  <2>2. PICK j \in 1 .. Len(a) : j = f + (k + 1) /\ j <= i
    <3>1. f + (k + 1) \in 1 .. Len(a) /\ f + (k + 1) <= i
      BY <1>0, <1>6
    <3> QED BY <3>1
  <2>3. a[j] >= t - Window
    BY <1>1, <1>b, <1>f, <2>1, <2>2
  <2>4. a[j] <= a[i]
    BY <1>a, <2>2
  <2>5. a[i] \in Int /\ a[j] \in Int /\ t - Window \in Int
    BY <1>0
  <2> QED BY <2>3, <2>4, <2>5
<1> QED BY <1>1, <1>2, <1>3, <1>4, <1>5, <1>6 DEF LeftOf

\* When a client is told to come back: x ticks after its oldest entry has left
\* the window, and never a whole second later than it could.
LEMMA RetryAtEffect ==
    ASSUME NEW b \in Seq(Nat), b # << >>, NEW t \in Nat, b[1] >= t - Window
    PROVE  /\ RetryAt(b, t) \in Nat
           /\ b[1] < RetryAt(b, t) - Window
           /\ b[1] >= RetryAt(b, t) - Second - Window
<1>1. b[1] \in Nat /\ Window \in Nat /\ Second \in Nat /\ Second > 0
  BY WindowNat, RateLimiterAssumption
<1>2. PICK x \in Nat : x = b[1] + Window - t
  <2>1. b[1] + Window - t \in Nat
    BY <1>1
  <2> QED BY <2>1
<1>3. PICK q \in Nat : q = x \div Second
  <2>1. x \div Second \in Nat
    BY <1>1
  <2> QED BY <2>1
<1>4. Second * q <= x /\ x < Second * (q + 1)
  BY <1>1, <1>3
<1>5. PICK y \in Nat : y = Second * (q + 1) /\ y - Second <= x /\ x < y
  <2>1. Second * (q + 1) \in Nat /\ Second * (q + 1) - Second = Second * q
    BY <1>1
  <2> QED BY <1>4, <2>1
<1>6. RetryAt(b, t) = t + y
  BY <1>2, <1>3, <1>5 DEF RetryAt
<1> QED BY <1>1, <1>2, <1>5, <1>6

-----------------------------------------------------------------------------
(* What a step does to one client's history.                               *)

\* Evicting keeps the invariant of a client.
LEMMA EvictionKeeps ==
    ASSUME NEW a \in Seq(Nat), NEW b \in Seq(Nat), NEW t \in Nat,
           Ordered(a, t), EndsHistory(b, a, t)
    PROVE  EndsHistory(Evicted(b, t), a, t)
<1> SUFFICES ASSUME NEW e, LeftOf(e, b, a, t) PROVE EndsHistory(e, a, t)
  BY EvictedEndsHistory
<1>1. /\ Len(e) \in Nat /\ Len(e) <= Len(b)
      /\ \A i \in 1 .. Len(e) : e[i] = a[Len(a) - Len(e) + i]
      /\ \A i \in 1 .. Len(a) - Len(e) : a[i] < t - Window
  BY DEF LeftOf
<1>2. Len(b) <= Len(a) /\ Len(b) \in Nat /\ Len(a) \in Nat
  BY DEF EndsHistory
<1>3. Len(e) <= Len(a)
  BY <1>1, <1>2
<1> QED BY <1>1, <1>3 DEF EndsHistory

\* An admission at time t, with fewer than the limit in the window that ends at
\* t, extends the history and its end in the bucket alike.
LEMMA AdmissionKeeps ==
    ASSUME NEW a \in Seq(Nat), NEW e \in Seq(Nat), NEW t \in Nat, NEW n \in Nat,
           Ordered(a, t), EndsHistory(e, a, t), Spaced(a, n), Len(e) < n
    PROVE  /\ Ordered(Append(a, t), t)
           /\ EndsHistory(Append(e, t), Append(a, t), t)
           /\ Spaced(Append(a, t), n)
<1>1. PICK l \in Nat : l = Len(a)
  OBVIOUS
<1>2. PICK k \in Nat : k = Len(e)
  OBVIOUS
<1>3. PICK a1 \in Seq(Nat) :
        /\ a1 = Append(a, t) /\ Len(a1) = l + 1 /\ a1[l + 1] = t
        /\ \A i \in 1 .. l : a1[i] = a[i] /\ a[i] \in Nat
  <2>1. /\ Append(a, t) \in Seq(Nat) /\ Len(Append(a, t)) = l + 1 /\ Append(a, t)[l + 1] = t
        /\ \A i \in 1 .. l : Append(a, t)[i] = a[i]
    BY <1>1, AppendProperties
  <2>2. \A i \in 1 .. l : a[i] \in Nat
    BY <1>1
  <2> QED BY <2>1, <2>2
<1>4. PICK e1 \in Seq(Nat) :
        /\ e1 = Append(e, t) /\ Len(e1) = k + 1 /\ e1[k + 1] = t
        /\ \A i \in 1 .. k : e1[i] = e[i]
  <2>1. /\ Append(e, t) \in Seq(Nat) /\ Len(Append(e, t)) = k + 1 /\ Append(e, t)[k + 1] = t
        /\ \A i \in 1 .. k : Append(e, t)[i] = e[i]
    BY <1>2, AppendProperties
  <2> QED BY <2>1
<1>5. /\ \A i, j \in 1 .. l : i <= j => a[i] <= a[j]
      /\ \A i \in 1 .. l : a[i] <= t
  BY <1>1 DEF Ordered
<1>6. /\ k <= l
      /\ \A i \in 1 .. k : e[i] = a[l - k + i]
      /\ \A i \in 1 .. l - k : a[i] < t - Window
  BY <1>1, <1>2 DEF EndsHistory
<1>7. \A i \in 1 .. l - n : a[i + n] - a[i] > Window
  BY <1>1 DEF Spaced
<1>8. Ordered(a1, t)
  <2>1. \A i \in 1 .. l + 1 : a1[i] <= t
    BY <1>3, <1>5
  <2>2. ASSUME NEW i \in 1 .. l + 1, NEW j \in 1 .. l + 1, i <= j PROVE a1[i] <= a1[j]
    <3>1. CASE j = l + 1
      BY <1>3, <2>1, <3>1
    <3>2. CASE j # l + 1
      <4>1. i \in 1 .. l /\ j \in 1 .. l
        BY <2>2, <3>2
      <4> QED BY <1>3, <1>5, <2>2, <4>1
    <3> QED BY <3>1, <3>2
  <2> QED BY <1>3, <2>1, <2>2 DEF Ordered
<1>9. EndsHistory(e1, a1, t)
  <2>1. k + 1 <= l + 1 /\ (l + 1) - (k + 1) = l - k
    BY <1>6
  <2>2. ASSUME NEW i \in 1 .. k + 1 PROVE e1[i] = a1[l - k + i]
    <3>1. CASE i = k + 1
      <4>1. l - k + i = l + 1
        BY <3>1
      <4> QED BY <1>3, <1>4, <3>1, <4>1
    <3>2. CASE i # k + 1
      <4>1. i \in 1 .. k /\ l - k + i \in 1 .. l
        BY <1>6, <3>2
      <4> QED BY <1>3, <1>4, <1>6, <4>1
    <3> QED BY <3>1, <3>2
  <2>3. ASSUME NEW i \in 1 .. l - k PROVE a1[i] < t - Window
    <3>1. i \in 1 .. l
      BY <1>6
    <3> QED BY <1>3, <1>6, <3>1
  <2>4. Len(a1) - Len(e1) = l - k /\ Len(e1) <= Len(a1) /\ Len(e1) = k + 1
    BY <1>3, <1>4, <2>1
  <2> QED BY <2>2, <2>3, <2>4 DEF EndsHistory
<1>10. Spaced(a1, n)
  <2>1. SUFFICES ASSUME NEW i \in 1 .. (l + 1) - n PROVE a1[i + n] - a1[i] > Window
    BY <1>3 DEF Spaced
  <2>2. i \in 1 .. l /\ k < n
    BY <1>2
  <2>3. CASE i + n = l + 1
    <3>1. i \in 1 .. l - k
      BY <1>6, <2>2, <2>3
    <3>2. a[i] < t - Window
      BY <1>6, <3>1
    <3>3. a1[i] = a[i] /\ a[i] \in Nat /\ a1[i + n] = t
      BY <1>3, <2>2, <2>3
    <3> QED BY <3>2, <3>3, WindowNat
  <2>4. CASE i + n # l + 1
    <3>1. i \in 1 .. l - n /\ i + n \in 1 .. l
      BY <2>4
    <3> QED BY <1>3, <1>7, <2>2, <3>1
  <2> QED BY <2>3, <2>4
<1> QED BY <1>3, <1>4, <1>8, <1>9, <1>10

-----------------------------------------------------------------------------
(* The invariant holds.                                                    *)

LEMMA Initially == Init => IInv
<1> SUFFICES ASSUME Init PROVE IInv
  OBVIOUS
<1>1. TypeOK
  <2>1. [kind |-> "none", retryAt |-> 0] \in Outcome
    BY DEF Outcome
  <2>2. << >> \in Seq(Nat) /\ \A d \in Clients : Len(<< >>) <= Limit[d]
    BY RateLimiterAssumption
  <2> QED BY <2>1, <2>2 DEF Init, TypeOK, Ended
<1>2. ASSUME NEW c \in Clients PROVE ClientInv(c)
  <2>1. bucket[c] = << >> /\ admitted[c] = << >> /\ outcome[c].kind = "none"
    BY DEF Init, Ended
  <2>2. Ordered(<< >>, now) /\ EndsHistory(<< >>, << >>, now) /\ Spaced(<< >>, Limit[c])
    BY RateLimiterAssumption DEF Ordered, EndsHistory, Spaced
  <2>3. ToldWhen(outcome[c], bucket[c], Limit[c])
    BY <2>1 DEF ToldWhen
  <2> QED BY <2>1, <2>2, <2>3 DEF ClientInv
<1> QED BY <1>1, <1>2 DEF IInv

\* The types of one client's state, and what is left of its bucket by now.
LEMMA ClientFacts ==
    ASSUME IInv, NEW c \in Clients
    PROVE  /\ bucket[c] \in Seq(Nat) /\ Len(bucket[c]) <= Limit[c]
           /\ now \in Nat /\ Limit[c] \in Nat
           /\ admitted[c] \in Seq(Nat) /\ outcome[c] \in Outcome
           /\ ClientInv(c)
           /\ LeftOf(Current(c), bucket[c], admitted[c], now)
           /\ EndsHistory(Current(c), admitted[c], now)
           /\ Current(c) \in Seq(Nat) /\ Len(Current(c)) \in Nat
           /\ Len(Current(c)) <= Limit[c]
<1>1. /\ bucket[c] \in Seq(Nat) /\ Len(bucket[c]) <= Limit[c]
      /\ now \in Nat /\ Limit[c] \in Nat
      /\ admitted[c] \in Seq(Nat) /\ outcome[c] \in Outcome
  BY RateLimiterAssumption DEF IInv, TypeOK
<1>2. ClientInv(c)
  BY DEF IInv
<1>3. LeftOf(Current(c), bucket[c], admitted[c], now)
  BY <1>1, <1>2, EvictedEndsHistory DEF ClientInv, Current
<1>4. EndsHistory(Current(c), admitted[c], now)
  BY <1>1, <1>2, EvictionKeeps DEF ClientInv, Current
<1>5. Current(c) \in Seq(Nat) /\ Len(Current(c)) \in Nat /\ Len(Current(c)) <= Len(bucket[c])
  BY <1>3 DEF LeftOf
<1>6. Len(Current(c)) <= Limit[c]
  BY <1>1, <1>5
<1> QED BY <1>1, <1>2, <1>3, <1>4, <1>5, <1>6

\* An operation for c leaves the other clients alone: it keeps the invariant if
\* it keeps it for c.
LEMMA OperationKeeps ==
    ASSUME IInv, NEW c \in Clients, now' = now,
           NEW b \in Seq(Nat), Len(b) <= Limit[c], bucket' = [bucket EXCEPT ![c] = b],
           NEW o \in Outcome, outcome' = [outcome EXCEPT ![c] = o],
           NEW a \in Seq(Nat), admitted' = [admitted EXCEPT ![c] = a],
           Ordered(a, now), EndsHistory(b, a, now), Spaced(a, Limit[c]),
           ToldWhen(o, b, Limit[c])
    PROVE  IInv'
<1>1. TypeOK'
  BY DEF IInv, TypeOK
<1>2. ASSUME NEW d \in Clients PROVE ClientInv(d)'
  <2>1. CASE d = c
    <3>1. bucket'[d] = b /\ outcome'[d] = o /\ admitted'[d] = a
      BY <2>1 DEF IInv, TypeOK
    <3> QED BY <2>1, <3>1 DEF ClientInv
  <2>2. CASE d # c
    <3>1. bucket'[d] = bucket[d] /\ outcome'[d] = outcome[d] /\ admitted'[d] = admitted[d]
      BY <2>2 DEF IInv, TypeOK
    <3>2. ClientInv(d)
      BY DEF IInv
    <3> QED BY <3>1, <3>2 DEF ClientInv
  <2> QED BY <2>1, <2>2
<1> QED BY <1>1, <1>2 DEF IInv

\* However a check of c that refuses ends, and in remaining(), only the eviction
\* touches the bucket.
LEMMA EvictOnly ==
    ASSUME IInv, NEW c \in Clients,
           bucket' = [bucket EXCEPT ![c] = Current(c)],
           NEW o \in Outcome, outcome' = [outcome EXCEPT ![c] = o],
           UNCHANGED <<now, admitted>>,
           ToldWhen(o, Current(c), Limit[c])
    PROVE  IInv'
<1>1. /\ Current(c) \in Seq(Nat) /\ Len(Current(c)) <= Limit[c]
      /\ EndsHistory(Current(c), admitted[c], now)
      /\ admitted[c] \in Seq(Nat) /\ ClientInv(c)
  BY ClientFacts
<1>2. admitted' = [admitted EXCEPT ![c] = admitted[c]] /\ now' = now
  BY DEF IInv, TypeOK
<1>3. Ordered(admitted[c], now) /\ Spaced(admitted[c], Limit[c])
  BY <1>1 DEF ClientInv
<1> QED BY <1>1, <1>2, <1>3, OperationKeeps

LEMMA EndedOutcome ==
    ASSUME NEW kind \in {"none", "allowed", "returned_false", "crashed"}
    PROVE  /\ Ended(kind) \in Outcome
           /\ \A b, n : ToldWhen(Ended(kind), b, n)
BY DEF Ended, Outcome, ToldWhen

LEMMA CheckAllowsKeeps == ASSUME IInv, NEW c \in Clients, CheckAllows(c) PROVE IInv'
<1> DEFINE b == Append(Current(c), now)
           a == Append(admitted[c], now)
<1>1. /\ Current(c) \in Seq(Nat) /\ Len(Current(c)) \in Nat /\ Limit[c] \in Nat
      /\ EndsHistory(Current(c), admitted[c], now) /\ now \in Nat
      /\ admitted[c] \in Seq(Nat) /\ ClientInv(c)
  BY ClientFacts
<1>2. Len(Current(c)) < Limit[c]
  BY <1>1 DEF CheckAllows, Full
<1>3. b \in Seq(Nat) /\ Len(b) <= Limit[c] /\ a \in Seq(Nat)
  BY <1>1, <1>2
<1>4. Ordered(a, now) /\ EndsHistory(b, a, now) /\ Spaced(a, Limit[c])
  BY <1>1, <1>2, AdmissionKeeps DEF ClientInv
<1>5. /\ now' = now /\ bucket' = [bucket EXCEPT ![c] = b]
      /\ outcome' = [outcome EXCEPT ![c] = Ended("allowed")]
      /\ admitted' = [admitted EXCEPT ![c] = a]
  BY DEF CheckAllows
<1>6. Ended("allowed") \in Outcome /\ ToldWhen(Ended("allowed"), b, Limit[c])
  BY EndedOutcome
<1> HIDE DEF a, b
<1> QED BY <1>3, <1>4, <1>5, <1>6, OperationKeeps

LEMMA CheckRaisesKeeps == ASSUME IInv, NEW c \in Clients, CheckRaises(c) PROVE IInv'
<1> DEFINE e == Current(c)
           o == [kind |-> "raised_429", retryAt |-> RetryAt(e, now)]
<1>1. /\ e \in Seq(Nat) /\ Len(e) \in Nat /\ Len(e) <= Limit[c] /\ Limit[c] \in Nat
      /\ now \in Nat /\ admitted[c] \in Seq(Nat) /\ LeftOf(e, bucket[c], admitted[c], now)
      /\ EndsHistory(e, admitted[c], now)
  BY ClientFacts
<1>2. e # << >>
  BY DEF CheckRaises
<1> HIDE DEF e
<1>3. Len(e) >= 1 /\ Limit[c] > 0
  BY <1>1, <1>2
<1>4. e[1] >= now - Window
  <2>1. PICK n \in Nat : n = Len(admitted[c])
    BY <1>1
  <2>2. PICK k \in Nat : k = Len(e) /\ k >= 1
    BY <1>3, <1>1
  <2>3. k <= n
    BY <1>1, <2>1, <2>2 DEF EndsHistory
  <2>4. n - k + 1 \in 1 .. n /\ n - k + 1 > n - k
    BY <2>2, <2>3
  <2>5. e[1] = admitted[c][n - k + 1]
    BY <1>1, <2>1, <2>2 DEF LeftOf
  <2>6. admitted[c][n - k + 1] >= now - Window
    BY <1>1, <2>1, <2>2, <2>4 DEF LeftOf
  <2> QED BY <2>5, <2>6
<1>5. /\ RetryAt(e, now) \in Nat
      /\ e[1] < RetryAt(e, now) - Window
      /\ e[1] >= RetryAt(e, now) - Second - Window
  BY <1>1, <1>2, <1>4, RetryAtEffect
<1>6. o \in Outcome
  BY <1>5 DEF Outcome
<1>7. ToldWhen(o, e, Limit[c])
  BY <1>3, <1>5 DEF ToldWhen
<1>8. /\ bucket' = [bucket EXCEPT ![c] = Current(c)]
      /\ outcome' = [outcome EXCEPT ![c] = o]
      /\ UNCHANGED <<now, admitted>>
  BY DEF CheckRaises, e
<1> HIDE DEF o
<1> QED BY <1>6, <1>7, <1>8, EvictOnly DEF e

LEMMA CheckCrashesKeeps == ASSUME IInv, NEW c \in Clients, CheckCrashes(c) PROVE IInv'
<1>1. Ended("crashed") \in Outcome /\ ToldWhen(Ended("crashed"), Current(c), Limit[c])
  BY EndedOutcome
<1> QED BY <1>1, EvictOnly DEF CheckCrashes

LEMMA CheckReturnsFalseKeeps ==
    ASSUME IInv, NEW c \in Clients, CheckReturnsFalse(c) PROVE IInv'
<1>1. /\ Ended("returned_false") \in Outcome
      /\ ToldWhen(Ended("returned_false"), Current(c), Limit[c])
  BY EndedOutcome
<1> QED BY <1>1, EvictOnly DEF CheckReturnsFalse

\* A client that was told when to come back keeps its answer: remaining() either
\* evicts an entry, which makes room, or changes nothing.
LEMMA RemainingKeeps == ASSUME IInv, NEW c \in Clients, Remaining(c) PROVE IInv'
<1>1. /\ outcome[c] \in Outcome /\ LeftOf(Current(c), bucket[c], admitted[c], now)
      /\ bucket[c] \in Seq(Nat) /\ Len(bucket[c]) <= Limit[c] /\ Limit[c] \in Nat
      /\ ClientInv(c)
  BY ClientFacts
<1>2. ToldWhen(outcome[c], bucket[c], Limit[c])
  BY <1>1 DEF ClientInv
<1>3. Len(Current(c)) = Limit[c] => Current(c) = bucket[c]
  <2>1. /\ Len(Current(c)) \in Nat /\ Len(Current(c)) <= Len(bucket[c])
        /\ Len(Current(c)) = Len(bucket[c]) => Current(c) = bucket[c]
    BY <1>1 DEF LeftOf
  <2>2. Len(bucket[c]) \in Nat
    BY <1>1
  <2> QED BY <1>1, <2>1, <2>2
<1>4. ToldWhen(outcome[c], Current(c), Limit[c])
  BY <1>2, <1>3 DEF ToldWhen
<1>5. outcome' = [outcome EXCEPT ![c] = outcome[c]]
  BY DEF Remaining, IInv, TypeOK
<1> QED BY <1>1, <1>4, <1>5, EvictOnly DEF Remaining

LEMMA ResetKeeps == ASSUME IInv, NEW c \in Clients, Reset(c) PROVE IInv'
<1>1. Ended("none") \in Outcome /\ ToldWhen(Ended("none"), << >>, Limit[c])
  BY EndedOutcome
<1>2. Limit[c] \in Nat
  BY RateLimiterAssumption
<1>3. << >> \in Seq(Nat) /\ Len(<< >>) <= Limit[c]
  BY <1>2
<1>4. Ordered(<< >>, now) /\ EndsHistory(<< >>, << >>, now) /\ Spaced(<< >>, Limit[c])
  BY <1>2 DEF Ordered, EndsHistory, Spaced
<1>5. /\ now' = now /\ bucket' = [bucket EXCEPT ![c] = << >>]
      /\ outcome' = [outcome EXCEPT ![c] = Ended("none")]
      /\ admitted' = [admitted EXCEPT ![c] = << >>]
  BY DEF Reset
<1> QED BY <1>1, <1>3, <1>4, <1>5, OperationKeeps

\* What is older than a window stays older than a window.
LEMMA TickKeeps == ASSUME IInv, Tick PROVE IInv'
<1>1. TypeOK'
  BY DEF IInv, TypeOK, Tick
<1>2. ASSUME NEW c \in Clients PROVE ClientInv(c)'
  <2>1. /\ bucket'[c] = bucket[c] /\ outcome'[c] = outcome[c] /\ admitted'[c] = admitted[c]
        /\ now' = now + 1
    BY DEF Tick
  <2>2. ClientInv(c) /\ admitted[c] \in Seq(Nat) /\ bucket[c] \in Seq(Nat) /\ now \in Nat
    BY ClientFacts
  <2>3. PICK a \in Seq(Nat), b \in Seq(Nat), t \in Nat :
          a = admitted[c] /\ b = bucket[c] /\ t = now
    BY <2>2
  <2>4. \A i \in 1 .. Len(a) : a[i] \in Nat
    OBVIOUS
  <2>5. Ordered(a, t + 1)
    BY <2>2, <2>3, <2>4 DEF ClientInv, Ordered
  <2>6. EndsHistory(b, a, t + 1)
    <3>1. EndsHistory(b, a, t)
      BY <2>2, <2>3 DEF ClientInv
    <3>2. ASSUME NEW i \in 1 .. Len(a) - Len(b) PROVE a[i] < (t + 1) - Window
      <4>1. a[i] < t - Window
        BY <3>1 DEF EndsHistory
      <4>2. i \in 1 .. Len(a)
        OBVIOUS
      <4> QED BY <2>4, <4>1, <4>2, WindowNat
    <3> QED BY <3>1, <3>2 DEF EndsHistory
  <2> QED BY <2>1, <2>2, <2>3, <2>5, <2>6 DEF ClientInv
<1> QED BY <1>1, <1>2 DEF IInv

LEMMA StepKeeps == IInv /\ [Next]_vars => IInv'
<1> SUFFICES ASSUME IInv, [Next]_vars PROVE IInv'
  OBVIOUS
<1>1. CASE UNCHANGED vars
  BY <1>1 DEF vars, IInv, TypeOK, ClientInv
<1>2. ASSUME NEW c \in Clients, CheckAllows(c) PROVE IInv'
  BY <1>2, CheckAllowsKeeps
<1>3. ASSUME NEW c \in Clients, CheckRaises(c) PROVE IInv'
  BY <1>3, CheckRaisesKeeps
<1>4. ASSUME NEW c \in Clients, CheckCrashes(c) PROVE IInv'
  BY <1>4, CheckCrashesKeeps
<1>5. ASSUME NEW c \in Clients, CheckReturnsFalse(c) PROVE IInv'
  BY <1>5, CheckReturnsFalseKeeps
<1>6. ASSUME NEW c \in Clients, Remaining(c) PROVE IInv'
  BY <1>6, RemainingKeeps
<1>7. ASSUME NEW c \in Clients, Reset(c) PROVE IInv'
  BY <1>7, ResetKeeps
<1>8. CASE Tick
  BY <1>8, TickKeeps
<1> QED BY <1>1, <1>2, <1>3, <1>4, <1>5, <1>6, <1>7, <1>8 DEF Next

\* The inductive invariant holds of every behaviour of check(), remaining() and
\* reset().
THEOREM InvariantHolds == Spec => []IInv
BY Initially, StepKeeps, PTL DEF Spec

\* The buckets are sequences of times, and no bucket is ever longer than its
\* client's limit.
THEOREM TypeCorrect == Spec => []TypeOK
<1>1. IInv => TypeOK
  BY DEF IInv
<1> QED BY <1>1, InvariantHolds, PTL

\* No window holds more admissions of a client than its limit, although check()
\* and remaining() keep evicting entries of the bucket it is counted in.
THEOREM NeverAboveTheLimit == Spec => []AtMostLimitPerWindow
<1>1. IInv => AtMostLimitPerWindow
  BY DEF IInv, ClientInv, Spaced, AtMostLimitPerWindow
<1> QED BY <1>1, InvariantHolds, PTL

LEMMA ExactForClient ==
    ASSUME IInv, NEW c \in Clients, outcome[c].kind = "raised_429"
    PROVE  /\ Len(Evicted(bucket[c], outcome[c].retryAt)) < Limit[c]
           /\ Len(bucket[c]) = Limit[c] =>
                Len(Evicted(bucket[c], outcome[c].retryAt - Second)) = Limit[c]
<1>1. PICK b \in Seq(Nat), r \in Nat, n \in Nat :
        /\ b = bucket[c] /\ r = outcome[c].retryAt /\ n = Limit[c] /\ Len(b) <= n
        /\ n > 0
        /\ Len(b) = n => b[1] < r - Window /\ b[1] >= r - Second - Window
  <2>1. /\ bucket[c] \in Seq(Nat) /\ Len(bucket[c]) <= Limit[c] /\ Limit[c] \in Nat
        /\ outcome[c] \in Outcome /\ ToldWhen(outcome[c], bucket[c], Limit[c])
    BY ClientFacts DEF ClientInv
  <2>2. outcome[c].retryAt \in Nat
    BY <2>1 DEF Outcome
  <2> QED BY <2>1, <2>2 DEF ToldWhen
<1>2. /\ Len(b) \in Nat /\ r \in Int /\ r - Second \in Int /\ Window \in Nat /\ Second \in Nat
      /\ \A i \in 1 .. Len(b) : b[i] \in Nat
  BY WindowNat, RateLimiterAssumption
<1>3. Len(Evicted(b, r)) < n
  <2>1. /\ Len(Evicted(b, r)) = Len(b) - Popped(b, r)
        /\ Popped(b, r) \in 0 .. Len(b)
        /\ Popped(b, r) < Len(b) => b[Popped(b, r) + 1] >= r - Window
    BY <1>2, EvictedEffect, PoppedEffect
  <2>2. CASE Len(b) = n
    <3>1. Popped(b, r) # 0
      <4> SUFFICES ASSUME Popped(b, r) = 0 PROVE FALSE
        OBVIOUS
      <4>1. b[1] >= r - Window
        BY <1>1, <2>1, <2>2
      <4>2. b[1] < r - Window /\ b[1] \in Nat
        BY <1>1, <1>2, <2>2
      <4> QED BY <1>2, <4>1, <4>2
    <3> QED BY <1>2, <2>1, <2>2, <3>1
  <2>3. CASE Len(b) # n
    <3>1. Len(b) < n
      BY <1>1, <1>2, <2>3
    <3>2. Len(Evicted(b, r)) <= Len(b)
      BY <1>2, <2>1
    <3> QED BY <1>2, <2>1, <3>1, <3>2
  <2> QED BY <2>2, <2>3
<1>4. ASSUME Len(b) = n PROVE Len(Evicted(b, r - Second)) = n
  <2>1. /\ Len(Evicted(b, r - Second)) = Len(b) - Popped(b, r - Second)
        /\ Popped(b, r - Second) \in 0 .. Len(b)
        /\ \A j \in 1 .. Popped(b, r - Second) : b[j] < r - Second - Window
    BY <1>2, EvictedEffect, PoppedEffect
  <2>2. b[1] \in Nat /\ ~ (b[1] < r - Second - Window)
    <3>1. 1 \in 1 .. Len(b)
      BY <1>1, <1>2, <1>4
    <3>2. b[1] >= r - Second - Window
      BY <1>1, <1>4
    <3> QED BY <1>2, <3>1, <3>2
  <2>3. Popped(b, r - Second) = 0
    BY <1>2, <2>1, <2>2
  <2> QED BY <1>2, <1>4, <2>1, <2>3
<1> QED BY <1>1, <1>3, <1>4

\* Whatever is asked in between, a client that comes back when the 429 told it to
\* finds room, and one second earlier does not.
THEOREM RetryAfterExact == Spec => []RetryAfterIsExact
<1>1. IInv => RetryAfterIsExact
  BY ExactForClient DEF RetryAfterIsExact
<1> QED BY <1>1, InvariantHolds, PTL

-----------------------------------------------------------------------------
(* Refinement of the promise.                                              *)

Answer(o) ==
    CASE o.kind = "none"    -> "none"
      [] o.kind = "allowed" -> "admitted"
      [] OTHER              -> "refused"

Answers == [c \in Clients |-> Answer(outcome[c])]

\* The limiter counts the entries left in the bucket; the promise counts the
\* whole history.  They agree.
LEMMA SameCount ==
    ASSUME IInv, NEW c \in Clients
    PROVE  Cardinality(Promise!InWindow(c)) = Len(Current(c))
<1>1. PICK a \in Seq(Nat), k \in Nat :
        /\ a = admitted[c] /\ k = Len(Current(c)) /\ k <= Len(a)
        /\ \A i \in 1 .. Len(a) - k : a[i] < now - Window
        /\ \A i \in 1 .. Len(a) : i > Len(a) - k => a[i] >= now - Window
  <2>1. /\ admitted[c] \in Seq(Nat) /\ Len(Current(c)) \in Nat
        /\ Len(Current(c)) <= Len(admitted[c])
    BY ClientFacts DEF EndsHistory
  <2>2. LeftOf(Current(c), bucket[c], admitted[c], now)
    BY ClientFacts
  <2> QED BY <2>1, <2>2 DEF LeftOf
<1>2. PICK n \in Nat : n = Len(a)
  OBVIOUS
<1>3. now \in Nat /\ Window \in Nat /\ \A i \in 1 .. n : a[i] \in Nat
  BY <1>2, ClientFacts, WindowNat
<1>4. Promise!InWindow(c) = {i \in 1 .. n : a[i] >= now - Window}
  BY <1>1, <1>2 DEF Promise!InWindow
<1>5. {i \in 1 .. n : a[i] >= now - Window} = (n - k + 1) .. n
  <2>1. ASSUME NEW i \in 1 .. n, a[i] >= now - Window PROVE i \in (n - k + 1) .. n
    <3>1. CASE i <= n - k
      <4>1. i \in 1 .. Len(a) - k
        BY <1>2, <3>1
      <4>2. a[i] < now - Window
        BY <1>1, <4>1
      <4> QED BY <1>3, <2>1, <4>2
    <3> QED BY <3>1
  <2>2. ASSUME NEW i \in (n - k + 1) .. n PROVE i \in 1 .. n /\ a[i] >= now - Window
    BY <1>1, <1>2
  <2> QED BY <2>1, <2>2
<1>6. Cardinality((n - k + 1) .. n) = k
  <2>1. n - k + 1 \in Int /\ n \in Int /\ n - k + 1 <= n + 1
    OBVIOUS
  <2>2. Cardinality((n - k + 1) .. n) = IF n - k + 1 > n THEN 0 ELSE n - (n - k + 1) + 1
    BY <2>1, FS_Interval
  <2> QED BY <2>2
<1> QED BY <1>1, <1>4, <1>5, <1>6

LEMMA SameCardinality == \A S : Promise!Cardinality(S) = Cardinality(S)
BY DEF Promise!Cardinality, Cardinality

LEMMA AnswersStep ==
    ASSUME TypeOK, NEW c \in Clients, NEW o, outcome' = [outcome EXCEPT ![c] = o]
    PROVE  Answers' = [Answers EXCEPT ![c] = Answer(o)]
BY DEF TypeOK, Answers

LEMMA StepMaps == IInv /\ [Next]_vars => [Promise!Next]_(Promise!vars)
<1> SUFFICES ASSUME IInv, [Next]_vars PROVE [Promise!Next]_(Promise!vars)
  OBVIOUS
<1>0. TypeOK /\ Promise!vars = <<now, Answers, admitted>>
  BY DEF IInv, Promise!vars, Answers, Answer
<1>a. ASSUME NEW c \in Clients
      PROVE  /\ Promise!Cardinality(Promise!InWindow(c)) = Len(Current(c))
             /\ Len(Current(c)) \in Nat /\ Limit[c] \in Nat
  BY SameCount, SameCardinality, ClientFacts
<1>b. ASSUME NEW c \in Clients, Full(c), Answers' = [Answers EXCEPT ![c] = "refused"],
             UNCHANGED <<now, admitted>>
      PROVE  Promise!Next
  <2>1. Promise!Refuse(c)
    BY <1>a, <1>b DEF Promise!Refuse, Full, Answers, Answer
  <2> QED BY <2>1 DEF Promise!Next
<1>1. CASE UNCHANGED vars
  BY <1>0, <1>1 DEF vars, Answers, Answer, Promise!vars
<1>2. ASSUME NEW c \in Clients, CheckAllows(c) PROVE Promise!Next
  <2>1. Answers' = [Answers EXCEPT ![c] = "admitted"]
    <3>1. Answer(Ended("allowed")) = "admitted"
      BY DEF Answer, Ended
    <3> QED BY <1>0, <1>2, <3>1, AnswersStep DEF CheckAllows
  <2>2. Promise!Admit(c)
    BY <1>a, <1>2, <2>1 DEF CheckAllows, Full, Promise!Admit, Answers, Answer
  <2> QED BY <2>2 DEF Promise!Next
<1>3. ASSUME NEW c \in Clients, CheckRaises(c) PROVE Promise!Next
  <2>1. Answer([kind |-> "raised_429", retryAt |-> RetryAt(Current(c), now)]) = "refused"
    BY DEF Answer
  <2>2. Answers' = [Answers EXCEPT ![c] = "refused"]
    BY <1>0, <1>3, <2>1, AnswersStep DEF CheckRaises
  <2> QED BY <1>b, <1>3, <2>2 DEF CheckRaises
<1>4. ASSUME NEW c \in Clients, CheckCrashes(c) PROVE Promise!Next
  <2>1. Answer(Ended("crashed")) = "refused"
    BY DEF Answer, Ended
  <2>2. Answers' = [Answers EXCEPT ![c] = "refused"]
    BY <1>0, <1>4, <2>1, AnswersStep DEF CheckCrashes
  <2> QED BY <1>b, <1>4, <2>2 DEF CheckCrashes
<1>5. ASSUME NEW c \in Clients, CheckReturnsFalse(c) PROVE Promise!Next
  <2>1. Answer(Ended("returned_false")) = "refused"
    BY DEF Answer, Ended
  <2>2. Answers' = [Answers EXCEPT ![c] = "refused"]
    BY <1>0, <1>5, <2>1, AnswersStep DEF CheckReturnsFalse
  <2> QED BY <1>b, <1>5, <2>2 DEF CheckReturnsFalse
<1>6. ASSUME NEW c \in Clients, Remaining(c) PROVE UNCHANGED Promise!vars
  <2>1. UNCHANGED <<now, Answers, admitted>>
    BY <1>6 DEF Remaining, Answers, Answer
  <2> QED BY <2>1 DEF Promise!vars, Answers, Answer
<1>7. ASSUME NEW c \in Clients, Reset(c) PROVE Promise!Next
  <2>1. Answer(Ended("none")) = "none"
    BY DEF Answer, Ended
  <2>2. Answers' = [Answers EXCEPT ![c] = "none"]
    BY <1>0, <1>7, <2>1, AnswersStep DEF Reset
  <2>3. Promise!Forget(c)
    BY <1>7, <2>2 DEF Reset, Promise!Forget, Answers, Answer
  <2> QED BY <2>3 DEF Promise!Next
<1>8. CASE Tick
  <2>1. Promise!TimePasses
    BY <1>8 DEF Tick, Promise!TimePasses
  <2> QED BY <2>1 DEF Promise!Next
<1> QED BY <1>1, <1>2, <1>3, <1>4, <1>5, <1>6, <1>7, <1>8 DEF Next

\* The limiter implements a limiter that never forgets: every check is decided
\* as if all admissions since the last reset() were still known.
THEOREM Refinement == Spec => ImplementsWindow
<1>1. Init => Promise!Init
  BY DEF Init, Ended, Promise!Init
<1>2. Spec => Promise!Spec
  BY <1>1, StepMaps, InvariantHolds, PTL DEF Spec, Promise!Spec
<1> QED BY <1>2 DEF ImplementsWindow

=============================================================================
