------------------------- MODULE MemoryCacheProofs -------------------------
(***************************************************************************)
(* Theorems about MemoryCache for every time to live, limit, set of keys   *)
(* and number of set() calls.                                              *)
(***************************************************************************)
EXTENDS MemoryCache, FiniteSetTheorems, TLAPS

(***************************************************************************)
(* The inductive invariant.  A stored entry is the one that its key's      *)
(* latest set() wrote: without that, nothing ties what get() returns to    *)
(* the history it is measured by.                                          *)
(***************************************************************************)
Entries ==
    \A k \in DOMAIN store :
        /\ store[k].value = current[k].value
        /\ store[k].expires = current[k].time + Ttl
        /\ current[k].value > 0

IInv == TypeOK /\ Entries /\ Bounded /\ FreshHits

-----------------------------------------------------------------------------
(* The operators of Cache.                                                 *)

LEMMA WithoutEffect ==
    ASSUME NEW s, NEW keys
    PROVE  /\ DOMAIN Without(s, keys) = DOMAIN s \ keys
           /\ \A k \in DOMAIN s \ keys : Without(s, keys)[k] = s[k]
BY DEF Without

LEMMA WriteEffect ==
    ASSUME NEW s, NEW k, NEW e
    PROVE  /\ DOMAIN Write(s, k, e) = DOMAIN s \union {k}
           /\ Write(s, k, e)[k] = e
           /\ \A j \in DOMAIN s \ {k} : Write(s, k, e)[j] = s[j]
BY DEF Write

\* What get() leaves behind is a part of what was there, and what it finds is
\* there and has not expired.
LEMMA AfterGetEffect ==
    ASSUME NEW s, NEW k, NEW t
    PROVE  /\ DOMAIN AfterGet(s, k, t) \subseteq DOMAIN s
           /\ \A j \in DOMAIN AfterGet(s, k, t) : AfterGet(s, k, t)[j] = s[j]
           /\ \/ Found(s, k, t) = {}
              \/ Found(s, k, t) = {s[k].value} /\ k \in DOMAIN s /\ ~ Expired(s, k, t)
<1>1. CASE k \in DOMAIN s /\ Expired(s, k, t)
  <2>1. AfterGet(s, k, t) = Without(s, {k}) /\ Found(s, k, t) = {}
    BY <1>1 DEF AfterGet, Found
  <2>2. /\ DOMAIN Without(s, {k}) = DOMAIN s \ {k}
        /\ \A j \in DOMAIN s \ {k} : Without(s, {k})[j] = s[j]
    BY WithoutEffect
  <2> HIDE DEF Without
  <2> QED BY <2>1, <2>2
<1>2. CASE ~ (k \in DOMAIN s /\ Expired(s, k, t))
  BY <1>2 DEF AfterGet, Found
<1> QED BY <1>1, <1>2

\* set() without and with room to be made.
LEMMA WriteWithoutEffect ==
    ASSUME NEW s, NEW j, NEW k, NEW e
    PROVE  /\ DOMAIN Write(Without(s, {j}), k, e) = (DOMAIN s \ {j}) \union {k}
           /\ Write(Without(s, {j}), k, e)[k] = e
           /\ \A i \in (DOMAIN s \ {j}) \ {k} : Write(Without(s, {j}), k, e)[i] = s[i]
<1> DEFINE w == Without(s, {j})
<1>1. DOMAIN w = DOMAIN s \ {j} /\ \A i \in DOMAIN s \ {j} : w[i] = s[i]
  BY WithoutEffect
<1> HIDE DEF w
<1>2. /\ DOMAIN Write(w, k, e) = DOMAIN w \union {k}
      /\ Write(w, k, e)[k] = e
      /\ \A i \in DOMAIN w \ {k} : Write(w, k, e)[i] = w[i]
  BY DEF Write
<1>3. /\ DOMAIN Write(w, k, e) = (DOMAIN s \ {j}) \union {k}
      /\ Write(w, k, e)[k] = e
      /\ \A i \in (DOMAIN s \ {j}) \ {k} : Write(w, k, e)[i] = s[i]
  BY <1>1, <1>2
<1> QED BY <1>3 DEF w

\* set() adds its entry, changes no other, and gives up at most one, which is
\* among the first to expire.
LEMMA AfterSetEffect ==
    ASSUME NEW s, NEW k, NEW v, NEW t, NEW new \in AfterSet(s, k, v, t)
    PROVE  /\ DOMAIN new \subseteq DOMAIN s \union {k}
           /\ k \in DOMAIN new
           /\ new[k] = Entry(v, t)
           /\ \A i \in DOMAIN new \ {k} : i \in DOMAIN s /\ new[i] = s[i]
           /\ \A i \in DOMAIN s \ DOMAIN new :
                i \in Evictable(s) /\ MakesRoom(s) /\ DOMAIN s \ DOMAIN new = {i}
<1>1. CASE MakesRoom(s) /\ DOMAIN s # {}
  <2>1. PICK j \in Evictable(s) : new = Write(Without(s, {j}), k, Entry(v, t))
    BY <1>1 DEF AfterSet
  <2>2. /\ DOMAIN new = (DOMAIN s \ {j}) \union {k}
        /\ new[k] = Entry(v, t)
        /\ \A i \in (DOMAIN s \ {j}) \ {k} : new[i] = s[i]
    BY <2>1 DEF Write, Without
  <2>3. \A i \in DOMAIN s \ DOMAIN new :
          i \in Evictable(s) /\ MakesRoom(s) /\ DOMAIN s \ DOMAIN new = {i}
    BY <1>1, <2>2
  <2> QED BY <2>2, <2>3
<1>2. CASE ~ (MakesRoom(s) /\ DOMAIN s # {})
  <2>1. new = Write(s, k, Entry(v, t))
    BY <1>2 DEF AfterSet
  <2>2. /\ DOMAIN new = DOMAIN s \union {k}
        /\ new[k] = Entry(v, t)
        /\ \A i \in DOMAIN s \ {k} : new[i] = s[i]
    BY <2>1 DEF Write
  <2> QED BY <2>2
<1> QED BY <1>1, <1>2

Room == IF MaxSize = 0 THEN 1 ELSE MaxSize

\* One more element.
LEMMA AddOne ==
    ASSUME NEW S, IsFiniteSet(S), NEW x
    PROVE  /\ IsFiniteSet(S \union {x})
           /\ Cardinality(S \union {x}) \in Nat
           /\ Cardinality(S) \in Nat
           /\ Cardinality(S \union {x}) <= Cardinality(S) + 1
<1>1. IsFiniteSet(S \union {x})
  BY FS_AddElement
<1>2. Cardinality(S \union {x}) = Cardinality(S) \/ Cardinality(S \union {x}) = Cardinality(S) + 1
  BY FS_AddElement
<1>3. Cardinality(S \union {x}) \in Nat /\ Cardinality(S) \in Nat
  BY <1>1, FS_CardinalityType
<1> QED BY <1>1, <1>2, <1>3

\* set() keeps the dictionary within its limit: it gives up an entry exactly
\* when there would be one too many, or more often.
LEMMA AfterSetBounded ==
    ASSUME NEW s, IsFiniteSet(DOMAIN s), Cardinality(DOMAIN s) <= Room,
           NEW k, NEW v, NEW t, NEW new \in AfterSet(s, k, v, t)
    PROVE  Cardinality(DOMAIN new) <= Room
<1> DEFINE D == DOMAIN s
<1>0. /\ IsFiniteSet(D) /\ Cardinality(D) \in Nat
      /\ MaxSize \in Nat
      /\ Room \in Nat /\ MaxSize <= Room /\ 1 <= Room
      /\ Cardinality(D) <= Room
  BY FS_CardinalityType, CacheAssumption DEF Room
<1>1. CASE MakesRoom(s) /\ D # {}
  <2>1. PICK j \in Evictable(s) : new = Write(Without(s, {j}), k, Entry(v, t))
    BY <1>1 DEF AfterSet
  <2>2. DOMAIN new = (D \ {j}) \union {k}
    BY <2>1 DEF Write, Without
  <2>3. j \in D
    BY DEF Evictable
  <2> HIDE DEF D
  <2>4. IsFiniteSet(D \ {j}) /\ Cardinality(D \ {j}) = Cardinality(D) - 1
    BY <1>0, <2>3, FS_RemoveElement
  <2> DEFINE E == D \ {j}
  <2>5. Cardinality(E \union {k}) \in Nat /\ Cardinality(E \union {k}) <= Cardinality(E) + 1
    <3>1. IsFiniteSet(E)
      BY <2>4
    <3> HIDE DEF E
    <3> QED BY <3>1, AddOne
  <2>6. Cardinality(E \union {k}) <= Room
    <3>1. Cardinality(E) = Cardinality(D) - 1
      BY <2>4
    <3> HIDE DEF E
    <3> QED BY <1>0, <2>5, <3>1
  <2>7. DOMAIN new = E \union {k}
    BY <2>2
  <2> HIDE DEF E
  <2> QED BY <2>6, <2>7
<1>2. CASE ~ (MakesRoom(s) /\ D # {})
  <2>1. new = Write(s, k, Entry(v, t))
    BY <1>2 DEF AfterSet
  <2>2. DOMAIN new = D \union {k}
    BY <2>1 DEF Write
  <2>3. Cardinality(D) = 0 \/ Cardinality(D) < MaxSize
    BY <1>0, <1>2, FS_EmptySet DEF MakesRoom
  <2> HIDE DEF D
  <2>4. Cardinality(D \union {k}) \in Nat /\ Cardinality(D \union {k}) <= Cardinality(D) + 1
    BY <1>0, AddOne
  <2> QED BY <1>0, <2>2, <2>3, <2>4
<1> QED BY <1>1, <1>2

-----------------------------------------------------------------------------
(* The invariant.                                                          *)

LEMMA InvariantInit == Init => IInv
<1> SUFFICES ASSUME Init PROVE IInv
  OBVIOUS
<1> USE DEF Init
<1>1. DOMAIN store = {}
  BY DEF EmptyStore
<1>2. TypeOK
  BY <1>1, MemoryCacheAssumption DEF TypeOK, Never
<1>3. Entries
  BY <1>1 DEF Entries
<1>4. Bounded
  BY <1>1, FS_EmptySet, CacheAssumption DEF Bounded
<1>5. FreshHits
  BY DEF FreshHits
<1> QED BY <1>2, <1>3, <1>4, <1>5 DEF IInv

\* A dictionary that holds a part of another is no larger.
LEMMA PartBounded ==
    ASSUME TypeOK, Bounded, DOMAIN store' \subseteq DOMAIN store
    PROVE  Bounded'
<1>1. IsFiniteSet(DOMAIN store)
  BY MemoryCacheAssumption, FS_Subset DEF TypeOK
<1>2. /\ Cardinality(DOMAIN store') <= Cardinality(DOMAIN store)
      /\ Cardinality(DOMAIN store) \in Nat /\ Cardinality(DOMAIN store') \in Nat
  BY <1>1, FS_Subset, FS_CardinalityType
<1> QED BY <1>2, CacheAssumption DEF Bounded

\* get() only drops, and returns what the latest set() stored.
LEMMA GetStep ==
    ASSUME IInv, NEW k \in Keys, Get(k)
    PROVE  IInv'
<1>0. TypeOK /\ Entries /\ Bounded /\ FreshHits
  BY DEF IInv
<1>1. UNCHANGED <<now, sets, current>> /\ got' = <<k, Found(store, k, now)>>
  BY DEF Get
<1>2. /\ DOMAIN store' \subseteq DOMAIN store
      /\ \A j \in DOMAIN store' : store'[j] = store[j]
  BY AfterGetEffect DEF Get
<1>3. \/ Found(store, k, now) = {}
      \/ Found(store, k, now) = {store[k].value} /\ k \in DOMAIN store /\ ~ Expired(store, k, now)
  BY AfterGetEffect
<1>4. TypeOK'
  <2>1. /\ DOMAIN store' \subseteq Keys
        /\ \A j \in DOMAIN store' : store'[j] \in [expires : Nat, value : 1 .. sets']
    BY <1>0, <1>1, <1>2 DEF TypeOK
  <2>2. got' \in {<<j, {v}>> : j \in Keys, v \in 1 .. sets'} \union {<<j, {}>> : j \in Keys}
    <3>1. CASE Found(store, k, now) = {}
      BY <1>1, <3>1
    <3>2. CASE Found(store, k, now) = {store[k].value} /\ k \in DOMAIN store
      <4>1. store[k].value \in 1 .. sets
        BY <1>0, <3>2 DEF TypeOK
      <4> QED BY <1>1, <3>2, <4>1
    <3> QED BY <1>3, <3>1, <3>2
  <2> QED BY <1>0, <1>1, <2>1, <2>2 DEF TypeOK
<1>5. Entries'
  BY <1>0, <1>1, <1>2 DEF Entries
<1>6. Bounded'
  BY <1>0, <1>2, PartBounded
<1>7. FreshHits'
  <2>1. CASE Found(store, k, now) = {}
    BY <1>1, <2>1 DEF FreshHits
  <2>2. CASE Found(store, k, now) = {store[k].value} /\ k \in DOMAIN store /\ ~ Expired(store, k, now)
    <3>1. /\ store[k].value = current[k].value
          /\ store[k].expires = current[k].time + Ttl
      BY <1>0, <2>2 DEF Entries
    <3>2. now \in Nat /\ store[k].expires \in Nat /\ current[k].time \in Nat /\ Ttl \in Nat
      BY <1>0, <2>2, MemoryCacheAssumption, CacheAssumption DEF TypeOK
    <3>3. now - current[k].time <= Ttl
      BY <2>2, <3>1, <3>2 DEF Expired
    <3> QED BY <1>1, <2>2, <3>1, <3>3 DEF FreshHits
  <2> QED BY <1>3, <2>1, <2>2
<1> QED BY <1>4, <1>5, <1>6, <1>7 DEF IInv

\* set() stores one entry, the new current one of its key, and makes room.
LEMMA SetStep ==
    ASSUME IInv, NEW k \in Keys, Set(k)
    PROVE  IInv'
<1>0. TypeOK /\ Entries /\ Bounded
  BY DEF IInv
<1>1. /\ sets < MaxSets /\ sets' = sets + 1 /\ now' = now /\ got' = << >>
      /\ current' = [current EXCEPT ![k] = [value |-> sets', time |-> now]]
      /\ store' \in AfterSet(store, k, sets', now)
  BY DEF Set
<1>2. /\ DOMAIN store' \subseteq DOMAIN store \union {k}
      /\ store'[k] = Entry(sets', now)
      /\ \A j \in DOMAIN store' \ {k} : j \in DOMAIN store /\ store'[j] = store[j]
  BY <1>1, AfterSetEffect
<1>3. sets \in Nat /\ now \in Nat /\ Ttl \in Nat /\ MaxSets \in Nat
  BY <1>0, MemoryCacheAssumption, CacheAssumption DEF TypeOK
<1>4. /\ current'[k] = [value |-> sets', time |-> now]
      /\ \A j \in Keys \ {k} : current'[j] = current[j]
  BY <1>0, <1>1 DEF TypeOK
<1>5. TypeOK'
  <2>1. \A j \in DOMAIN store' : store'[j] \in [expires : Nat, value : 1 .. sets']
    <3>1. Entry(sets', now) \in [expires : Nat, value : 1 .. sets']
      BY <1>1, <1>3 DEF Entry
    <3>2. ASSUME NEW j \in DOMAIN store' \ {k}
          PROVE  store'[j] \in [expires : Nat, value : 1 .. sets']
      <4>1. store'[j] = store[j] /\ store[j] \in [expires : Nat, value : 1 .. sets]
        BY <1>0, <1>2, <3>2 DEF TypeOK
      <4> QED BY <1>1, <1>3, <4>1
    <3> QED BY <1>2, <3>1, <3>2
  <2>2. current' \in [Keys -> [value : 0 .. sets', time : 0 .. now']]
    <3>1. [value |-> sets', time |-> now] \in [value : 0 .. sets', time : 0 .. now']
      BY <1>1, <1>3
    <3>2. current \in [Keys -> [value : 0 .. sets', time : 0 .. now']]
      BY <1>0, <1>1, <1>3 DEF TypeOK
    <3> QED BY <1>1, <3>1, <3>2
  <2>3. DOMAIN store' \subseteq Keys
    BY <1>0, <1>2 DEF TypeOK
  <2>4. sets' \in 0 .. MaxSets /\ now' \in 0 .. MaxTime
    BY <1>0, <1>1, <1>3 DEF TypeOK
  <2> QED BY <1>1, <2>1, <2>2, <2>3, <2>4 DEF TypeOK
<1>6. Entries'
  <2> SUFFICES ASSUME NEW j \in DOMAIN store'
               PROVE  /\ store'[j].value = current'[j].value
                      /\ store'[j].expires = current'[j].time + Ttl
                      /\ current'[j].value > 0
    BY DEF Entries
  <2>1. CASE j = k
    BY <1>1, <1>2, <1>3, <1>4, <2>1 DEF Entry
  <2>2. CASE j # k
    <3>1. j \in DOMAIN store /\ store'[j] = store[j] /\ current'[j] = current[j]
      BY <1>0, <1>2, <1>4, <2>2 DEF TypeOK
    <3> QED BY <1>0, <3>1 DEF Entries
  <2> QED BY <2>1, <2>2
<1>7. Bounded'
  <2>1. IsFiniteSet(DOMAIN store)
    BY <1>0, MemoryCacheAssumption, FS_Subset DEF TypeOK
  <2>2. Cardinality(DOMAIN store) <= Room
    BY <1>0 DEF Bounded, Room
  <2>3. Cardinality(DOMAIN store') <= Room
    BY <1>1, <2>1, <2>2, AfterSetBounded
  <2> QED BY <2>3 DEF Bounded, Room
<1>8. FreshHits'
  BY <1>1 DEF FreshHits
<1> QED BY <1>5, <1>6, <1>7, <1>8 DEF IInv

\* An invalidated key has no current value, and no entry to say otherwise.
LEMMA InvalidateStep ==
    ASSUME IInv, NEW keys \in SUBSET Keys, Invalidate(keys)
    PROVE  IInv'
<1>0. TypeOK /\ Entries /\ Bounded
  BY DEF IInv
<1>1. /\ now' = now /\ sets' = sets /\ got' = << >>
      /\ current' = [k \in Keys |-> IF k \in keys THEN Never ELSE current[k]]
      /\ store' = Without(store, keys)
  BY DEF Invalidate
<1>2. /\ DOMAIN store' = DOMAIN store \ keys
      /\ \A j \in DOMAIN store' : store'[j] = store[j]
  BY <1>1 DEF Without
<1>3. TypeOK'
  <2>1. Never \in [value : 0 .. sets, time : 0 .. now]
    BY <1>0, MemoryCacheAssumption DEF Never, TypeOK
  <2>2. current' \in [Keys -> [value : 0 .. sets', time : 0 .. now']]
    BY <1>0, <1>1, <2>1 DEF TypeOK
  <2>3. /\ DOMAIN store' \subseteq Keys
        /\ \A j \in DOMAIN store' : store'[j] \in [expires : Nat, value : 1 .. sets']
    BY <1>0, <1>1, <1>2 DEF TypeOK
  <2> QED BY <1>0, <1>1, <2>2, <2>3 DEF TypeOK
<1>4. Entries'
  <2> SUFFICES ASSUME NEW j \in DOMAIN store'
               PROVE  /\ store'[j].value = current'[j].value
                      /\ store'[j].expires = current'[j].time + Ttl
                      /\ current'[j].value > 0
    BY DEF Entries
  <2>1. j \in DOMAIN store /\ store'[j] = store[j] /\ current'[j] = current[j]
    BY <1>0, <1>1, <1>2 DEF TypeOK
  <2> QED BY <1>0, <2>1 DEF Entries
<1>5. Bounded'
  BY <1>0, <1>2, PartBounded
<1>6. FreshHits'
  BY <1>1 DEF FreshHits
<1> QED BY <1>3, <1>4, <1>5, <1>6 DEF IInv

LEMMA TickStep ==
    ASSUME IInv, Tick
    PROVE  IInv'
<1>0. TypeOK /\ Entries /\ Bounded
  BY DEF IInv
<1>1. /\ now < MaxTime /\ now' = now + 1 /\ got' = << >>
      /\ store' = store /\ sets' = sets /\ current' = current
  BY DEF Tick
<1>2. TypeOK'
  <2>1. now \in Nat /\ now' \in 0 .. MaxTime
    BY <1>0, <1>1, MemoryCacheAssumption DEF TypeOK
  <2>2. current \in [Keys -> [value : 0 .. sets, time : 0 .. now']]
    BY <1>0, <1>1, <2>1 DEF TypeOK
  <2> QED BY <1>0, <1>1, <2>1, <2>2 DEF TypeOK
<1>3. Entries' /\ Bounded' /\ FreshHits'
  BY <1>0, <1>1 DEF Entries, Bounded, FreshHits
<1> QED BY <1>2, <1>3 DEF IInv

LEMMA InvariantStep == IInv /\ [Next]_vars => IInv'
<1> SUFFICES ASSUME IInv, [Next]_vars PROVE IInv'
  OBVIOUS
<1>1. ASSUME NEW k \in Keys, Get(k) PROVE IInv'
  BY <1>1, GetStep
<1>2. ASSUME NEW k \in Keys, Set(k) PROVE IInv'
  BY <1>2, SetStep
<1>3. ASSUME NEW keys \in SUBSET Keys, Invalidate(keys) PROVE IInv'
  BY <1>3, InvalidateStep
<1>4. CASE Tick
  BY <1>4, TickStep
<1>5. CASE UNCHANGED vars
  BY <1>5 DEF vars, IInv, TypeOK, Entries, Bounded, FreshHits
<1> QED BY <1>1, <1>2, <1>3, <1>4, <1>5 DEF Next

-----------------------------------------------------------------------------
(* The theorems.                                                           *)

\* In every reachable state the stored entries, the clock and the history are
\* what get() and set() of MemoryCache make them, and every entry is the one
\* its key's latest set() stored.
THEOREM Invariant == Spec => []IInv
<1> QED BY InvariantInit, InvariantStep, PTL DEF Spec

\* Every variable of MemoryCache keeps its type.
THEOREM TypeCorrect == Spec => []TypeOK
<1>1. IInv => TypeOK
  BY DEF IInv
<1> QED BY <1>1, Invariant, PTL

\* set() never lets the dictionary outgrow cache_max_size, whatever the limit,
\* the keys and the order of the calls.
THEOREM BoundedAlways == Spec => []Bounded
<1>1. IInv => Bounded
  BY DEF IInv
<1> QED BY <1>1, Invariant, PTL

\* What get() returns was stored by the latest set() of that key, no longer
\* than cache_ttl_seconds ago and not invalidated since.
THEOREM HitsFresh == Spec => []FreshHits
<1>1. IInv => FreshHits
  BY DEF IInv
<1> QED BY <1>1, Invariant, PTL

\* set() gives up an entry that could still be served only when no entry has
\* expired.
THEOREM ExpiredFirst == Spec => ExpiredGoFirst
<1> DEFINE Goes == \A k \in DOMAIN store :
                     sets' # sets /\ k \notin DOMAIN store' /\ ~ Expired(store, k, now) =>
                        \A j \in DOMAIN store : ~ Expired(store, j, now)
<1>1. IInv /\ [Next]_vars => [Goes]_vars
  <2> SUFFICES ASSUME IInv, [Next]_vars, sets' # sets,
                      NEW i \in DOMAIN store, i \notin DOMAIN store', ~ Expired(store, i, now),
                      NEW j \in DOMAIN store
               PROVE  ~ Expired(store, j, now)
    OBVIOUS
  <2>1. PICK k \in Keys : Set(k)
    BY DEF Next, Get, Invalidate, Tick, vars
  <2>2. i \in Evictable(store)
    BY <2>1, AfterSetEffect DEF Set
  <2>3. store[i].expires <= store[j].expires
    BY <2>2 DEF Evictable
  <2>4. store[i].expires \in Nat /\ store[j].expires \in Nat /\ now \in Nat
    BY MemoryCacheAssumption DEF IInv, TypeOK
  <2> QED BY <2>3, <2>4 DEF Expired
<1> QED BY <1>1, Invariant, PTL DEF Spec, ExpiredGoFirst

\* set() gives up at most one entry, and only when cache_max_size keys have been
\* set no earlier than that entry's key.
THEOREM LeastRecentFirst == Spec => EvictsLeastRecentlySet
<1> DEFINE Since(k) == {j \in Keys : current[j].value > 0 /\ current[j].time >= current[k].time}
           Goes == \A k \in DOMAIN store : sets' # sets /\ k \notin DOMAIN store' =>
                     /\ Cardinality(Since(k)) >= MaxSize
                     /\ DOMAIN store \ DOMAIN store' = {k}
<1>1. IInv /\ [Next]_vars => [Goes]_vars
  <2> SUFFICES ASSUME IInv, [Next]_vars, sets' # sets,
                      NEW i \in DOMAIN store, i \notin DOMAIN store'
               PROVE  Cardinality(Since(i)) >= MaxSize /\ DOMAIN store \ DOMAIN store' = {i}
    OBVIOUS
  <2>1. PICK k \in Keys : Set(k)
    BY DEF Next, Get, Invalidate, Tick, vars
  <2>2. i \in Evictable(store) /\ MakesRoom(store) /\ DOMAIN store \ DOMAIN store' = {i}
    BY <2>1, AfterSetEffect DEF Set
  <2>3. DOMAIN store \subseteq Since(i)
    <3> SUFFICES ASSUME NEW j \in DOMAIN store
                 PROVE  j \in Keys /\ current[j].value > 0 /\ current[j].time >= current[i].time
      OBVIOUS
    <3>1. i \in Keys /\ j \in Keys /\ now \in Nat
      BY MemoryCacheAssumption DEF IInv, TypeOK
    <3>2. current[i].time \in Nat /\ current[j].time \in Nat /\ Ttl \in Nat
      BY <3>1, CacheAssumption DEF IInv, TypeOK
    <3>3. /\ store[i].expires = current[i].time + Ttl
          /\ store[j].expires = current[j].time + Ttl
          /\ current[j].value > 0
      BY DEF IInv, Entries
    <3>4. store[i].expires <= store[j].expires
      BY <2>2 DEF Evictable
    <3> QED BY <3>1, <3>2, <3>3, <3>4
  <2>4. IsFiniteSet(Since(i))
    BY MemoryCacheAssumption, FS_Subset
  <2> HIDE DEF Since
  <2>5. Cardinality(DOMAIN store) <= Cardinality(Since(i)) /\ Cardinality(Since(i)) \in Nat
        /\ Cardinality(DOMAIN store) \in Nat
    BY <2>3, <2>4, FS_Subset, FS_CardinalityType
  <2>6. Cardinality(DOMAIN store) >= MaxSize /\ MaxSize \in Nat
    BY <2>2, CacheAssumption DEF MakesRoom
  <2> QED BY <2>2, <2>5, <2>6
<1> QED BY <1>1, Invariant, PTL DEF Spec, EvictsLeastRecentlySet

=============================================================================
