---------------------------- MODULE MemoryCache ----------------------------
(***************************************************************************)
(* MemoryCache (middleware/caching.py) under any sequence of gets, sets,   *)
(* invalidations and waits.  Its methods do not await, so each is one step.*)
(***************************************************************************)
EXTENDS Cache

CONSTANTS
    Keys,       \* cache keys
    MaxSets,    \* bound on the number of set() calls
    MaxTime     \* bound on the clock

ASSUME MemoryCacheAssumption ==
    IsFiniteSet(Keys) /\ MaxSets \in Nat /\ MaxTime \in Nat

VARIABLES
    store,      \* self._store
    now,        \* time.monotonic(), in ticks
    got,        \* the key and the result of the latest get(); {} is a miss
    sets,       \* history: set() calls so far; each stores its number
    current     \* history: current[k] is the value a get() of k may return, with
                \* the time it was set; 0 before the first set() and after an
                \* invalidation

vars == <<store, now, got, sets, current>>

Never == [value |-> 0, time |-> 0]

TypeOK ==
    /\ DOMAIN store \subseteq Keys
    /\ \A k \in DOMAIN store : store[k] \in [expires : Nat, value : 1 .. sets]
    /\ now \in 0 .. MaxTime
    /\ got \in {<<>>} \union {<<k, {v}>> : k \in Keys, v \in 1 .. sets} \union {<<k, {}>> : k \in Keys}
    /\ sets \in 0 .. MaxSets
    /\ current \in [Keys -> [value : 0 .. sets, time : 0 .. now]]

Init ==
    /\ store = EmptyStore
    /\ now = 0
    /\ got = << >>
    /\ sets = 0
    /\ current = [k \in Keys |-> Never]

-----------------------------------------------------------------------------

Get(k) ==
    /\ got' = <<k, Found(store, k, now)>>
    /\ store' = AfterGet(store, k, now)
    /\ UNCHANGED <<now, sets, current>>

Set(k) ==
    /\ sets < MaxSets
    /\ sets' = sets + 1
    /\ store' \in AfterSet(store, k, sets', now)
    /\ got' = << >>
    /\ current' = [current EXCEPT ![k] = [value |-> sets', time |-> now]]
    /\ UNCHANGED now

\* Keys are digests, so a prefix may select any of the stored ones; no pattern
\* selects them all.
Invalidate(keys) ==
    /\ keys \subseteq DOMAIN store
    /\ store' = Without(store, keys)
    /\ got' = << >>
    /\ current' = [k \in Keys |-> IF k \in keys THEN Never ELSE current[k]]
    /\ UNCHANGED <<now, sets>>

Tick ==
    /\ now < MaxTime
    /\ now' = now + 1
    /\ got' = << >>
    /\ UNCHANGED <<store, sets, current>>

Next ==
    \/ \E k \in Keys : Get(k) \/ Set(k)
    \/ \E keys \in SUBSET Keys : Invalidate(keys)
    \/ Tick

Spec == Init /\ [][Next]_vars

-----------------------------------------------------------------------------
(* Properties.                                                             *)

\* The cache never outgrows its limit; a limit of zero still holds one entry.
Bounded == Cardinality(DOMAIN store) <= IF MaxSize = 0 THEN 1 ELSE MaxSize

\* A hit is the value of the latest set() of that key, at most Ttl old and with
\* no invalidation since, whatever was evicted, expired and set again
\* meanwhile.
FreshHits ==
    got # << >> => \A v \in got[2] :
        current[got[1]].value = v /\ now - current[got[1]].time <= Ttl

\* Making room costs a servable entry only when every entry is servable: set()
\* takes the expired ones first although it does not look at the clock.
ExpiredGoFirst ==
    [][\A k \in DOMAIN store :
         sets' # sets /\ k \notin DOMAIN store' /\ ~ Expired(store, k, now) =>
            \A j \in DOMAIN store : ~ Expired(store, j, now)]_vars

\* set() gives up one entry at a time, the one that was set least recently: an
\* entry stays until MaxSize keys, its own among them, have been set no earlier
\* than it, or it expires or is invalidated.  When set() makes room that it does
\* not need, since the key is there already, that is the only damage.
EvictsLeastRecentlySet ==
    [][\A k \in DOMAIN store : sets' # sets /\ k \notin DOMAIN store' =>
         /\ Cardinality({j \in Keys : current[j].value > 0 /\ current[j].time >= current[k].time})
              >= MaxSize
         /\ DOMAIN store \ DOMAIN store' = {k}]_vars

=============================================================================
