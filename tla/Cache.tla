------------------------------- MODULE Cache -------------------------------
(***************************************************************************)
(* The dictionary of MemoryCache (middleware/caching.py): a function from  *)
(* the stored keys to entries.  MemoryCache drives it by itself, Caching   *)
(* through the middleware.                                                 *)
(***************************************************************************)
EXTENDS Integers, FiniteSets

CONSTANTS
    Ttl,        \* cache_ttl_seconds, in clock ticks
    MaxSize     \* cache_max_size

\* Plain ints of GatewayConfig; zero is accepted for both.
ASSUME CacheAssumption == Ttl \in Nat /\ MaxSize \in Nat

EmptyStore == << >>

\* What set() stores at time t.
Entry(value, t) == [expires |-> t + Ttl, value |-> value]

Without(store, keys) == [k \in DOMAIN store \ keys |-> store[k]]

-----------------------------------------------------------------------------

\* Mutant: `>=`, and the wrong way round.
ExpiredInverted(store, k, t) == t <= store[k].expires

\* An entry is served up to and including the instant it expires at.
Expired(store, k, t) == t > store[k].expires

\* get(): what is found under k, at most one value ...
Found(store, k, t) ==
    IF k \in DOMAIN store /\ ~ Expired(store, k, t) THEN {store[k].value} ELSE {}

\* ... and the dictionary it leaves behind: an expired entry goes.
AfterGet(store, k, t) ==
    IF k \in DOMAIN store /\ Expired(store, k, t) THEN Without(store, {k}) ELSE store

\* Mutant: the newest entry makes room.
EvictableNewest(store) ==
    {k \in DOMAIN store : \A j \in DOMAIN store : store[j].expires <= store[k].expires}

\* min(self._store, key=...): any of the entries that expire first.
Evictable(store) ==
    {k \in DOMAIN store : \A j \in DOMAIN store : store[k].expires <= store[j].expires}

\* Mutant: room is made only once the dictionary is larger than its limit.
MakesRoomLate(store) == Cardinality(DOMAIN store) > MaxSize

\* Mutant: room is made one entry too early.
MakesRoomEarly(store) == Cardinality(DOMAIN store) + 1 >= MaxSize

MakesRoom(store) == Cardinality(DOMAIN store) >= MaxSize

Write(store, k, entry) ==
    [j \in DOMAIN store \union {k} |-> IF j = k THEN entry ELSE store[j]]

\* set(): the dictionaries it may leave behind.  Room is made even when k is
\* there already; an empty dictionary has none to make (ValueError).
AfterSet(store, k, value, t) ==
    IF MakesRoom(store) /\ DOMAIN store # {}
    THEN {Write(Without(store, {j}), k, Entry(value, t)) : j \in Evictable(store)}
    ELSE {Write(store, k, Entry(value, t))}

=============================================================================
