CONSTANTS
    Keys = {k1, k2, k3}
    Ttl = 1
    MaxSize = 2
    MaxSets = 5
    MaxTime = 4
SPECIFICATION Spec
INVARIANTS
    Bounded
    FreshHits
PROPERTIES
    ExpiredGoFirst
    EvictsLeastRecentlySet
