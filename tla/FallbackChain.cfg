CONSTANTS
    p1 = p1
    p2 = p2
    p3 = p3
    Providers = {p1, p2, p3}
    Chain <- ThreeInOrder
    FailureThreshold = 2
    RecoveryTimeout = 2
    HalfOpenMaxCalls = 1
    Requests = {r1, r2, r3}
    MaxTime = 4
SPECIFICATION FairSpec
CHECK_DEADLOCK FALSE
INVARIANTS
    TriedInOrder
    TripsForOwnFailures
PROPERTIES
    SkippedForCause
    ExecutionsSettle
