CONSTANTS
    FailureThreshold = 3
    RecoveryTimeout = 2
    HalfOpenMaxCalls = 1
    MaxTime = 7
    MaxFailures = 6
SPECIFICATION BreakerSpec
INVARIANT ClosedIffBelowThreshold
PROPERTY ImplementsContract
