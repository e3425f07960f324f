CONSTANTS
    Tasks = {t1, t2, t3, t4}
    FailureThreshold = 2
    RecoveryTimeout = 2
    HalfOpenMaxCalls = 1
    MaxTime = 5
    MaxFailures = 4
SPECIFICATION Spec
SYMMETRY Symmetry
CHECK_DEADLOCK FALSE
INVARIANT FailedRequestsTrip
