CONSTANTS
    ClientList <- MCClientList
    Weight <- MCWeight
    MaxPicks = 6
    MaxFailures = 3
    MaxTime = 3
    FailureThreshold = 2
    RecoveryTimeout = 2
    HalfOpenMaxCalls = 1
SPECIFICATION BalancerSpec
INVARIANTS
    BalancerTypeOK
    ExactShares
    FilteredForCause
