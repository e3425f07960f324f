CONSTANTS
    Requests = {r1}
    Models <- MCModels
    Files <- MCFiles
    MockModes = {TRUE, FALSE}
    Bodies <- MCBodies
    Content <- MCContent
    MaxMocked = 2
    FailureThreshold = 2
    RecoveryTimeout = 2
    HalfOpenMaxCalls = 1
SPECIFICATION GatewayFairSpec
CHECK_DEADLOCK FALSE
INVARIANTS
    GatewayTypeOK
    StreamsWellFormed
    ContentIntact
    RepliesExplained
PROPERTY StreamsEnd
