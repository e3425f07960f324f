CONSTANTS
    Requests = {r1}
    Models <- MCModels
    Files <- MCFiles
    MockModes = {FALSE}
    Bodies <- MCBodies
    Content <- MCContent
    MaxMocked = 1
    FailureThreshold = 2
    RecoveryTimeout = 2
    HalfOpenMaxCalls = 1
SPECIFICATION GatewaySpec
CHECK_DEADLOCK FALSE
INVARIANT RoutedModelsServed
