CONSTANTS
    Requests = {r1, r2}
    Kinds <- MCKinds
    DocsPaths = {"/docs/oauth2-redirect"}
    GatewayFiles <- MCGatewayFiles
    MockMode = FALSE
    Ttl = 0
    MaxSize = 2
SPECIFICATION Spec
CHECK_DEADLOCK FALSE
SYMMETRY Symmetry
INVARIANTS
    TypeOK
    CountedAsAnswered
    SpansEnded
    OnlyAuthorisedRouted
