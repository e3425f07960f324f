CONSTANTS
    GatewayFiles <- MCGatewayFiles
    ModelsFiles <- MCModelsFiles
    MaxLoads = 3
SPECIFICATION FairSpec
CHECK_DEADLOCK FALSE
INVARIANTS
    TypeOK
    LoadTakesEffect
    ServedRegistryIsWhole
PROPERTIES
    KnownOnceConfigured
    ReportMatchesRegistry
