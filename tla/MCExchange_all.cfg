SPECIFICATION FairSpec
CONSTANTS
    s1 = s1
    s2 = s2
    c1 = c1
    c2 = c2
    c3 = c3
    k1 = k1
    k2 = k2
    Servers <- MCServers
    Calls <- MCCalls
    Cleanups <- MCCleanups
    Scenarios <- MCScenarios
    Validate <- IoValidate
    Meta <- IoMeta
INVARIANTS
    LifecycleSound
    MetadataSound
    ExchangeSound
    SchemaAgrees
    UploadSound
PROPERTIES
    NothingHangs
CHECK_DEADLOCK FALSE
