CONSTANTS
    g = g
    a1 = a1
    a2 = a2
    a3 = a3
    a4 = a4
    x0 = x0
    x1 = x1
    ledgers = ledgers
    certs = certs
    GenesisId = g
    Blocks <- SeedsAndChain
    Seeds <- SeedChain
    Stores <- TwoStores
    ConfirmLevel = 1
    MinSignatures = 1
    MaxSlots = 4
    MaxCrashes = 1
    MaxFaults = 0
SPECIFICATION PluginSpec
INVARIANTS
    PluginTypeOK
    ListedBlocksAreBackedUp
    ResultsReachTheirStores
    RestoredPoolIsLinked
PROPERTIES
    ListFollowsPool
    ListedBlocksComeBack
