CONSTANTS
    g = g
    a1 = a1
    a2 = a2
    a3 = a3
    a4 = a4
    x0 = x0
    x1 = x1
    ledgers = ledgers
    certs = certs
    GenesisId = g
    Blocks <- SeedsAndSuccessor
    Seeds <- BrokenSeedChain
    Stores <- TwoStores
    ConfirmLevel = 1
    MinSignatures = 1
    MaxSlots = 4
    MaxCrashes = 2
    MaxFaults = 2
SPECIFICATION PluginSpec
INVARIANTS
    RowsBeforeEffects
PROPERTIES
    ListedBlocksComeBack
