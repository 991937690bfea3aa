CONSTANTS
    g = g
    a1 = a1
    b1 = b1
    a2 = a2
    b2 = b2
    a3 = a3
    c3 = c3
    a4 = a4
    GenesisId = g
    Blocks <- ForkedBlocks
    ConfirmLevel = 2
    MinSignatures = 1
    MaxSlots = 3
SPECIFICATION Spec
INVARIANTS
    TypeOK
    HeightsByBin
    LinksExact
    NoDuplicates
    WithinClock
PROPERTIES
    IndicesStable
    ConfirmedChainOnly
