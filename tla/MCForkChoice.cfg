CONSTANTS
    g = g
    a1 = a1
    b1 = b1
    a2 = a2
    b2 = b2
    a3 = a3
    c3 = c3
    a4 = a4
    GenesisId = g
    Blocks <- WeighedBlocks
    ConfirmLevel = 2
    MinSignatures = 1
    MaxSlots = 2
SPECIFICATION Spec
PROPERTIES
    ConfirmsHeaviestBranch
