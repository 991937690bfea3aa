CONSTANTS
    g = g
    a1 = a1
    b1 = b1
    a2 = a2
    b2 = b2
    t2 = t2
    a3 = a3
    b3 = b3
    a4 = a4
    b4 = b4
    c1 = c1
    c2 = c2
    NoId = NoId
    GenesisId = g
    Blocks <- TwoBranches
    Seeds <- SeedTree
    ConfirmLevel = 2
    MinSignatures = 1
    MaxSlots = 4
SPECIFICATION HeadSpec
PROPERTY
    PicksFromLongestChain
CHECK_DEADLOCK FALSE
