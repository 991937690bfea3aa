CONSTANTS
    u1 = u1
    u2 = u2
    shop = shop
    swap = swap
    free = free
    purse = purse
    cond = cond
    other = other
    yes = yes
    no = no
    empty = empty
    bad = bad
    NoId = NoId
    Users = {u1, u2}
    Malformed = bad
    Blocks <- TestBlocks
    Databases <- TestDatabases
    Documents <- Contracts
    Vars <- Looks
    Yes = yes
    Empty = empty
    MinUserFee = 10
SPECIFICATION EngineSpec
INVARIANTS
    DirectivesSeeValues
