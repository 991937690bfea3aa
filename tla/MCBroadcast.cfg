CONSTANTS
    left = left
    middle = middle
    right = right
    m1 = m1
    m2 = m2
    ping = ping
    NoId = NoId
    Nodes = {left, middle, right}
    Routes <- Line
    Messages = {m1, m2, ping}
    Origin <- Senders
    OneHop = {ping}
    Forgetful = {middle}
    MaxFaults = 1
SPECIFICATION BcSpec
INVARIANTS
    BcTypeOK
    SecondHandOnce
PROPERTIES
    FloodEnds
    PeersGetBroadcasts
    LoneBroadcastGoesOn
CHECK_DEADLOCK FALSE
