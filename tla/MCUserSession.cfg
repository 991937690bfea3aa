CONSTANTS
    u1 = u1
    u2 = u2
    s1 = s1
    s2 = s2
    s3 = s3
    Users = {u1, u2}
    Streams = {s1, s2, s3}
    Owner <- Owners
    MaxSigner = 1
    MaxJoins = 2
    MaxKeys = 3
SPECIFICATION SessionSpec
INVARIANTS
    SessionTypeOK
    SignersCounted
    KeysRegisteredInOrder
    GoneUsersStayGone
    NoDanglingStream
CHECK_DEADLOCK FALSE
