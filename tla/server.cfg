SPECIFICATION FairSpec
CONSTANTS
    Clients = {c1, c2}
    Users = {u1, u2}
    NoClient = NoClient
    PeerDrops = TRUE
INVARIANTS TypeOK FoundAreClosed
PROPERTIES CleanCloseIsNil ReceivedCloseEnds SessionsLive
CHECK_DEADLOCK FALSE
