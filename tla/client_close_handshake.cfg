SPECIFICATION FairSpec
CONSTANTS
    Users = {u1}
    RetryMax = 2
    MaxConns = 2
    PeerDrops = FALSE
    UserCloses = FALSE
PROPERTY CloseReturns
CHECK_DEADLOCK FALSE
