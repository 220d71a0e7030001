SPECIFICATION FairSpec
CONSTANTS
    Users = {u1}
    RetryMax = 2
    MaxConns = 2
    PeerDrops = TRUE
    UserCloses = TRUE
INVARIANTS TypeOK OneSession ConnWhileSession NoSelfWait WokenWhenGone
PROPERTIES LossIsNoticed SessionsLive
CHECK_DEADLOCK FALSE
