SPECIFICATION FairSpec
CONSTANTS
    Opened = {o1}
    Served = {s1}
    Callers = {s1, u1}
    Acceptor = Acceptor
    NoOne = NoOne
    MaxCloses = 1
    PeerCloses = TRUE
    MayPanic = TRUE
INVARIANTS TypeOK CounterBound ReleasedOnReturn OneWinner
PROPERTIES GracefulDrain ClosingCompletes SessionLives
CHECK_DEADLOCK FALSE
