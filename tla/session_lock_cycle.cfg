SPECIFICATION Spec
CONSTANTS
    Opened = {}
    Served = {s1}
    Callers = {u1}
    Acceptor = Acceptor
    NoOne = NoOne
    MaxCloses = 1
    PeerCloses = FALSE
    MayPanic = FALSE
INVARIANT NoLockCycle
CHECK_DEADLOCK FALSE
