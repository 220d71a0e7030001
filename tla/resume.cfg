SPECIFICATION FairSpec
CONSTANTS
    Last = 6
    MsgLen = 2
    BufLen = 3
    MaxConns = 2
INVARIANTS TypeOK NoGap
PROPERTY LastingConnCompletes
CHECK_DEADLOCK FALSE
