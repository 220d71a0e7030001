SPECIFICATION Spec
CONSTANTS
    HdrLen = 2
    BufSize = 4
    Window = 4
    Reads <- Even
    Receiver = "Reader"
    Writes = {"full"}
    Cuts = FALSE
    MaxMsgs = 2
    MaxChunks = 3
INVARIANTS DeliveredIntact
CHECK_DEADLOCK FALSE
