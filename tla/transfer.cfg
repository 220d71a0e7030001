SPECIFICATION FairSpec
CONSTANTS
    HdrLen = 2
    BufSize = 4
    Window = 4
    Reads <- Even
    Receiver = "WriteTo"
    Writes = {"full", "fails"}
    Cuts = TRUE
    MaxMsgs = 3
    MaxChunks = 2
INVARIANT TypeOK
PROPERTIES IsChannel AllArrive
CHECK_DEADLOCK FALSE
