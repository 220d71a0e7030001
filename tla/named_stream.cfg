SPECIFICATION FairSpec
CONSTANTS
    MaxBytes <- MaxBytesDef
    BufSize = 2
    Window = 2
INVARIANTS TypeOK BytesInOrder OpenedIsAccepted
PROPERTIES ConfirmedIsServed OpenerEndFreesHub
CHECK_DEADLOCK FALSE
