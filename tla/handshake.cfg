SPECIFICATION FairSpec
CONSTANTS
    Pieces = 3
    FieldLen = 2
    ErrLens = {0, 1, 2}
    MayLose = TRUE
INVARIANTS TypeOK OpenedIsAccepted
PROPERTY SettleTogether
CHECK_DEADLOCK FALSE
