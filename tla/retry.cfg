SPECIFICATION FairRetrySpec
CONSTANTS
    RetryMax = 6
    WaitMin = 2
    WaitMax = 11
    Limit = 15
    Second = 4
    Nap = 2
    Late = 1
INVARIANTS RetryTypeOK WaitInBounds
PROPERTIES WaitsAreKept GivesUp
CHECK_DEADLOCK FALSE
