SPECIFICATION LiveSpec
CONSTANTS
    i1 = i1
    i2 = i2
    NoItem = NoItem
    Items = {i1, i2}
    MaxRedispatch = 1
    MaxBlocks = 2
    MaxFails = 2
    MaxRestarts = 1
    MayWin = TRUE
CHECK_DEADLOCK FALSE
INVARIANTS BlocksEnd BlockCarried
PROPERTIES UsesQueueSpec ClaimReleased  WorkServed
