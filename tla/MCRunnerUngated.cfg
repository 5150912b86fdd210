SPECIFICATION Spec
CONSTANTS
    i1 = i1
    i2 = i2
    NoItem = NoItem
    Items = {i1, i2}
    MaxRedispatch = 2
    MaxBlocks = 2
    MaxFails = 2
    MaxRestarts = 0
    MayWin = FALSE
CHECK_DEADLOCK FALSE
INVARIANTS GatedEveryExit
