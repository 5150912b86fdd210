SPECIFICATION BotSpec
CONSTANTS
    UserFiles = {"u1"}
    Cells = {"A1"}
    StepsPerCell = 2
    Pivotal = {2}
    Reasons = {"VICTORY"}
    Verdicts = {"FAIL", "PASS"}
    Texts = {"a"}
    Past <- TwoAlike
    Phases = {1, 2}
    ShortCounts = {0, 5}
    FirstLimit = 3
    MaxChanges = 2
    MaxFaults = 1
    MaxCommands = 1
CHECK_DEADLOCK FALSE
INVARIANTS DeliveredOnce 
