SPECIFICATION Spec
CONSTANTS
    Callers = {"c1", "c2"}
    Paths = {"a", "b"}
    Cap = 2
    LongEntries = {3}
    MaxDay = 2
    MaxCommands = 5
    AuditRoles = {"pi"}
    Window = 1
    LastDay = 3
    MaxWork = 4
    Cells = {"A42", "B42"}
    Chunks <- MCChunks
    Entries <- MCEntries
    MaxMoves = 5
    Drivers = {"mmlu", "hellaswag"}
    Scorecard = "scorecard"
    MaxEvals = 4
    EvalCells <- MCCells
    EvalBenchmarks <- MCBenchmarks
    MaxRuns = 5
    B4Cells = {"A", "B"}
    Evaluations <- MCEvaluations
    SigmaRef <- MCSigma
    MaxHandoffs = 6
    Judges = {"j1", "j2"}
    Decisions = {"D-1", "D-2"}
    MaxClaims = 5
    Files <- MCFiles
    SessionOf <- MCSessionOf
    AgentSessions = {"agent-t"}
    Usages <- MCUsages
    EventKinds = {"error"}
    DayTicks = 2
    LastTick = 3
    WeekDays = 1
    RoleWindow = 1
    MaxCostWork = 4
    BatchMaxBytes = 3
    BatchSize = 2
    RequestLists <- MCRequestLists
    BriefCap = 5
    MaxDays = 2
    WarnPct = 50
    NotesWindow = 1
    Reasons = {"signoff_gate_blocked"}
    MaxMinute = 3
    MaxChanges = 3
    Askers = {"t1", "t2"}
    MaxQueries = 3
    Capacity = 12
    HeaderSize = 2
    MinAlignment = 2
    Alignments = {2, 4}
    Sizes = {1, 2, 4}
CHECK_DEADLOCK FALSE
INVARIANTS  HonestWorkPasses  CurrentKept RerunCostsOne    AnswersAligned  AnswersAreOwn BytesAreOwned
