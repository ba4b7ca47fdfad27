CONSTANTS
    Root = "R"
    Kind <- MCKind
    Steps <- MCSteps
    Watched <- MCWatched
    Equals <- MCEquals
    MaxIterations <- MCMaxIterations
    Values <- MCValues
    Undefined = undefined
    Yes = yes
    No = no
    NodesPerRun = 2
    Texts = {"t1", "t2"}
    BlockedThreshold = 1
    MaxEscalations = 1
    MaxClock = 3
    Workers = {"w1", "w2"}
    MaxTurns = 3
    MaxAttempts = 2
    MaxFaults = 2
    Nowhere = Nowhere
    TurnLimit = 2
    MaxReasks = 1
    MaxTries = 2
    MaxCalls = 2
    MaxRestarts = 1
    NumCases = 3
SPECIFICATION WorkflowsSpec
CHECK_DEADLOCK FALSE
INVARIANTS NodeRunsOnce   VerdictIsTrue
PROPERTIES GraphEnds SupervisorActsInTime
