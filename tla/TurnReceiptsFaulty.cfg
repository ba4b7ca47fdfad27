\* Heartbeats are recorded late or never, and slow attempts are overtaken.
CONSTANTS
    Parts = {"receipts"}
    Workers = {w1, w2}
    Tools = {"write"}
    Calls <- MCCalls
    MaxCalls = 1
    MaxTurns = 2
    MaxActivities = 2
    MaxAttempts = 2
    Rung = "synthetic"
    PromptHeartbeats = FALSE
    Overtaken = TRUE
    Hosts = {"h1"}
    Jobs = {"j1"}
    Inputs <- MCInputs
    Replies <- MCReplies
    MaxTries = 1
    MaxRemembered = 1
    MaxMishaps = 0
    EpochSeconds = 1000
    EpochMs = 100000
    WorkerNow = 1000000
SYMMETRY WorkerSymmetry
SPECIFICATION MCTurnsSpec
CHECK_DEADLOCK FALSE
PROPERTY ReceiptsNotErased
