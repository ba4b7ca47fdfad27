\* Two workers; a turn parks at least once or is followed by another.  Two processes,
\* each remembering one failure, and two turns that are tried up to twice.
CONSTANTS
    Parts = {"receipts", "worker"}
    Workers = {w1, w2}
    Tools = {"write"}
    Calls <- MCCalls
    MaxCalls = 2
    MaxTurns = 2
    MaxActivities = 2
    MaxAttempts = 3
    Rung = "synthetic"
    PromptHeartbeats = TRUE
    Overtaken = FALSE
    Hosts = {"h1", "h2"}
    Jobs = {"j1", "j2"}
    Inputs <- MCInputs
    Replies <- MCReplies
    MaxTries = 2
    MaxRemembered = 1
    MaxMishaps = 1
    EpochSeconds = 1000
    EpochMs = 100000
    WorkerNow = 1000000
SYMMETRY WorkerSymmetry
SPECIFICATION MCTurnsSpec
CHECK_DEADLOCK FALSE
INVARIANT  AttemptsAreAccounted VerdictFollowsReply
