\* Three calls with the same effect id race on a ladder of three executors; two calls of
\* a rung of two classes; two clients of the backend with two pods.
CONSTANTS
    Calls = {c1, c2, c3}
    Effects = {e1}
    Executors <- MCExecutors
    NoClass = "none"
    Policies <- MCPolicies
    Callers = {r1, r2}
    Ladder <- MCLadder
    RungFiles = {"x", "y"}
    Origin <- MCOrigin
    Seed <- MCSeed
    Versions = {"old", "new"}
    NoFile = "none"
    Blank = "empty"
    MaxPods = 2
    MaxCalls = 3
    MaxFailures = 1
    Clients = {k1, k2}
    CellIds = {"a", "b"}
    Classes = {"sandbox-small", "project-cell"}
    MaxPodsMade = 2
    MaxExecs = 1
    MaxKubeFaults = 1

SYMMETRY Symmetry
SPECIFICATION ExecutionSpec
CHECK_DEADLOCK FALSE
INVARIANTS EffectAtMostOnce AnswersAreTrue PodsAreContained
PROPERTY RungLosesNothing
