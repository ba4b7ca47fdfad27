CONSTANTS
    Parts = {"profile", "stack", "protocol"}
    Requests <- MCRequests
    LanesOf <- MCLanesOf
    Lanes <- MCLanes
    Priority <- MCPriority
    Weight <- MCWeight
    MaxWait <- MCMaxWait
    Capacity = 1
    SchedulerDefault = "batch"
    PolicyDefault = "batch"
    Num = 1
    Den = 2
    Policies <- MCPolicies
    Limit = 1
    Calls = {"c1", "c2"}
    SessionOf <- MCSessionOf
    NoKey = "no key"
    Environment <- MCEnvironment
    Model = "m"
    MaxCool = 1
    MaxNow = 2
    Streams = {"s1", "s2"}
    LogicalSession <- MCLogicalSession
    NoSession = "no session"
    Accounts <- MCAccounts
    Fallbacks <- MCFallbacks
    FallbackOn <- MCFallbackOn
    HasModel = {"a", "b", "f", "g"}
    Strategies = {"ordered", "round-robin", "sticky-least-loaded"}
    MaxCooldown = 1
    MaxTime = 2
    Asks = {"a1", "a2", "a3"}
    NoAsk = "none"
    Shapes <- MCShapes
    MaxEntries = 1
    MaxBlocks = 2
    MaxFaults = 1
SPECIFICATION PartSpec
INVARIANTS AcceptedOnce FailoverIsClean  ConversationIsOwn
CHECK_DEADLOCK FALSE
