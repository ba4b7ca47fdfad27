CONSTANTS
    Tenants = {c1, c2, c3}
    MinReadys = {0, 1}
    MaxReady = 1
    MaxTotal = 2
    MaxSandboxes = 3
    Cells = {"a", "b"}
    Spaces = {"n1", "n2"}
    NamespaceOf <- MCNamespaceOf
    SuppliedCells = {"b"}
    IdleTtl = 1
    MaxClock = 1
    MaxOps = 3
    MaxCellFaults = 1
SPECIFICATION SandboxSpec
CHECK_DEADLOCK FALSE
INVARIANTS OneKeeper 
PROPERTIES LeasedNotReaped WaiterIsAnswered
