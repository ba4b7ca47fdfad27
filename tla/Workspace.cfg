CONSTANTS
    c0 = c0
    w1 = w1
    w2 = w2
    b1 = b1
    b2 = b2
    WsPaths <- MCPaths
    Contents = {c1, c2}
    EmptyFile = c2
    Source <- MCSource
    LinkTargets <- MCLinkTargets
    MaxEdits = 4
    Words = {x, y}
    NoWord = none
    MaxIndent = 1
    MaxText = 3
    MaxBlock = 2
    Writers = {w1, w2}
    TenantOf <- MCTenantOf
    Digests = {"d1", "d2"}
    MaxPerTenant = 1
    MaxWalk = 2
    MaxPuts = 3
    Sources = {"s1", "s2"}
    DirOf <- MCDirOf
    RemoteOf <- MCRemoteOf
    SourceCommits = {1, 2, 3}
    FirstTip <- MCFirstTip
    Reads = {"p1", "p2", "p3", "p4"}
    PathOf <- MCPathOf
    SourceOf <- MCSourceOf
    Files = {"f", "b"}
    Links = {"l"}
    Big = {"b"}
    Sparse = {"f", "l", "b"}
    MaxGitFaults = 1
    Pushes = {"p1", "p2"}
    PushRef <- MCPushRef
    PushCommit <- MCPushCommit
    Grants = {"g1", "g2"}
    GrantRef <- MCGrantRef
    Ingests = {"i1", "i2"}
    BundleHead <- MCBundleHead
    ParentOf <- MCParentOf
    NoObject = "none"
    Tree <- MCTree
    Alphabet <- MCAlphabet
    Shells = {b1, b2}
    Scripts <- MCScripts
    Cwds <- MCCwds
    TempNames <- MCTempNames
    MaxExecs = 2
    SnapFiles <- MCSnapFiles
    SparsePrefixes <- MCPrefixes
    SnapCalls = {"g1", "g2", "g3", "g4"}
    CallOp <- MCCallOp
    CallPath <- MCCallPath
SPECIFICATION WorkspaceSpec
SYMMETRY MCShells
CHECK_DEADLOCK FALSE
INVARIANTS    ReadsItsRef   SnapshotIsOne
