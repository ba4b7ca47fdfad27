----------------------------- MODULE MCWorkspace -----------------------------
(* The RAM workspace, the edits of its files, the artifact store, the git     *)
(* source it is read from, the git repository its work is handed over in, and *)
(* the environment a Pi agent works in with the source it pages in from       *)
(* GitHub, side by side: a behaviour is one of one system, with the others'   *)
(* variables left as they start.                                              *)
EXTENDS MemoryWorkspace, TextReplace, ArtifactStore, GitSource, GitTransport, MemoryEnv, SnapshotSource

CONSTANTS c0, w1, w2, b1, b2

VARIABLE part

MCPaths == {<<"a">>, <<"a", "b">>, <<"a", "c">>, <<"a", "c", "d">>, <<"f">>}
MCSource == <<"a", "b">> :> c0
MCLinkTargets == {<<"f">>, <<"..", "f">>, <<"c">>, <<"a">>}

MCTenantOf == w1 :> "t" @@ w2 :> "t"

\* Two sources over one gitDir, of two remotes.
MCDirOf == [s \in Sources |-> "d"]
MCRemoteOf == [s1 |-> "r1", s2 |-> "r2"]
MCFirstTip == [r1 |-> 1, r2 |-> 2]
MCPathOf == [p1 |-> "f", p2 |-> "l", p3 |-> "x", p4 |-> "b"]
MCSourceOf == [p1 |-> "s1", p2 |-> "s1", p3 |-> "s1", p4 |-> "s2"]

\* Two pushes and two grants for one ref, and two bundles, one ahead of the other.
MCPushRef == [p1 |-> "x", p2 |-> "x"]
MCPushCommit == [p1 |-> "k1", p2 |-> "k2"]
MCGrantRef == [g1 |-> "x", g2 |-> "x"]
MCBundleHead == [i1 |-> "k2", i2 |-> "k1"]
MCParentOf == [k1 |-> NoObject, k2 |-> "k1"]

\* Scripts that remove, move, copy and append below d, two levels deep, and print through pipes.
MCTree == <<"d", "x">> :> <<"one", NL, "two", NL>> @@ <<"d", "s", "y">> :> <<"two", NL>> @@ <<"f">> :> <<"one", NL>>
MCAlphabet == <<"/", "A", "D", "M", "d", "e", "f", "g", "one", "s", "t1", "t2", "t3", "tmp", "two", "workspace", "x", "y">>
MCTempNames == <<"t1", "t2", "t3">>
MCCwds == {WorkspaceRoot}
Cmd(name, flags, paths) == [name |-> name, flags |-> flags, paths |-> paths, word |-> "one", redirect |-> << >>]
Into(c, p) == [c EXCEPT !.redirect = p]
Pipe(op, cmds) == [operator |-> op, pipeline |-> cmds]
MCScripts ==
    {<<Pipe(";", <<Cmd("rm", {"-r", "-f"}, <<<<"d">>>>)>>), Pipe("&&", <<Cmd("mkdir", {"-p"}, <<<<"d", "s">>>>)>>)>>,
     <<Pipe(";", <<Cmd("mv", {}, <<<<"d">>, <<"e">>>>)>>), Pipe("||", <<Cmd("touch", {}, <<<<"d">>>>)>>)>>,
     <<Pipe(";", <<Cmd("mv", {}, <<<<"e">>, <<"d", "s">>>>)>>)>>,
     <<Pipe(";", <<Cmd("cat", {}, <<<<"d", "x">>, <<"f">>>>), Into(Cmd("sort", {}, << >>), <<"f">>)>>)>>,
     <<Pipe(";", <<Cmd("cd", {}, <<<<"d">>>>)>>), Pipe("&&", <<Into(Cmd("echo", {">>"}, << >>), <<"..", "d", "x">>)>>)>>,
     <<Pipe(";", <<Cmd("rm", {}, <<<<"f">>, <<"d", "s", "y">>>>)>>), Pipe(";", <<Cmd("rm", {}, <<<<"d", "s">>>>)>>)>>,
     <<Pipe(";", <<Cmd("cp", {}, <<<<"d", "x">>, <<"d", "s", "y">>>>)>>),
       Pipe(";", <<Into([Cmd("git", {}, << >>) EXCEPT !.word = "status"], <<"/", "tmp", "t1">>)>>)>>,
     <<Pipe(";", <<Into(Cmd("echo", {}, << >>), <<"d">>)>>), Pipe("&&", <<Cmd("rm", {}, <<<<"d">>>>)>>)>>,
     <<Pipe(";", <<Cmd("grep", {"-r"}, <<<<"d">>>>), Cmd("uniq", {}, << >>), Into(Cmd("head", {}, << >>), <<"g">>)>>),
       Pipe("||", <<Cmd("find", {"-type f"}, << >>), Into(Cmd("tail", {}, << >>), <<"g">>)>>)>>}

\* A branch that moves once, turning a file into a directory, and a view of d only.
MCSnapFiles == <<<<"d", "x">> :> "s1" @@ <<"d", "y">> :> "s2" @@ <<"f">> :> "s3",
                 <<"d", "x">> :> "s4" @@ <<"f">> :> "s3" @@ <<"d", "y", "z">> :> "s2">>
MCPrefixes == {<<"d">>}
MCCallOp == [g1 |-> "list", g2 |-> "read", g3 |-> "stat", g4 |-> "read"]
MCCallPath == [g1 |-> <<"d">>, g2 |-> <<"d", "x">>, g3 |-> <<"d", "y">>, g4 |-> <<"f">>]

MCShells == Permutations(Shells)

workspaceVars == <<wsVars, textVars, blobVars, sourceVars, transportVars, envVars, snapVars, part>>

WorkspaceInit ==
    /\ part \in {"memory", "text", "blobs", "source", "transport", "env", "snapshot"}
    /\ WsInit /\ BlobInit /\ TextInit /\ SourceInit /\ TransportInit /\ EnvInit /\ SnapInit
    /\ part # "text" => text = <<EmptyLine>>

WorkspaceNext ==
    \/ part = "memory" /\ WsNext /\ UNCHANGED <<snapVars, envVars, textVars, blobVars, sourceVars, transportVars, part>>
    \/ part = "text" /\ TextNext /\ UNCHANGED <<snapVars, envVars, wsVars, blobVars, sourceVars, transportVars, part>>
    \/ part = "blobs" /\ BlobNext /\ UNCHANGED <<snapVars, envVars, wsVars, textVars, sourceVars, transportVars, part>>
    \/ part = "source" /\ SourceNext /\ UNCHANGED <<snapVars, envVars, wsVars, textVars, blobVars, transportVars, part>>
    \/ part = "transport" /\ TransportNext /\ UNCHANGED <<snapVars, envVars, wsVars, textVars, blobVars, sourceVars, part>>
    \/ part = "env" /\ EnvNext /\ UNCHANGED <<snapVars, wsVars, textVars, blobVars, sourceVars, transportVars, part>>
    \/ part = "snapshot" /\ SnapNext /\ UNCHANGED <<envVars, wsVars, textVars, blobVars, sourceVars, transportVars, part>>

WorkspaceSpec == WorkspaceInit /\ [][WorkspaceNext]_workspaceVars

=============================================================================
