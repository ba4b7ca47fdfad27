----------------------------- MODULE SandboxRung -----------------------------
(***************************************************************************)
(* The executors that keep a workspace in a pod                            *)
(* (src/execution/kubernetes/sandbox-workspace.ts, executor.ts), the       *)
(* synchronizer between the pod and the RAM workspace (workspace-sync.ts), *)
(* and the rung that owns one such executor per resource class             *)
(* (integrations/temporal/src/gateway-run-turn.ts).                        *)
(*                                                                         *)
(* The RAM workspace is only what a checkpoint imports into and what a new *)
(* pod is filled from.  Calls overlap when a timed-out attempt goes on     *)
(* while the next one runs in the same worker.  An action is the code      *)
(* between two awaits, and every command on a pod may fail.                *)
(***************************************************************************)
EXTENDS Integers, Sequences, FiniteSets

CONSTANTS
    Callers,     \* attempts that use the rung
    Ladder,      \* the resource classes, by fidelity; the first is preferred
    RungFiles,   \* files of the workspace
    Origin,      \* a function: the file's content in the source, or NoFile
    Versions,    \* contents that effects write
    NoFile,
    Blank,       \* the empty content
    Seed,        \* the RAM workspace a rung starts from
    MaxPods,     \* pods created in a behaviour
    MaxCalls,    \* effects, checkpoints and closes in a behaviour
    MaxFailures  \* commands that fail and pods that end in a behaviour

VARIABLES
    podOf,    \* #leases: the pod of each class's executor, 0 for none
    pods,     \* every pod ever created
    cache,    \* the RAM workspace
    call,     \* what each caller is doing
    doomed,   \* pods a close has still to destroy
    calls,    \* calls made so far
    failures, \* failures so far
    raced,    \* history: two calls created a pod for one class at the same time
    undestroyed  \* history: pods whose destroy failed

rungVars == <<podOf, pods, cache, call, doomed, calls, failures, raced, undestroyed>>

RungClasses == {Ladder[i] : i \in DOMAIN Ladder}
Idle == [at |-> "idle", class |-> Ladder[1], kind |-> "none", pod |-> 0, todo |-> {}, before |-> << >>, alone |-> FALSE]

\* A pod before anything is written to it: no files and no Git baseline.  seeded is
\* history: the workspace was put there completely; clean: and no effect came
\* before that, nor a commit of the agent.
Fresh == [life |-> "up", files |-> [f \in RungFiles |-> NoFile], git |-> FALSE,
          head |-> [f \in RungFiles |-> NoFile], seeded |-> FALSE, clean |-> TRUE]

RungInit ==
    /\ podOf = [c \in RungClasses |-> 0] /\ pods = << >> /\ cache = Seed
    /\ call = [r \in Callers |-> Idle] /\ doomed = {} /\ calls = 0 /\ failures = 0 /\ raced = FALSE /\ undestroyed = {}

At(r, place) == call[r].at = place
Pod(r) == pods[call[r].pod]
Up(r) == Pod(r).life = "up"
Moved(c, place) == IF place = "idle" THEN Idle ELSE [c EXCEPT !.at = place, !.before = << >>, !.todo = {}]
Called == calls < MaxCalls /\ calls' = calls + 1
Fails == failures < MaxFailures /\ failures' = failures + 1
Works == UNCHANGED failures
MoveTo(r, place) == call' = [call EXCEPT ![r] = Moved(@, place)]

\* Another call changed the pod or the cache under a checkpoint.
Disturbed(r) == [s \in Callers |-> IF s = r THEN call[s] ELSE [call[s] EXCEPT !.alone = FALSE]]
DisturbAndGoto(r, place) == call' = [Disturbed(r) EXCEPT ![r] = Moved(@, place)]

\* Where a call goes when it fails or ends: the one-shot executor has its pod to release.
Leaves(r) == IF call[r].kind = "physical" THEN "release" ELSE "idle"

\* The snapshot a sync may have to restore is taken before git status runs.
StartSync(c) == [c EXCEPT !.at = "list", !.before = cache, !.alone = TRUE]

-----------------------------------------------------------------------------
(* execute: the broker tries the preferred class first, and a command may name *)
(* its class.  "workspace" is an effect on files, "exec" a command, "physical" *)
(* a command through the one-shot KubernetesExecutor.                          *)

Execute(r, kind, class) ==
    /\ At(r, "idle") /\ Called /\ (kind = "workspace" => class = Ladder[1])
    /\ LET held == IF kind = "physical" THEN 0 ELSE podOf[class] IN
       call' = [call EXCEPT ![r] = [Idle EXCEPT !.at = (IF held = 0 THEN "create" ELSE "run"),
                                                !.class = class, !.kind = kind, !.pod = held]]
    /\ raced' = (raced \/ \E s \in Callers \ {r} : /\ kind # "physical" /\ call[s].kind # "physical"
                                                    /\ At(s, "create") /\ call[s].class = class)
    /\ UNCHANGED <<podOf, pods, cache, doomed, failures, undestroyed>>

\* #leaseFor up to the first await after the pod exists: the entry is set before
\* the workspace is in the pod.
CreatePod(r) ==
    /\ At(r, "create") /\ Len(pods) < MaxPods
    /\ pods' = Append(pods, Fresh)
    /\ podOf' = IF call[r].kind = "physical" THEN podOf ELSE [podOf EXCEPT ![call[r].class] = Len(pods) + 1]
    /\ call' = [call EXCEPT ![r].at = "base", ![r].pod = Len(pods) + 1]
    /\ UNCHANGED <<cache, doomed, calls, failures, raced, undestroyed>>

CreateFails(r) ==
    /\ At(r, "create") /\ Fails /\ MoveTo(r, "idle")
    /\ UNCHANGED <<podOf, pods, cache, doomed, calls, raced, undestroyed>>

-----------------------------------------------------------------------------
(* materialize: the source's files, the Git baseline, the overlay.             *)

PutFiles(r, values, S) ==
    pods' = [pods EXCEPT ![call[r].pod].files = [f \in RungFiles |-> IF f \in S THEN values[f] ELSE @[f]]]

InSource == {f \in RungFiles : Origin[f] # NoFile}
InOverlay == {f \in RungFiles : cache[f] # Origin[f]}

WriteBase(r) ==
    /\ At(r, "base") /\ Up(r)
    /\ \/ Works /\ PutFiles(r, Origin, InSource) /\ DisturbAndGoto(r, "baseline")
       \/ Fails /\ \E S \in SUBSET InSource : PutFiles(r, Origin, S) /\ DisturbAndGoto(r, Leaves(r))
    /\ UNCHANGED <<podOf, cache, doomed, calls, raced, undestroyed>>

CommitBaseline(r) ==
    /\ At(r, "baseline") /\ Up(r)
    /\ \/ /\ Works
          /\ pods' = [pods EXCEPT ![call[r].pod].git = TRUE, ![call[r].pod].head = Pod(r).files]
          /\ DisturbAndGoto(r, "overlay")
       \/ Fails /\ UNCHANGED pods /\ DisturbAndGoto(r, Leaves(r))
    /\ UNCHANGED <<podOf, cache, doomed, calls, raced, undestroyed>>

WriteOverlay(r) ==
    /\ At(r, "overlay") /\ Up(r)
    /\ \/ /\ Works
          /\ pods' = [pods EXCEPT ![call[r].pod].files = [f \in RungFiles |-> IF f \in InOverlay THEN cache[f] ELSE @[f]],
                                  ![call[r].pod].seeded = TRUE]
          /\ DisturbAndGoto(r, "run")
       \/ Fails /\ \E S \in SUBSET InOverlay : PutFiles(r, cache, S) /\ DisturbAndGoto(r, Leaves(r))
    /\ UNCHANGED <<podOf, cache, doomed, calls, raced, undestroyed>>

-----------------------------------------------------------------------------
(* The effect in the pod.  It leaves a file changed or as it was, or commits in *)
(* the pod's repository; a failed or timed-out command may have done so too.    *)
RunEffect(r) ==
    /\ At(r, "run") /\ Up(r)
    /\ \/ \E f \in RungFiles, v \in Versions \cup {NoFile} :
             pods' = [pods EXCEPT ![call[r].pod].files[f] = v, ![call[r].pod].clean = @ /\ Pod(r).seeded]
       \/ /\ call[r].kind # "workspace" /\ Pod(r).git
          /\ pods' = [pods EXCEPT ![call[r].pod].head = Pod(r).files, ![call[r].pod].clean = FALSE]
    /\ call' = [Disturbed(r) EXCEPT ![r] = IF @.kind = "physical" THEN StartSync(@) ELSE Idle]
    /\ UNCHANGED <<podOf, cache, doomed, calls, failures, raced, undestroyed>>

\* Any command on a pod that is no longer there fails, and nothing forgets the pod.
PodIsGone(r) ==
    /\ call[r].at \in {"base", "baseline", "overlay", "run"} /\ ~Up(r)
    /\ MoveTo(r, Leaves(r))
    /\ UNCHANGED <<podOf, pods, cache, doomed, calls, failures, raced, undestroyed>>

-----------------------------------------------------------------------------
(* syncBack: snapshot, git status, one change at a time; all or nothing.       *)

Held == {i \in DOMAIN Ladder : podOf[Ladder[i]] # 0}

\* The rung's checkpoint takes the first executor that holds a pod.
Checkpoint(r) ==
    /\ At(r, "idle") /\ Held # {} /\ Called
    /\ LET class == Ladder[CHOOSE i \in Held : \A j \in Held : i <= j] IN
       call' = [call EXCEPT ![r] = StartSync([Idle EXCEPT !.class = class, !.kind = "checkpoint", !.pod = podOf[class]])]
    /\ UNCHANGED <<podOf, pods, cache, doomed, failures, raced, undestroyed>>

\* git status against HEAD.  The exit status of the pipeline is the loop's, so
\* a pod without a repository reports no change.
ListGitChanges(p) ==
    IF ~p.git THEN {}
    ELSE {[file |-> f, deleted |-> p.files[f] = NoFile] : f \in {g \in RungFiles : p.files[g] # p.head[g]}}

ListChanges(r) ==
    /\ At(r, "list") /\ Up(r)
    /\ call' = [call EXCEPT ![r].at = "import", ![r].todo = ListGitChanges(Pod(r))]
    /\ UNCHANGED <<podOf, pods, cache, doomed, calls, failures, raced, undestroyed>>

\* readFile is a pipeline too: a file that has vanished since is read as empty.
ReadFile(p, f) == IF p.files[f] = NoFile THEN Blank ELSE p.files[f]

ImportChange(r) ==
    /\ At(r, "import")
    /\ \E change \in call[r].todo :
          /\ change.deleted \/ Up(r)
          /\ cache' = [cache EXCEPT ![change.file] = IF change.deleted THEN NoFile ELSE ReadFile(Pod(r), change.file)]
          /\ call' = [Disturbed(r) EXCEPT ![r].todo = @ \ {change}]
    /\ UNCHANGED <<podOf, pods, doomed, calls, failures, raced, undestroyed>>

\* Mutated: what was imported before the failure stays.
SyncFailsHalfway(r) ==
    /\ call[r].at = "list" \/ (call[r].at = "import" /\ call[r].todo # {})
    /\ Fails /\ UNCHANGED cache
    /\ call' = [Disturbed(r) EXCEPT ![r] = Moved(@, Leaves(r))]
    /\ UNCHANGED <<podOf, pods, doomed, calls, raced, undestroyed>>

\* A command fails or a limit is passed: the snapshot is restored.
SyncFails(r) ==
    /\ call[r].at = "list" \/ (call[r].at = "import" /\ call[r].todo # {})
    /\ Fails /\ cache' = call[r].before
    /\ call' = [Disturbed(r) EXCEPT ![r] = Moved(@, Leaves(r))]
    /\ UNCHANGED <<podOf, pods, doomed, calls, raced, undestroyed>>

SyncDone(r) ==
    /\ At(r, "import") /\ call[r].todo = {}
    /\ MoveTo(r, Leaves(r))
    /\ UNCHANGED <<podOf, pods, cache, doomed, calls, failures, raced, undestroyed>>

-----------------------------------------------------------------------------
(* The end of pods.                                                            *)

\* destroy succeeds, or its error is swallowed and the pod stays.
DestroyPod(p) ==
    \/ pods' = [pods EXCEPT ![p].life = "gone"] /\ Works /\ UNCHANGED undestroyed
    \/ undestroyed' = undestroyed \cup {p} /\ Fails /\ UNCHANGED pods

\* The finally of the one-shot executor.
Release(r) ==
    /\ At(r, "release") /\ DestroyPod(call[r].pod)
    /\ MoveTo(r, "idle")
    /\ UNCHANGED <<podOf, cache, doomed, calls, raced>>

\* close clears every lease map, then destroys one pod after the other.
CloseRung ==
    /\ Held # {} /\ Called
    /\ doomed' = doomed \cup {podOf[Ladder[i]] : i \in Held}
    /\ podOf' = [c \in RungClasses |-> 0]
    /\ UNCHANGED <<pods, cache, call, failures, raced, undestroyed>>

DestroyNext(p) ==
    /\ p \in doomed /\ DestroyPod(p) /\ doomed' = doomed \ {p}
    /\ UNCHANGED <<podOf, cache, call, calls, raced>>

\* Kubernetes ends the pod: activeDeadlineSeconds, an eviction (external).
PodDies(p) ==
    /\ pods[p].life = "up" /\ Fails /\ pods' = [pods EXCEPT ![p].life = "gone"]
    /\ UNCHANGED <<podOf, cache, call, doomed, calls, raced, undestroyed>>

RungStep(r) ==
    \/ CreatePod(r) \/ CreateFails(r) \/ WriteBase(r) \/ CommitBaseline(r) \/ WriteOverlay(r)
    \/ RunEffect(r) \/ PodIsGone(r) \/ ListChanges(r) \/ ImportChange(r) \/ SyncFails(r) \/ SyncDone(r) \/ Release(r)

RungNext ==
    \/ \E r \in Callers : RungStep(r) \/ Checkpoint(r)
    \/ \E r \in Callers, kind \in {"workspace", "exec", "physical"}, class \in RungClasses : Execute(r, kind, class)
    \/ CloseRung
    \/ \E p \in DOMAIN pods : DestroyNext(p) \/ PodDies(p)

-----------------------------------------------------------------------------
(* A sync of r that nothing disturbed ends in this step.                       *)
SyncEnds(r) == At(r, "import") /\ call[r].alone /\ call'[r].at # "import" /\ podOf' = podOf

\* A sync that fails, undisturbed, has imported nothing, and one that succeeds
\* has imported every file in which the pod's workspace differs from the source
\* the pod was filled from, with the pod's bytes (materialize and syncBack of
\* workspace-sync.ts).
CheckpointKeepsEdits ==
    \A r \in Callers : SyncEnds(r) =>
        IF call[r].todo # {} THEN cache' = call[r].before
        ELSE Pod(r).seeded /\ Pod(r).clean =>
               \A f \in RungFiles : Pod(r).files[f] # Origin[f] => cache[f] = Pod(r).files[f]

\* After a sync that succeeds, undisturbed, the cache is the pod's workspace: what
\* the agent has undone or deleted since it entered the cache is undone there as
\* well (the baseline comment of workspace-sync.ts:60-62).
CheckpointMatchesPod ==
    [][\A r \in Callers : SyncEnds(r) /\ call[r].todo = {} /\ Pod(r).seeded /\ Pod(r).clean
                             => cache = Pod(r).files]_rungVars

\* A pod that no lease map, no running call and no close knows is one whose
\* destroy failed, unless two first effects of one class overlapped
\* (#leaseFor and close of sandbox-workspace.ts, the finally of executor.ts).
PodsAccounted ==
    raced \/ \A p \in DOMAIN pods :
        pods[p].life = "up" =>
            \/ \E c \in RungClasses : podOf[c] = p
            \/ \E r \in Callers : call[r].pod = p /\ ~At(r, "idle")
            \/ p \in doomed \cup undestroyed

\* A rung loses neither the agent's edits nor a pod (workspace-sync.ts,
\* sandbox-workspace.ts): checkpoints keep the edits, pods are known or closed.
RungLosesNothing == [][CheckpointKeepsEdits /\ PodsAccounted']_rungVars

=============================================================================
