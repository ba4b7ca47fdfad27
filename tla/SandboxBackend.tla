---------------------------- MODULE SandboxBackend ----------------------------
(***************************************************************************)
(* KubectlSandboxBackend (src/execution/kubernetes/kubectl-backend.ts) and *)
(* the objects it applies (manifests.ts) for the default resource classes  *)
(* (src/execution/resource-class.ts): executor pods, each with a network   *)
(* policy of its own, next to the services of project cells.               *)
(*                                                                         *)
(* An action is one kubectl command.  A command may fail, and it may take  *)
(* effect in the cluster although kubectl was killed by its timer (#run)   *)
(* and is reported as failed.  A killed `kubectl exec` leaves the process  *)
(* it started running in the pod.                                          *)
(***************************************************************************)
EXTENDS Integers, FiniteSets

CONSTANTS
    Clients,        \* callers of the backend
    CellIds,        \* project cells, all in one namespace
    Classes,        \* the resource classes that are asked for
    MaxPodsMade,    \* pods made in a behaviour
    MaxExecs,       \* commands run in a behaviour
    MaxKubeFaults   \* commands that fail, and pods that are lost, in a behaviour

VARIABLES
    namespaceReady, \* #namespaceReady: "unset", "ready" or "rejected"
    pod,            \* per pod number: NoPod or the pod
    policies,       \* network policies
    cellUp,         \* per cell whether its policy and its service are there
    ask,            \* per client what it is doing
    stock,          \* pods that passed verifyReset and wait for the next client
    adrift,         \* history: pods a failed command left behind, nobody knowing them
    haunted,        \* history: pods in which a command timed out
    execs, kubeFaults

backendVars == <<namespaceReady, pod, policies, cellUp, ask, stock, adrift, haunted, execs, kubeFaults>>

Numbers == 1 .. MaxPodsMade
NoCell == "none"
NoPod == [phase |-> "none"]
Resting == [at |-> "idle", pod |-> 0, class |-> "none", cell |-> NoCell]

Exists(n) == pod[n].phase \notin {"none", "gone"}
Running(n) == pod[n].phase = "running"
Made == {n \in Numbers : pod[n] # NoPod}

KubeFails == kubeFaults < MaxKubeFaults /\ kubeFaults' = kubeFaults + 1
KubeWorks == UNCHANGED kubeFaults

-----------------------------------------------------------------------------
(* Resource classes and manifests.  A label is a pair.  A rule of a policy     *)
(* names pods by their labels, in the policy's own namespace or in those with  *)
(* the labels "space"; quantities, security contexts, volumes and ports are    *)
(* left out.                                                                   *)

ControlPlane == {<<"app", "synth-control-plane">>}
KubeDns == {<<"app", "kube-dns">>}

restrictedNetwork(mode) == [mode |-> mode, controlPlane |-> ControlPlane, dns |-> KubeDns]

DefaultClasses ==
    [id \in {"sandbox-small", "sandbox-medium", "sandbox-heavy", "project-cell"} |->
        restrictedNetwork(IF id = "project-cell" THEN "cluster" ELSE "dns-only")]

CellLabel(cell) == IF cell = NoCell THEN {} ELSE {<<"cell", cell>>}

sandboxLabels(n, class, labels) ==
    {<<"managed", "true">>, <<"class", class>>, <<"sandbox", n>>, <<"app", "synth-executor">>} \cup labels

buildSandboxPod(ns, n, class, labels) ==
    [phase |-> "pending", ns |-> ns, class |-> class, labels |-> sandboxLabels(n, class, labels),
     files |-> {}, strays |-> {}]

Everywhere(labels) == [own |-> FALSE, pods |-> labels]
InNamespace(labels) == [own |-> TRUE, pods |-> labels]

buildSandboxNetworkPolicy(ns, n, profile) ==
    [ns |-> ns, name |-> <<"sandbox", n>>, owner |-> n, selects |-> {<<"sandbox", n>>},
     ingress |-> {Everywhere(profile.controlPlane)},
     egress |-> (IF profile.mode = "none" THEN {} ELSE {Everywhere(profile.dns)})
                \cup (IF profile.mode = "cluster" THEN {Everywhere({})} ELSE {})]

buildProjectCellNetworkPolicy(ns, cell) ==
    [ns |-> ns, name |-> <<"cell", cell>>, owner |-> 0, selects |-> CellLabel(cell),
     ingress |-> {InNamespace(CellLabel(cell))},
     egress |-> {InNamespace(CellLabel(cell)), Everywhere(KubeDns)}]

buildProjectServicePod(ns, cell) ==
    [ns |-> ns, labels |-> {<<"managed", "true">>, <<"service", "db">>} \cup CellLabel(cell)]

\* The Service's selector.
buildProjectService(cell) == CellLabel(cell) \cup {<<"service", "db">>}

-----------------------------------------------------------------------------
(* What Kubernetes makes of them.  A pod no policy selects is open; a pod that *)
(* is selected gets what one of its policies allows.                           *)

Executor(n) == [ns |-> pod[n].ns, labels |-> pod[n].labels]
ServicePods == {buildProjectServicePod("cells", cell) : cell \in {k \in CellIds : cellUp[k]}}
Dns == [ns |-> "kube-system", labels |-> KubeDns]
Control == [ns |-> "control", labels |-> ControlPlane]
Internet == [ns |-> "outside", labels |-> {}]
Peers == {Executor(n) : n \in {k \in Numbers : Running(k)}} \cup ServicePods \cup {Dns, Control, Internet}

Allows(rule, ns, peer) ==
    /\ peer # Internet /\ rule.pods \subseteq peer.labels
    /\ rule.own => peer.ns = ns
Selecting(x) == {q \in policies : q.ns = x.ns /\ q.selects \subseteq x.labels}

Reaches(x, y) ==
    /\ Selecting(x) # {} => \E q \in Selecting(x) : \E rule \in q.egress : Allows(rule, q.ns, y)
    /\ Selecting(y) # {} => \E q \in Selecting(y) : \E rule \in q.ingress : Allows(rule, q.ns, x)

-----------------------------------------------------------------------------
BackendInit ==
    /\ namespaceReady = "unset" /\ pod = [n \in Numbers |-> NoPod] /\ policies = {}
    /\ cellUp = [cell \in CellIds |-> FALSE] /\ ask = [c \in Clients |-> Resting]
    /\ stock = {} /\ adrift = {} /\ haunted = {} /\ execs = 0 /\ kubeFaults = 0

Is(c, at) == ask[c].at = at
Of(c) == ask[c].pod
Then(c, at) == ask' = [ask EXCEPT ![c].at = at]
LetGo(c) == ask' = [ask EXCEPT ![c] = Resting]
Space(c) == IF ask[c].cell = NoCell THEN "synth-sandboxes" ELSE "cells"

\* createCell applies the cell's policy and then its services, before it asks for
\* the executor (its steps and failures are those of ProjectCells).
RaiseCell(cell) ==
    /\ ~cellUp[cell] /\ cellUp' = [cellUp EXCEPT ![cell] = TRUE]
    /\ policies' = policies \cup {buildProjectCellNetworkPolicy("cells", cell)}
    /\ UNCHANGED <<namespaceReady, pod, ask, stock, adrift, haunted, execs, kubeFaults>>

\* create: only project cells ask for the class project-cell.
Create(c, class, cell) ==
    /\ Is(c, "idle") /\ (class = "project-cell") = (cell # NoCell)
    /\ cell # NoCell => cellUp[cell]
    /\ Cardinality(Made) < MaxPodsMade
    /\ ask' = [ask EXCEPT ![c] = [at |-> "namespace", pod |-> 0, class |-> class, cell |-> cell]]
    /\ UNCHANGED <<namespaceReady, pod, policies, cellUp, stock, adrift, haunted, execs, kubeFaults>>

\* The backend's own namespace is applied once, and a failure is remembered.
EnsureNamespace(c) ==
    /\ Is(c, "namespace")
    /\ \/ ask[c].cell = NoCell /\ namespaceReady = "ready" /\ KubeWorks /\ Then(c, "apply") /\ UNCHANGED namespaceReady
       \/ ask[c].cell = NoCell /\ namespaceReady = "rejected" /\ KubeWorks /\ LetGo(c) /\ UNCHANGED namespaceReady
       \/ ask[c].cell = NoCell /\ namespaceReady = "unset" /\ KubeWorks /\ Then(c, "apply") /\ namespaceReady' = "ready"
       \/ ask[c].cell = NoCell /\ namespaceReady = "unset" /\ KubeFails /\ LetGo(c) /\ namespaceReady' = "rejected"
       \/ ask[c].cell # NoCell /\ KubeWorks /\ Then(c, "apply") /\ UNCHANGED namespaceReady
       \/ ask[c].cell # NoCell /\ KubeFails /\ LetGo(c) /\ UNCHANGED namespaceReady
    /\ UNCHANGED <<pod, policies, cellUp, stock, adrift, haunted, execs>>

\* The pod is applied outside the try: when kubectl is killed after the pod was
\* made, nobody deletes it.
ApplyPod(c) ==
    LET n == Cardinality(Made) + 1
        made == [pod EXCEPT ![n] = buildSandboxPod(Space(c), n, ask[c].class, CellLabel(ask[c].cell))]
    IN  /\ Is(c, "apply") /\ n \in Numbers
        /\ \/ KubeWorks /\ pod' = made /\ ask' = [ask EXCEPT ![c].at = "owner", ![c].pod = n] /\ UNCHANGED adrift
           \/ KubeFails /\ LetGo(c) /\ UNCHANGED <<pod, adrift>>
           \/ KubeFails /\ pod' = made /\ LetGo(c) /\ adrift' = adrift \cup {n}
        /\ UNCHANGED <<namespaceReady, policies, cellUp, stock, haunted, execs>>

\* #podOwner: no uid, no policy.
PodOwner(c) ==
    /\ Is(c, "owner")
    /\ \/ Exists(Of(c)) /\ KubeWorks /\ Then(c, "policy")
       \/ ~Exists(Of(c)) /\ KubeWorks /\ Then(c, "undo")
       \/ KubeFails /\ Then(c, "undo")
    /\ UNCHANGED <<namespaceReady, pod, policies, cellUp, stock, adrift, haunted, execs>>

\* Mutated: a policy that cannot be applied is forgotten.
ApplyPolicyIfPossible(c) ==
    LET fence == buildSandboxNetworkPolicy(Space(c), Of(c), DefaultClasses[ask[c].class])
    IN  /\ Is(c, "policy") /\ Then(c, "wait")
        /\ \/ KubeWorks /\ policies' = policies \cup {fence}
           \/ KubeFails /\ UNCHANGED policies
        /\ UNCHANGED <<namespaceReady, pod, cellUp, stock, adrift, haunted, execs>>

ApplyPolicy(c) ==
    LET fence == buildSandboxNetworkPolicy(Space(c), Of(c), DefaultClasses[ask[c].class])
    IN  /\ Is(c, "policy")
        /\ \/ KubeWorks /\ policies' = policies \cup {fence} /\ Then(c, "wait")
           \/ KubeFails /\ UNCHANGED policies /\ Then(c, "undo")
           \/ KubeFails /\ policies' = policies \cup {fence} /\ Then(c, "undo")
        /\ UNCHANGED <<namespaceReady, pod, cellUp, stock, adrift, haunted, execs>>

\* kubectl wait, and the identity is returned.
WaitReady(c) ==
    /\ Is(c, "wait")
    /\ \/ Running(Of(c)) /\ KubeWorks /\ Then(c, "holding")
       \/ ~Running(Of(c)) /\ KubeWorks /\ Then(c, "undo")
       \/ KubeFails /\ Then(c, "undo")
    /\ UNCHANGED <<namespaceReady, pod, policies, cellUp, stock, adrift, haunted, execs>>

\* The pod ends in its own time; its policy is gone at once.
DeletePodAndPolicy(n) ==
    /\ pod' = IF Exists(n) THEN [pod EXCEPT ![n].phase = "terminating"] ELSE pod
    /\ policies' = {q \in policies : q.name # <<"sandbox", n>>}

\* The catch of create, whose own failure is swallowed, and destroy, whose
\* failure its caller gets: in both cases nobody asks again.
Destroy(c) ==
    /\ ask[c].at \in {"undo", "discard", "holding"} /\ LetGo(c)
    /\ \/ KubeWorks /\ DeletePodAndPolicy(Of(c)) /\ UNCHANGED adrift
       \/ KubeFails /\ UNCHANGED <<pod, policies>> /\ adrift' = adrift \cup {Of(c)}
    /\ UNCHANGED <<namespaceReady, cellUp, stock, haunted, execs>>

-----------------------------------------------------------------------------
(* Commands in the pod.                                                        *)

Wrote(n, place, c) == [pod EXCEPT ![n].files = @ \cup {<<place, c>>}]

\* exec that comes back: it has written somewhere.
Exec(c, place) ==
    /\ Is(c, "holding") /\ Running(Of(c)) /\ execs < MaxExecs
    /\ execs' = execs + 1 /\ pod' = Wrote(Of(c), place, c)
    /\ UNCHANGED <<namespaceReady, policies, cellUp, ask, stock, adrift, haunted, kubeFaults>>

\* #run kills kubectl: exit code 124, and the process stays in the pod.
ExecTimesOut(c) ==
    /\ Is(c, "holding") /\ Running(Of(c)) /\ execs < MaxExecs /\ KubeFails
    /\ execs' = execs + 1 /\ pod' = [pod EXCEPT ![Of(c)].strays = @ \cup {c}]
    /\ haunted' = haunted \cup {Of(c)}
    /\ UNCHANGED <<namespaceReady, policies, cellUp, ask, stock, adrift>>

StrayWrites(n, c, place) ==
    /\ pod[n].phase \in {"running", "terminating"} /\ c \in pod[n].strays
    /\ pod' = Wrote(n, place, c)
    /\ UNCHANGED <<namespaceReady, policies, cellUp, ask, stock, adrift, haunted, execs, kubeFaults>>

\* reset: the exit code is that of the second find, so that what the first could
\* not remove from /workspace goes unnoticed here.
Reset(c) ==
    LET left == {f \in pod[Of(c)].files : f[1] = "workspace"}
        keeping(S) == [pod EXCEPT ![Of(c)].files = S]
    IN  /\ Is(c, "holding") /\ ask[c].cell = NoCell
        /\ \/ Running(Of(c)) /\ KubeWorks /\ pod' = keeping({}) /\ Then(c, "verify")
           \/ Running(Of(c)) /\ KubeFails /\ pod' = keeping(left) /\ Then(c, "verify")
           \/ Running(Of(c)) /\ KubeFails /\ pod' = keeping(left) /\ Then(c, "discard")
           \/ ~Running(Of(c)) /\ KubeWorks /\ UNCHANGED pod /\ Then(c, "discard")
        /\ UNCHANGED <<namespaceReady, policies, cellUp, stock, adrift, haunted, execs>>

\* verifyReset: the pool keeps a sandbox that passes and destroys one that does not.
VerifyReset(c) ==
    LET n == Of(c)
        clean == Running(n) /\ pod[n].files = {}
    IN  /\ Is(c, "verify") /\ KubeWorks
        /\ \/ clean /\ stock' = stock \cup {n} /\ LetGo(c)
           \/ ~clean /\ UNCHANGED stock /\ Then(c, "discard")
        /\ UNCHANGED <<namespaceReady, pod, policies, cellUp, adrift, haunted, execs>>

\* The pool hands a verified sandbox to the next client.
LeaseStock(c, n) ==
    /\ Is(c, "idle") /\ n \in stock /\ stock' = stock \ {n}
    /\ ask' = [ask EXCEPT ![c] = [at |-> "holding", pod |-> n, class |-> pod[n].class, cell |-> NoCell]]
    /\ UNCHANGED <<namespaceReady, pod, policies, cellUp, adrift, haunted, execs, kubeFaults>>

-----------------------------------------------------------------------------
(* The cluster.                                                                *)

PodRuns(n) ==
    /\ pod[n].phase = "pending" /\ pod' = [pod EXCEPT ![n].phase = "running"]
    /\ UNCHANGED <<namespaceReady, policies, cellUp, ask, stock, adrift, haunted, execs, kubeFaults>>

\* activeDeadlineSeconds or an eviction; or somebody deletes the pod.
PodIsLost(n) ==
    /\ Exists(n) /\ pod[n].phase # "terminating" /\ KubeFails
    /\ \E phase \in {"failed", "terminating"} : pod' = [pod EXCEPT ![n].phase = phase]
    /\ UNCHANGED <<namespaceReady, policies, cellUp, ask, stock, adrift, haunted, execs>>

\* The pod is gone, and the garbage collector removes what it owned.
PodEnds(n) ==
    /\ pod[n].phase = "terminating" /\ pod' = [pod EXCEPT ![n].phase = "gone", ![n].files = {}, ![n].strays = {}]
    /\ policies' = {q \in policies : q.owner # n}
    /\ UNCHANGED <<namespaceReady, cellUp, ask, stock, adrift, haunted, execs, kubeFaults>>

\* A policy applied for a pod that has just gone is collected as well.
CollectGarbage(q) ==
    /\ q \in policies /\ q.owner # 0 /\ ~Exists(q.owner)
    /\ policies' = policies \ {q}
    /\ UNCHANGED <<namespaceReady, pod, cellUp, ask, stock, adrift, haunted, execs, kubeFaults>>

ClientNext(c) ==
    \/ \E class \in Classes, cell \in CellIds \cup {NoCell} : Create(c, class, cell)
    \/ EnsureNamespace(c) \/ ApplyPod(c) \/ PodOwner(c) \/ ApplyPolicy(c) \/ WaitReady(c) \/ Destroy(c)
    \/ \E place \in {"workspace", "tmp"} : Exec(c, place)
    \/ ExecTimesOut(c) \/ Reset(c) \/ VerifyReset(c)
    \/ \E n \in stock : LeaseStock(c, n)

BackendNext ==
    \/ \E c \in Clients : ClientNext(c)
    \/ \E cell \in CellIds : RaiseCell(cell)
    \/ \E n \in Numbers : PodRuns(n) \/ PodIsLost(n) \/ PodEnds(n)
    \/ \E n \in Numbers : Running(n) /\ \E c \in pod[n].strays, place \in {"workspace", "tmp"} : StrayWrites(n, c, place)
    \/ \E q \in policies : CollectGarbage(q)

-----------------------------------------------------------------------------
HeldBy(c) == IF ask[c].at = "holding" THEN {Of(c)} ELSE {}
SameCell(x, y) == \E cell \in CellIds : CellLabel(cell) \subseteq x.labels \cap y.labels

\* A sandbox in a client's hands is fenced as its class says (create,
\* buildSandboxNetworkPolicy, buildProjectCellNetworkPolicy): one of a dns-only
\* class reaches nothing but DNS, the executor of a project cell reaches its own
\* cell's service and no other cell's, nothing reaches the outside, and only the
\* control plane and the same cell reach the sandbox.
SandboxIsConfined ==
    \A c \in Clients : \A n \in HeldBy(c) : Running(n) =>
        LET x == Executor(n) IN
        /\ \A y \in Peers \ {x} : Reaches(x, y) =>
              \/ y = Dns
              \/ pod[n].class = "project-cell" /\ y # Internet /\ (y.ns = "cells" => SameCell(x, y))
        /\ \A y \in Peers \ {x} : Reaches(y, x) => y = Control \/ SameCell(x, y)
        /\ \A y \in ServicePods : SameCell(x, y) /\ buildProjectService(ask[c].cell) \subseteq y.labels => Reaches(x, y)

\* What a client finds in its sandbox it put there itself, although sandboxes are
\* used again (reset, verifyReset): unless a command of an earlier client timed
\* out in it, whose process is still there.
SandboxIsPrivate ==
    \A c \in Clients : \A n \in HeldBy(c) \ haunted :
        Running(n) => \A f \in pod[n].files : f[2] = c

\* When nothing is under way, every pod is somebody's and every policy has its
\* pod, whatever failed and whoever deleted pods behind the backend's back, but
\* for the pods left by a failed delete or by an apply that was cut off (create,
\* #deletePodAndPolicy, the ownerReference of the policy).
AtRest ==
    /\ \A c \in Clients : ask[c].at \in {"idle", "holding"}
    /\ \A n \in Numbers : pod[n].phase # "terminating"
    /\ \A q \in policies : q.owner # 0 => Exists(q.owner)
NothingOrphaned ==
    AtRest =>
        /\ \A n \in Numbers : Exists(n) => n \in stock \cup adrift \cup UNION {HeldBy(c) : c \in Clients}
        /\ \A q \in policies : q.name[1] = "sandbox" => Exists(q.name[2])

\* Whatever fails, is cut off or ends by itself, the pods the backend makes are
\* contained (KubectlSandboxBackend): a client's sandbox is fenced as its class
\* says, holds only what that client put there, and no pod or policy is left
\* behind.
PodsAreContained == SandboxIsConfined /\ SandboxIsPrivate /\ NothingOrphaned
=============================================================================
