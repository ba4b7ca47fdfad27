----------------------------- MODULE ProjectCells -----------------------------
(***************************************************************************)
(* ProjectCellManager (src/execution/kubernetes/project-cell.ts) and the   *)
(* create and destroy of KubectlSandboxBackend (kubectl-backend.ts) that   *)
(* it calls: a project cell is a namespace with a policy, services and one *)
(* executor pod, which agents lease and which is reaped when idle.         *)
(*                                                                         *)
(* Operations on one cell id run one after the other (#withCellLock).  An  *)
(* action is the code between two kubectl commands.  Any command may fail, *)
(* and a namespace that is deleted disappears later, on its own.           *)
(***************************************************************************)
EXTENDS Integers, Sequences, FiniteSets

CONSTANTS
    Cells,          \* cell ids
    Spaces,         \* namespaces
    NamespaceOf,    \* a function: the namespace of each cell, derived or supplied
    SuppliedCells,  \* the cells whose namespace the caller supplied
    IdleTtl,        \* idleTtlMs in ticks
    MaxClock,       \* ticks in a behaviour
    MaxOps,         \* operations called in a behaviour
    MaxCellFaults   \* commands that fail in a behaviour

ASSUME CellAssumption == NamespaceOf \in [Cells -> Spaces]

VARIABLES
    record,     \* #cells: per cell the record, or Unregistered
    queue,      \* #locks: per cell the operations that wait for or hold the lock
    step,       \* per cell what the operation at the head does next
    space,      \* per namespace "none", "active" or "terminating"
    objects,    \* per namespace the objects in it
    builds,     \* per cell the executors asked for; the number names the executor
    held,       \* leases not yet released, each with the build it was given for and the call's number
    clock,
    ops, cellFaults,
    undeleted   \* history: a delete failed and its error was swallowed

cellVars == <<record, queue, step, space, objects, builds, held, clock, ops, cellFaults, undeleted>>

Kinds == {"ensure", "lease", "reap", "destroy"}
Unregistered == [build |-> 0, leases |-> 0, lastUsedAt |-> 0]

CellInit ==
    /\ record = [c \in Cells |-> Unregistered] /\ queue = [c \in Cells |-> << >>]
    /\ step = [c \in Cells |-> "start"]
    /\ space = [n \in Spaces |-> "none"] /\ objects = [n \in Spaces |-> {}]
    /\ builds = [c \in Cells |-> 0] /\ held = {} /\ clock = 0 /\ ops = 0 /\ cellFaults = 0 /\ undeleted = FALSE

Registered(c) == record[c].build # 0
Obj(c, what, build) == [cell |-> c, what |-> what, build |-> build]
Home(c) == NamespaceOf[c]
InSpace(c, S) == objects' = [objects EXCEPT ![Home(c)] = @ \cup S]
OutOfSpace(c, S) == objects' = [objects EXCEPT ![Home(c)] = @ \ S]

CellFails == cellFaults < MaxCellFaults /\ cellFaults' = cellFaults + 1
CellWorks == UNCHANGED cellFaults

-----------------------------------------------------------------------------
(* The lock: an operation waits for the ones called before it.                 *)

Holds(c, kind) == queue[c] # << >> /\ Head(queue[c]).kind = kind

\* ensure, lease, reap and destroy: queue behind the previous operation.  reap
\* takes the time when it is called.
WithCellLock(c, kind) ==
    /\ ops < MaxOps /\ ops' = ops + 1
    /\ kind = "reap" => Registered(c)
    /\ queue' = [queue EXCEPT ![c] = Append(@, [kind |-> kind, now |-> clock, no |-> ops + 1])]
    /\ UNCHANGED <<record, step, space, objects, builds, held, clock, cellFaults, undeleted>>

Finish(c) == queue' = [queue EXCEPT ![c] = Tail(@)] /\ step' = [step EXCEPT ![c] = "start"]
Continue(c, s) == step' = [step EXCEPT ![c] = s] /\ UNCHANGED queue

-----------------------------------------------------------------------------
(* lease, and ensure without the lease.                                        *)

Lease(c, rec) ==
    IF Head(queue[c]).kind = "lease"
    THEN /\ record' = [record EXCEPT ![c] = [rec EXCEPT !.leases = @ + 1, !.lastUsedAt = clock]]
         /\ held' = held \cup {[cell |-> c, build |-> rec.build, no |-> Head(queue[c]).no]}
    ELSE record' = [record EXCEPT ![c] = rec] /\ UNCHANGED held

EnsureLocked(c) ==
    /\ Holds(c, "ensure") \/ Holds(c, "lease")
    /\ step[c] = "start"
    /\ IF Registered(c) THEN Lease(c, record[c]) /\ Finish(c)
       ELSE UNCHANGED <<record, held>> /\ Continue(c, "namespace")
    /\ UNCHANGED <<space, objects, builds, clock, ops, cellFaults, undeleted>>

\* apply of the namespace creates it, or changes nothing, a terminating one included.
ApplyNamespace(c) ==
    /\ step[c] = "namespace"
    /\ \/ CellWorks /\ Continue(c, "policy")
          /\ space' = [space EXCEPT ![Home(c)] = IF @ = "none" THEN "active" ELSE @]
       \/ CellFails /\ Continue(c, "rollback") /\ UNCHANGED space
    /\ UNCHANGED <<record, objects, builds, held, clock, ops, undeleted>>

\* apply of an object in the cell's namespace: refused unless it is active.
Apply(c, at, obj, next, failed) ==
    /\ step[c] = at
    /\ \/ space[Home(c)] = "active" /\ CellWorks /\ InSpace(c, {obj}) /\ Continue(c, next)
       \/ space[Home(c)] # "active" /\ CellWorks /\ UNCHANGED objects /\ Continue(c, failed)
       \/ CellFails /\ UNCHANGED objects /\ Continue(c, failed)
    /\ UNCHANGED <<record, space, builds, held, clock, ops, undeleted>>

ApplyCellPolicy(c) == Apply(c, "policy", Obj(c, "policy", 0), "service", "rollback")
ApplyService(c) == Apply(c, "service", Obj(c, "service", 0), "ready", "rollback")

\* waitPodReady of a service; its Service object goes with it.
ServiceReady(c) ==
    /\ step[c] = "ready"
    /\ \/ CellWorks /\ Continue(c, "namespace2")
       \/ CellFails /\ Continue(c, "rollback")
    /\ UNCHANGED <<record, space, objects, builds, held, clock, ops, undeleted>>

\* KubectlSandboxBackend.create: the namespace again, the pod, its policy, ready.
CreateNamespace(c) ==
    /\ step[c] = "namespace2"
    /\ builds' = [builds EXCEPT ![c] = @ + 1]
    /\ \/ CellWorks /\ Continue(c, "pod")
          /\ space' = [space EXCEPT ![Home(c)] = IF @ = "none" THEN "active" ELSE @]
       \/ CellFails /\ Continue(c, "rollback") /\ UNCHANGED space
    /\ UNCHANGED <<record, objects, held, clock, ops, undeleted>>

CreateExecutor(c) == Apply(c, "pod", Obj(c, "executor", builds[c]), "fence", "rollback")
CreateFence(c) == Apply(c, "fence", Obj(c, "fence", builds[c]), "registered", "delete")

\* The pod is Ready: the cell is registered, and leased if lease was called.
Register(c) ==
    /\ step[c] = "registered"
    /\ \/ /\ CellWorks
          /\ Lease(c, [build |-> builds[c], leases |-> 0, lastUsedAt |-> clock]) /\ Finish(c)
       \/ CellFails /\ Continue(c, "delete") /\ UNCHANGED <<record, held>>
    /\ UNCHANGED <<space, objects, builds, clock, ops, undeleted>>

-----------------------------------------------------------------------------
(* What is taken down again.                                                   *)

\* A swallowed delete: it succeeds, or it fails and nothing hears of it.
Swallowed(deleted) ==
    \/ CellWorks /\ deleted /\ UNCHANGED undeleted
    \/ CellFails /\ undeleted' = TRUE /\ UNCHANGED <<space, objects>>

Sandbox(c, build) == {Obj(c, "executor", build), Obj(c, "fence", build)}

\* create failed after the pod was applied: deletePodAndPolicy.
DeleteSandbox(c) ==
    /\ step[c] = "delete" /\ Continue(c, "rollback")
    /\ Swallowed(OutOfSpace(c, Sandbox(c, builds[c])) /\ UNCHANGED space)
    /\ UNCHANGED <<record, builds, held, clock, ops>>

DeleteNamespace(c) ==
    /\ space' = [space EXCEPT ![Home(c)] = IF @ = "active" THEN "terminating" ELSE @]
    /\ UNCHANGED objects

\* The catch of #createCell; the executor is never set when it is reached.
Rollback(c) ==
    /\ step[c] = "rollback" /\ Finish(c)
    /\ IF c \in SuppliedCells THEN UNCHANGED <<space, objects, cellFaults, undeleted>> ELSE Swallowed(DeleteNamespace(c))
    /\ UNCHANGED <<record, builds, held, clock, ops>>

\* Mutated: the record is forgotten only when the executor is gone.
DestroyThenForget(c) ==
    /\ IF Registered(c) THEN Continue(c, "unexec") /\ UNCHANGED record
       ELSE Finish(c) /\ UNCHANGED record
    /\ UNCHANGED <<space, objects, builds, held, clock, ops, cellFaults, undeleted>>

\* #destroyLocked forgets the record, then deletes the executor and the namespace.
DestroyLocked(c) ==
    /\ IF Registered(c) THEN Continue(c, "unexec") /\ record' = [record EXCEPT ![c] = Unregistered]
       ELSE Finish(c) /\ UNCHANGED record
    /\ UNCHANGED <<space, objects, builds, held, clock, ops, cellFaults, undeleted>>

DestroyCell(c) == Holds(c, "destroy") /\ step[c] = "start" /\ DestroyLocked(c)

Reapable(c) == record[c].leases = 0 /\ Head(queue[c]).now - record[c].lastUsedAt >= IdleTtl

\* Mutated: reap looks only at the time.
ReapByTime(c) ==
    /\ Holds(c, "reap") /\ step[c] = "start"
    /\ IF Head(queue[c]).now - record[c].lastUsedAt >= IdleTtl THEN DestroyLocked(c)
       ELSE /\ Finish(c)
            /\ UNCHANGED <<record, space, objects, builds, held, clock, ops, cellFaults, undeleted>>

Reap(c) ==
    /\ Holds(c, "reap") /\ step[c] = "start"
    /\ IF Reapable(c) THEN DestroyLocked(c)
       ELSE /\ Finish(c)
            /\ UNCHANGED <<record, space, objects, builds, held, clock, ops, cellFaults, undeleted>>

\* The executor is the one of the record that was forgotten, the last one built.
DestroyExecutor(c) ==
    /\ step[c] = "unexec" /\ Continue(c, "unspace")
    /\ Swallowed(OutOfSpace(c, Sandbox(c, builds[c])) /\ UNCHANGED space)
    /\ UNCHANGED <<record, builds, held, clock, ops>>

DestroySpace(c) ==
    /\ step[c] = "unspace" /\ Finish(c)
    /\ Swallowed(DeleteNamespace(c))
    /\ UNCHANGED <<record, builds, held, clock, ops>>

\* release is not under the lock, and acts on the record the lease was given for.
ReleaseLease(l) ==
    /\ l \in held /\ held' = held \ {l}
    /\ record' = IF record[l.cell].build = l.build
                 THEN [record EXCEPT ![l.cell].leases = IF @ > 0 THEN @ - 1 ELSE 0, ![l.cell].lastUsedAt = clock]
                 ELSE record
    /\ UNCHANGED <<queue, step, space, objects, builds, clock, ops, cellFaults, undeleted>>

\* Kubernetes finishes deleting a namespace and what is in it (external).
Terminated(n) ==
    /\ space[n] = "terminating"
    /\ space' = [space EXCEPT ![n] = "none"] /\ objects' = [objects EXCEPT ![n] = {}]
    /\ UNCHANGED <<record, queue, step, builds, held, clock, ops, cellFaults, undeleted>>

Tick ==
    /\ clock < MaxClock /\ clock' = clock + 1
    /\ UNCHANGED <<record, queue, step, space, objects, builds, held, ops, cellFaults, undeleted>>

CellStep(c) ==
    \/ EnsureLocked(c) \/ ApplyNamespace(c) \/ ApplyCellPolicy(c) \/ ApplyService(c) \/ ServiceReady(c)
    \/ CreateNamespace(c) \/ CreateExecutor(c) \/ CreateFence(c) \/ Register(c) \/ DeleteSandbox(c) \/ Rollback(c)
    \/ DestroyCell(c) \/ Reap(c) \/ DestroyExecutor(c) \/ DestroySpace(c)

CellNext ==
    \/ \E c \in Cells : CellStep(c)
    \/ \E c \in Cells, kind \in Kinds : WithCellLock(c, kind)
    \/ \E l \in held : ReleaseLease(l)
    \/ \E n \in Spaces : Terminated(n)
    \/ Tick

CellSpec == CellInit /\ [][CellNext]_cellVars

-----------------------------------------------------------------------------
Alone(c) == \A d \in Cells \ {c} : Home(d) # Home(c)

\* A registered cell has its namespace, not about to go, with its policy, its
\* services and the executor it hands out, fenced by its own policy, unless
\* another cell has the same namespace (#createCell, #destroyLocked and the
\* lifecycle lock of project-cell.ts, create of kubectl-backend.ts).
CellIsWhole ==
    \A c \in Cells : Registered(c) /\ Alone(c) =>
        /\ space[Home(c)] = "active"
        /\ {Obj(c, "policy", 0), Obj(c, "service", 0)} \cup Sandbox(c, record[c].build) \subseteq objects[Home(c)]

\* When no operation is under way, an executor that is running belongs to a
\* registered cell, and a namespace the manager created is that of a registered
\* cell, unless a delete failed or the namespace is shared (the catch of
\* #createCell and #destroyLocked of project-cell.ts).
NothingLeftBehind ==
    undeleted \/ \A c \in Cells : queue[c] = << >> /\ Alone(c) /\ space[Home(c)] = "active" =>
        /\ \A o \in objects[Home(c)] : o.what = "executor" => o.build = record[c].build
        /\ c \notin SuppliedCells => Registered(c)

\* The manager's records and the cluster agree (project-cell.ts): what is
\* registered is there in full, and what is there is registered.
CellsAccounted == CellIsWhole /\ NothingLeftBehind

\* reap never takes a cell down while a lease given for it is not released
\* (lease, release and reap of project-cell.ts).
LeasedNotReaped ==
    [][\A c \in Cells : Registered(c) /\ record'[c].build # record[c].build /\ Head(queue[c]).kind = "reap"
          => ~\E l \in held : l.cell = c /\ l.build = record[c].build]_cellVars

-----------------------------------------------------------------------------
(* The inductive invariant.                                                    *)

CellSteps == {"start", "namespace", "policy", "service", "ready", "namespace2", "pod", "fence", "registered",
              "delete", "rollback", "unexec", "unspace"}
CellRecords == [build : Nat, leases : Nat, lastUsedAt : Nat]
Operations == [kind : Kinds, now : Nat, no : Nat]
Leases == [cell : Cells, build : Nat, no : Nat]
CellObjects == [cell : Cells, what : {"policy", "service", "executor", "fence"}, build : Nat]

CellTypes ==
    /\ record \in [Cells -> CellRecords] /\ queue \in [Cells -> Seq(Operations)] /\ step \in [Cells -> CellSteps]
    /\ space \in [Spaces -> {"none", "active", "terminating"}] /\ objects \in [Spaces -> SUBSET CellObjects]
    /\ builds \in [Cells -> Nat] /\ held \subseteq Leases /\ IsFiniteSet(held)
    /\ clock \in Nat /\ ops \in Nat

\* An operation that is under way is at the head of its queue, and its cell is
\* not registered; a registered cell has the executor built last.
StepInTurn(c) ==
    /\ step[c] # "start" => queue[c] # << >> /\ ~Registered(c)
    /\ record[c] = Unregistered \/ (Registered(c) /\ record[c].build = builds[c])

\* Calls are numbered in their order: no lease of a cell was given to a call
\* that still waits.
CallsInOrder(c) ==
    /\ \A i \in DOMAIN queue[c] : queue[c][i].no <= ops
    /\ \A i, j \in DOMAIN queue[c] : i < j => queue[c][i].no < queue[c][j].no
    /\ \A l \in held : l.cell = c => l.no <= ops /\ \A i \in DOMAIN queue[c] : l.no < queue[c][i].no

\* A lease is for an executor that was built, and none is for the one in the making.
LeasesAreOfBuilds(c) ==
    /\ \A l \in held : l.cell = c => l.build # 0 /\ l.build <= builds[c]
    /\ step[c] \in {"pod", "fence", "registered", "delete"} =>
          builds[c] # 0 /\ \A l \in held : l.cell = c => l.build # builds[c]

\* A record counts the leases of its executor that are not released.
LeasesOf(c) == {l \in held : l.cell = c /\ l.build = record[c].build}
LeasesCounted(c) == record[c].leases = Cardinality(LeasesOf(c))

\* What is in a namespace was put there by a cell of that namespace, since the
\* namespace was created, and an executor has the number of a build.
ObjectsAtHome ==
    \A n \in Spaces :
        /\ space[n] = "none" => objects[n] = {}
        /\ \A o \in objects[n] : Home(o.cell) = n /\ (o.what = "executor" => o.build # 0)

\* Step by step, what #createCell has put in the namespace of a cell is in it.
After(c, steps) == Registered(c) \/ step[c] \in steps
BuiltSoFar(c) ==
    /\ After(c, {"service", "ready", "namespace2", "pod", "fence", "registered"}) =>
          space[Home(c)] = "active" /\ Obj(c, "policy", 0) \in objects[Home(c)]
    /\ After(c, {"ready", "namespace2", "pod", "fence", "registered"}) => Obj(c, "service", 0) \in objects[Home(c)]
    /\ After(c, {"fence", "registered"}) => Obj(c, "executor", builds[c]) \in objects[Home(c)]
    /\ After(c, {"registered"}) => Obj(c, "fence", builds[c]) \in objects[Home(c)]

\* An executor in a namespace that stays is the one of the record, or of the
\* operation that is under way.
Executing(c, b) ==
    \/ step[c] = "start" /\ b = record[c].build
    \/ step[c] \in {"fence", "registered", "delete", "unexec"} /\ b = builds[c]
ClearedSoFar(c) ==
    space[Home(c)] = "active" =>
        /\ \A o \in objects[Home(c)] : o.what = "executor" => Executing(c, o.build)
        /\ step[c] = "start" /\ c \notin SuppliedCells => Registered(c)

SpaceInStep(c) == Alone(c) => BuiltSoFar(c) /\ (undeleted # TRUE => ClearedSoFar(c))

CellIInv ==
    /\ CellTypes /\ ObjectsAtHome
    /\ \A c \in Cells : StepInTurn(c) /\ CallsInOrder(c) /\ LeasesAreOfBuilds(c) /\ LeasesCounted(c) /\ SpaceInStep(c)
=============================================================================
