------------------------------ MODULE WarmPool ------------------------------
(***************************************************************************)
(* WarmSandboxPool (src/execution/kubernetes/pool.ts) for one resource     *)
(* class: callers that acquire a sandbox, hold it and release it, a queue  *)
(* of waiters, maintain() and close().                                     *)
(*                                                                         *)
(* An action is the code between two awaits.  The backend (Kubernetes)     *)
(* answers each create and reset in its own time, or fails.  A caller here *)
(* has one lease at a time; time enters only through maintain, to which    *)
(* any slot that is not just being handed out may look idle.               *)
(***************************************************************************)
EXTENDS Integers, Sequences, FiniteSets, FiniteSetsExt

CONSTANTS
    Tenants,
    MinReadys, MaxReady, MaxTotal,  \* WarmPoolPolicy; the values minReady may have
    MaxSandboxes                         \* bound on the sandboxes ever created

ASSUME PoolAssumption ==
    /\ MinReadys \subseteq Nat /\ MaxReady \in Nat /\ MaxTotal \in Nat /\ MaxSandboxes \in Nat
    /\ \A n \in MinReadys : n <= MaxReady
    /\ MaxReady <= MaxTotal
    /\ IsFiniteSet(Tenants)

Sandboxes == 1 .. MaxSandboxes
NoSandbox == 0

VARIABLES
    slots,       \* the keys of #slots
    slotState,       \* per sandbox: Slot.state, or "unborn"
    waiters,     \* #waiters, oldest first
    creating,    \* #creating
    poolClosed,      \* #closed
    leaseAt, leasePod,     \* per caller: where its acquire or release stands; its slot
    refills,     \* creations maintain has in flight
    swept,       \* maintain awaits the destroys of its first loop
    destroyCalls,    \* history, per sandbox: calls of backend.destroy
    minReady,    \* WarmPoolPolicy.minReady, which never changes
    spoiled,     \* history: a released sandbox could not be used again
    residue      \* history, per sandbox: whose work it holds since its last reset

pool == <<slots, slotState, destroyCalls>>
poolVars == <<slots, slotState, waiters, creating, poolClosed, leaseAt, leasePod, refills, swept, destroyCalls, residue,
              minReady, spoiled>>

Born == {p \in Sandboxes : slotState[p] # "unborn"}
Ready == {p \in slots : slotState[p] = "ready"}
Creators == {c \in Tenants : leaseAt[c] = "creating"}
InFlight == Cardinality(Creators) + refills

PoolInit ==
    /\ slots = {} /\ slotState = [p \in Sandboxes |-> "unborn"]
    /\ waiters = <<>> /\ creating = 0 /\ poolClosed = FALSE
    /\ leaseAt = [c \in Tenants |-> "idle"] /\ leasePod = [c \in Tenants |-> NoSandbox]
    /\ refills = 0 /\ swept = FALSE
    /\ destroyCalls = [p \in Sandboxes |-> 0] /\ residue = [p \in Sandboxes |-> {}]
    /\ minReady \in MinReadys /\ spoiled = FALSE

-----------------------------------------------------------------------------
(* #destroy, #leaseSlot, #serveWaiter, #rejectWaiters. *)

DestroyAll(ps) ==
    /\ slots' = slots \ ps
    /\ slotState' = [p \in Sandboxes |-> IF p \in ps THEN "destroying" ELSE slotState[p]]
    /\ destroyCalls' = [p \in Sandboxes |-> IF p \in ps THEN destroyCalls[p] + 1 ELSE destroyCalls[p]]

DestroySlot(p) ==
    IF slotState[p] = "destroying" /\ p \notin slots THEN UNCHANGED pool ELSE DestroyAll({p})

\* The callers in "done" leave with nothing.
Leave(done) ==
    /\ leaseAt' = [d \in Tenants |-> IF d \in done THEN "idle" ELSE leaseAt[d]]
    /\ leasePod' = [d \in Tenants |-> IF d \in done THEN NoSandbox ELSE leasePod[d]]

\* #leaseSlot: c gets p, with what is left on it.
LeaseSlot(p, left, c, done) ==
    /\ slots' = slots \cup {p}
    /\ slotState' = [slotState EXCEPT ![p] = "leased"]
    /\ residue' = [residue EXCEPT ![p] = left \cup {c}]
    /\ leaseAt' = [d \in Tenants |-> IF d = c THEN "holding" ELSE IF d \in done THEN "idle" ELSE leaseAt[d]]
    /\ leasePod' = [d \in Tenants |-> IF d = c THEN p ELSE IF d \in done THEN NoSandbox ELSE leasePod[d]]
    /\ UNCHANGED destroyCalls

KeepReady(p, left, done) ==
    /\ slots' = slots \cup {p}
    /\ slotState' = [slotState EXCEPT ![p] = "ready"]
    /\ residue' = [residue EXCEPT ![p] = left]
    /\ Leave(done)
    /\ UNCHANGED <<destroyCalls, waiters>>

\* Mutated: nobody is served.
OfferNobody(p, left, done) == KeepReady(p, left, done)

\* #serveWaiter: the oldest waiter gets p, or p stays ready.
Offer(p, left, done) ==
    IF waiters = <<>>
    THEN KeepReady(p, left, done)
    ELSE LeaseSlot(p, left, Head(waiters), done) /\ waiters' = Tail(waiters)

\* #rejectWaiters, when the callers in "done" fail too.
RejectWaiters(done) ==
    /\ waiters' = <<>>
    /\ Leave(done \cup {d \in Tenants : leaseAt[d] = "waiting"})

-----------------------------------------------------------------------------
(* acquire. *)

CanCreate == Cardinality(Born) + InFlight < MaxSandboxes
NewSandbox == Cardinality(Born) + 1

MayCreate == Cardinality(slots) + creating < MaxTotal

AcquireReady(c) ==
    /\ leaseAt[c] = "idle" /\ ~poolClosed
    /\ Ready # {}
    /\ LeaseSlot(Min(Ready), residue[Min(Ready)], c, {})
    /\ UNCHANGED <<waiters, creating, poolClosed, refills, swept>>

AcquireCreate(c) ==
    /\ leaseAt[c] = "idle" /\ ~poolClosed
    /\ Ready = {} /\ MayCreate /\ CanCreate
    /\ creating' = creating + 1
    /\ leaseAt' = [leaseAt EXCEPT ![c] = "creating"]
    /\ UNCHANGED <<pool, waiters, poolClosed, leasePod, refills, swept, residue>>

AcquireWait(c) ==
    /\ leaseAt[c] = "idle" /\ ~poolClosed
    /\ Ready = {} /\ ~MayCreate
    /\ waiters' = Append(waiters, c)
    /\ leaseAt' = [leaseAt EXCEPT ![c] = "waiting"]
    /\ UNCHANGED <<pool, creating, poolClosed, leasePod, refills, swept, residue>>

\* backend.create answers: the slot is ready, and acquire runs on later; in a
\* closed pool the sandbox is destroyed and acquire fails.
Created(c) ==
    /\ leaseAt[c] = "creating"
    /\ creating' = creating - 1
    /\ IF poolClosed
       THEN /\ slotState' = [slotState EXCEPT ![NewSandbox] = "destroying"]
            /\ destroyCalls' = [destroyCalls EXCEPT ![NewSandbox] = 1]
            /\ RejectWaiters({c})
            /\ UNCHANGED slots
       ELSE /\ slots' = slots \cup {NewSandbox}
            /\ slotState' = [slotState EXCEPT ![NewSandbox] = "ready"]
            /\ leaseAt' = [leaseAt EXCEPT ![c] = "created"]
            /\ leasePod' = [leasePod EXCEPT ![c] = NewSandbox]
            /\ UNCHANGED <<destroyCalls, waiters>>
    /\ UNCHANGED <<poolClosed, refills, swept, residue>>

\* ... or throws, and with it every waiter fails.
PoolCreateFails(c) ==
    /\ leaseAt[c] = "creating"
    /\ creating' = creating - 1
    /\ RejectWaiters({c})
    /\ UNCHANGED <<pool, poolClosed, refills, swept, residue>>

\* acquire continues with the slot it created, if that is still there for it.
LeaseCreated(c) ==
    /\ leaseAt[c] = "created"
    /\ IF ~poolClosed /\ slotState[leasePod[c]] = "ready"
       THEN LeaseSlot(leasePod[c], residue[leasePod[c]], c, {})
       ELSE Leave({c}) /\ UNCHANGED <<pool, residue>>
    /\ UNCHANGED <<waiters, creating, poolClosed, refills, swept>>

-----------------------------------------------------------------------------
(* release. *)

\* release({destroy: true}), or any release in a closed pool.
ReleaseDestroy(c) ==
    /\ leaseAt[c] = "holding"
    /\ DestroySlot(leasePod[c])
    /\ Leave({c})
    /\ UNCHANGED <<waiters, creating, poolClosed, refills, swept, residue>>

ReleaseReset(c) ==
    /\ leaseAt[c] = "holding" /\ ~poolClosed
    /\ leaseAt' = [leaseAt EXCEPT ![c] = "resetting"]
    /\ UNCHANGED <<pool, waiters, creating, poolClosed, leasePod, refills, swept, residue>>

\* Mutated: a sandbox that fails verification is used again.
ResetDoneUnverified(c, verified) ==
    /\ leaseAt[c] = "resetting" /\ ~poolClosed
    /\ Offer(leasePod[c], IF verified THEN {} ELSE residue[leasePod[c]], {c})
    /\ UNCHANGED <<creating, poolClosed, refills, swept>>

\* backend.reset and verifyReset answer, or one of them throws; verified says
\* that the sandbox is as new.
ResetDone(c, verified) ==
    LET reuse == ~poolClosed /\ verified /\ (waiters # <<>> \/ Cardinality(Ready) < MaxReady) IN
    /\ leaseAt[c] = "resetting"
    /\ \/ reuse /\ Offer(leasePod[c], {}, {c})
       \/ ~reuse /\ DestroySlot(leasePod[c]) /\ Leave({c}) /\ UNCHANGED <<waiters, residue>>
    /\ UNCHANGED <<creating, poolClosed, refills, swept>>

-----------------------------------------------------------------------------
(* maintain and close. *)

\* The slots an acquire is about to continue with.
JustCreated == {leasePod[c] : c \in {d \in Tenants : leaseAt[d] = "created"}}

\* The first loop: the oldest slots beyond MaxReady, and idle ones beyond minReady.
PoolSweep(idle) ==
    LET excess == {p \in Ready : Cardinality({q \in Ready : q < p}) < Cardinality(Ready) - MaxReady}
    IN  /\ ~poolClosed /\ ~swept
        /\ idle \subseteq Ready \ (excess \cup JustCreated)
        /\ idle # {} => Cardinality(Ready \ (excess \cup idle)) >= minReady
        /\ DestroyAll(excess \cup idle)
        /\ swept' = TRUE
        /\ UNCHANGED <<waiters, creating, poolClosed, leaseAt, leasePod, refills, residue>>

\* The second loop, once those are destroyed.
PoolRefill ==
    LET need == Max({0, minReady - Cardinality(Ready) - creating}) IN
    /\ swept /\ (poolClosed \/ Cardinality(Born) + InFlight + need <= MaxSandboxes)
    /\ swept' = FALSE
    /\ IF poolClosed THEN UNCHANGED <<creating, refills>>
                 ELSE creating' = creating + need /\ refills' = refills + need
    /\ UNCHANGED <<pool, waiters, poolClosed, leaseAt, leasePod, residue>>

\* #createReady(resourceClass, true) answers.
Refilled ==
    /\ refills > 0
    /\ creating' = creating - 1 /\ refills' = refills - 1
    /\ IF poolClosed
       THEN /\ slotState' = [slotState EXCEPT ![NewSandbox] = "destroying"]
            /\ destroyCalls' = [destroyCalls EXCEPT ![NewSandbox] = 1]
            /\ UNCHANGED <<slots, leaseAt, leasePod, waiters, residue>>
       ELSE Offer(NewSandbox, {}, {})
    /\ UNCHANGED <<poolClosed, swept>>

RefillFails ==
    /\ refills > 0
    /\ creating' = creating - 1 /\ refills' = refills - 1
    /\ RejectWaiters({})
    /\ UNCHANGED <<pool, poolClosed, swept, residue>>

ClosePool ==
    /\ ~poolClosed
    /\ poolClosed' = TRUE
    /\ RejectWaiters({})
    /\ DestroyAll(slots)
    /\ UNCHANGED <<creating, refills, swept, residue>>

\* A leased sandbox leaves an open pool: it was not fit for another lease.
Spoils == ~poolClosed /\ \E p \in slots : p \notin slots' /\ slotState[p] = "leased" /\ ~poolClosed'

PoolStep(steps) == steps /\ spoiled' = (spoiled \/ Spoils) /\ UNCHANGED minReady

CallerSteps ==
    \E c \in Tenants :
        \/ AcquireReady(c) \/ AcquireCreate(c) \/ AcquireWait(c)
        \/ Created(c) \/ PoolCreateFails(c) \/ LeaseCreated(c)
        \/ ReleaseDestroy(c) \/ ReleaseReset(c)
        \/ \E verified \in BOOLEAN : ResetDone(c, verified)

PoolNext ==
    \/ PoolStep(CallerSteps)
    \/ \E idle \in SUBSET Ready : PoolStep(PoolSweep(idle))
    \/ PoolStep(PoolRefill) \/ PoolStep(Refilled) \/ PoolStep(RefillFails) \/ PoolStep(ClosePool)

PoolSpec == PoolInit /\ [][PoolNext]_poolVars

\* The backend answers every call, a holder gives its sandbox back, and a
\* continuation that can run does.
PoolFairSteps ==
    PoolStep(\E c \in Tenants :
        \/ Created(c) \/ PoolCreateFails(c) \/ LeaseCreated(c)
        \/ ReleaseReset(c) \/ ReleaseDestroy(c) \/ ResetDone(c, TRUE))

-----------------------------------------------------------------------------
(* Properties. *)

\* A sandbox is leased to one caller at a time, and a caller finds on it no
\* work but its own, however releases, waiters and maintain interleave.
NoResidue ==
    \A c \in Tenants : leaseAt[c] \in {"holding", "resetting"} => residue[leasePod[c]] = {c}

\* Every sandbox ever created is a slot of the pool or has been destroyed,
\* once: none is leaked or destroyed twice, not even when close overtakes a
\* creation, a release or a reset.
TrackedOrDestroyed ==
    \A p \in Born : destroyCalls[p] = (IF p \in slots THEN 0 ELSE 1)

\* A sandbox has one keeper at a time (acquire, #leaseSlot, #destroy): the pool,
\* one caller who finds only work of its own on it, or nobody, once destroyed.
OneKeeper == NoResidue /\ TrackedOrDestroyed

SlotTypes ==
    /\ slots \subseteq Sandboxes /\ slotState \in [Sandboxes -> {"unborn", "ready", "leased", "destroying"}]
    /\ destroyCalls \in [Sandboxes -> Nat] /\ residue \in [Sandboxes -> SUBSET Tenants]
LeaseTypes ==
    /\ leaseAt \in [Tenants -> {"idle", "waiting", "creating", "created", "holding", "resetting"}]
    /\ leasePod \in [Tenants -> 0 .. MaxSandboxes]
PoolTypeOK ==
    /\ SlotTypes /\ LeaseTypes
    /\ waiters \in Seq(Tenants) /\ creating \in Int /\ refills \in Nat /\ minReady \in Nat

\* The states of a sandbox: what is ready is clean and in the pool, what is
\* destroyed has left it and was destroyed once.
SlotsByState ==
    \A p \in Sandboxes :
       /\ p \in slots <=> slotState[p] \in {"ready", "leased"}
       /\ destroyCalls[p] = IF slotState[p] = "destroying" THEN 1 ELSE 0
       /\ slotState[p] \in {"unborn", "ready"} => residue[p] = {}

\* Who holds a sandbox has its own work on it, and only close takes it away.
HoldersHold ==
    \A c \in Tenants :
       /\ leaseAt[c] = "created" => leasePod[c] \in Sandboxes
       /\ leaseAt[c] \in {"holding", "resetting"} =>
             /\ leasePod[c] \in Sandboxes /\ residue[leasePod[c]] = {c}
             /\ slotState[leasePod[c]] = "leased" \/ (poolClosed /\ slotState[leasePod[c]] = "destroying")

\* Who is in the queue waits, and is there once.
QueueWaits ==
    /\ \A i \in DOMAIN waiters : leaseAt[waiters[i]] = "waiting"
    /\ \A i, j \in DOMAIN waiters : waiters[i] = waiters[j] => i = j

\* The sandboxes are numbered as they are born, and there are numbers left for
\* the ones on their way.
BornInOrder == Born = 1 .. Cardinality(Born) /\ Cardinality(Born) + InFlight <= MaxSandboxes

PoolIInv == PoolTypeOK /\ SlotsByState /\ HoldersHold /\ QueueWaits /\ BornInOrder

\* If every released sandbox can be used again, every waiter gets a sandbox or
\* an error.
WaiterIsAnswered == \A c \in Tenants : leaseAt[c] = "waiting" ~> leaseAt[c] # "waiting" \/ spoiled

\* "A direct acquire owns the slot it is creating": while the pool is open it
\* gets the slot it has created.  It does not hold: another acquire may run first.
DirectAcquireOwnsSlot ==
    [][\A c \in Tenants : leaseAt[c] = "created" /\ leaseAt'[c] = "idle" => poolClosed]_poolVars

=============================================================================
