------------------------------ MODULE CellProofs ------------------------------
(***************************************************************************)
(* Proofs about the project cells, for every number of cells, callers and  *)
(* failed commands: the manager's records agree with what is in the        *)
(* cluster, and a leased cell is not reaped.                               *)
(***************************************************************************)
EXTENDS ProjectCells, FiniteSetTheorems, SequenceTheorems, TLAPS

\* What is taken from a queue.
LEMMA Taken ==
  ASSUME NEW S, NEW s \in Seq(S), s # <<>>
  PROVE  /\ Tail(s) \in Seq(S) /\ 1 \in DOMAIN s /\ Head(s) = s[1] /\ s[1] \in S
         /\ \A i \in DOMAIN Tail(s) : i \in Nat \ {0} /\ i + 1 \in DOMAIN s /\ Tail(s)[i] = s[i + 1]
  BY HeadTailProperties, LenProperties

\* What is put at its end.
LEMMA Appended ==
  ASSUME NEW S, NEW s \in Seq(S), NEW e \in S
  PROVE  /\ Append(s, e) \in Seq(S)
         /\ \A i \in DOMAIN Append(s, e) :
               \/ i \in DOMAIN s /\ Append(s, e)[i] = s[i]
               \/ i = Len(s) + 1 /\ i \notin DOMAIN s /\ Append(s, e)[i] = e
  BY AppendProperties, LenProperties

-----------------------------------------------------------------------------
(* Project cells.                                                             *)

\* The head of a queue that is not empty.
LEMMA HeadIsFirst ==
  ASSUME CellTypes, NEW c \in Cells, queue[c] # << >>
  PROVE  /\ Tail(queue[c]) \in Seq(Operations) /\ 1 \in DOMAIN queue[c]
         /\ Head(queue[c]) = queue[c][1] /\ Head(queue[c]) \in Operations
         /\ \A i \in DOMAIN Tail(queue[c]) :
               i \in Nat \ {0} /\ i + 1 \in DOMAIN queue[c] /\ Tail(queue[c])[i] = queue[c][i + 1]
<1>1. queue[c] \in Seq(Operations)
  BY Zenon DEF CellTypes
<1> QED
  BY <1>1, Taken

LEMMA QueueTyped ==
  ASSUME CellTypes, NEW c \in Cells
  PROVE  \A i \in DOMAIN queue[c] : queue[c][i] \in Operations /\ queue[c][i].no \in Nat
<1>1. queue[c] \in Seq(Operations)
  BY Zenon DEF CellTypes
<1>2. \A i \in DOMAIN queue[c] : queue[c][i] \in Operations
  BY Zenon, <1>1, ElementOfSeq, LenProperties
<1> QED
  BY Zenon, <1>2 DEF Operations

\* What a step of one cell leaves alone of another.
Same(d) ==
    /\ record'[d] = record[d] /\ queue'[d] = queue[d] /\ step'[d] = step[d] /\ builds'[d] = builds[d] /\ ops' = ops
    /\ \A l \in Leases : l.cell = d => (l \in held' <=> l \in held)
    /\ Alone(d) => space'[Home(d)] = space[Home(d)] /\ objects'[Home(d)] = objects[Home(d)]
    /\ undeleted' # TRUE => undeleted # TRUE

\* Whether it ends or goes on, a step moves the queue and the step of its cell only.
Moved(c) ==
    /\ queue' \in [Cells -> Seq(Operations)] /\ step' \in [Cells -> CellSteps]
    /\ \A d \in Cells : d # c => queue'[d] = queue[d] /\ step'[d] = step[d]

LEMMA Moves ==
  ASSUME CellTypes, NEW c \in Cells
  PROVE  /\ \A s \in CellSteps : Continue(c, s) => Moved(c)
         /\ queue[c] # << >> /\ Finish(c) => Moved(c)
<1>1. queue \in [Cells -> Seq(Operations)] /\ step \in [Cells -> CellSteps]
  BY Zenon DEF CellTypes
<1>2. ASSUME NEW s \in CellSteps, Continue(c, s)
      PROVE  Moved(c)
  BY Zenon, <1>1, <1>2 DEF Continue, Moved
<1>3. ASSUME queue[c] # << >>, Finish(c)
      PROVE  Moved(c)
  <2>1. Tail(queue[c]) \in Seq(Operations) /\ "start" \in CellSteps
    BY Zenon, <1>3, HeadIsFirst DEF CellSteps
  <2> QED
    BY Zenon, <1>1, <1>3, <2>1 DEF Finish, Moved
<1> QED
  BY Zenon, <1>2, <1>3

\* A step changes no namespace but the one of its cell.
Spaced(c) ==
    /\ space' \in [Spaces -> {"none", "active", "terminating"}] /\ objects' \in [Spaces -> SUBSET CellObjects]
    /\ \A n \in Spaces : n # Home(c) => space'[n] = space[n] /\ objects'[n] = objects[n]

LEMMA SpaceIsHome ==
  ASSUME CellTypes, NEW c \in Cells
  PROVE  /\ UNCHANGED <<space, objects>> => Spaced(c)
         /\ UNCHANGED space /\ (\E S \in SUBSET CellObjects : InSpace(c, S) \/ OutOfSpace(c, S)) => Spaced(c)
         /\ DeleteNamespace(c) => Spaced(c)
         /\ UNCHANGED objects /\ space' = [space EXCEPT ![Home(c)] = IF @ = "none" THEN "active" ELSE @] => Spaced(c)
<1>1. space \in [Spaces -> {"none", "active", "terminating"}] /\ objects \in [Spaces -> SUBSET CellObjects]
  BY Zenon DEF CellTypes
<1>2. Home(c) \in Spaces
  BY Zenon, CellAssumption DEF Home
<1>3. ASSUME UNCHANGED <<space, objects>> PROVE Spaced(c)
  BY Zenon, <1>1, <1>3 DEF Spaced
<1>4. ASSUME UNCHANGED space, NEW S \in SUBSET CellObjects, InSpace(c, S) \/ OutOfSpace(c, S) PROVE Spaced(c)
  <2>1. \E T \in SUBSET CellObjects : objects' = [objects EXCEPT ![Home(c)] = T]
    BY Zenon, <1>1, <1>2, <1>4 DEF InSpace, OutOfSpace
  <2> QED
    BY Zenon, <1>1, <1>2, <1>4, <2>1 DEF Spaced
<1>5. ASSUME DeleteNamespace(c) PROVE Spaced(c)
  <2>1. UNCHANGED objects /\ \E x \in {"none", "active", "terminating"} : space' = [space EXCEPT ![Home(c)] = x]
    BY Zenon, <1>1, <1>2, <1>5 DEF DeleteNamespace
  <2> QED
    BY Zenon, <1>1, <1>2, <2>1 DEF Spaced
<1>6. ASSUME UNCHANGED objects, space' = [space EXCEPT ![Home(c)] = IF @ = "none" THEN "active" ELSE @] PROVE Spaced(c)
  <2>1. \E x \in {"none", "active", "terminating"} : space' = [space EXCEPT ![Home(c)] = x]
    BY Zenon, <1>1, <1>2, <1>6
  <2> QED
    BY Zenon, <1>1, <1>2, <1>6, <2>1 DEF Spaced
<1> QED
  BY Zenon, <1>3, <1>4, <1>5, <1>6

\* A step gives out the leases and records of its own cell only.
Given(c) ==
    /\ record' \in [Cells -> CellRecords] /\ held' \subseteq Leases /\ IsFiniteSet(held')
    /\ \A d \in Cells : d # c => record'[d] = record[d]
    /\ \A l \in Leases : l.cell # c => (l \in held' <=> l \in held)

LEMMA GivenNone ==
  ASSUME CellTypes, NEW c \in Cells, UNCHANGED <<record, held>>
  PROVE  Given(c)
  BY Zenon DEF CellTypes, Given

\* A step that stays with its cell keeps the types and leaves the other cells alone.
LEMMA Framed ==
  ASSUME CellTypes, NEW c \in Cells, Moved(c), Spaced(c), Given(c), builds' \in [Cells -> Nat],
         \A d \in Cells : d # c => builds'[d] = builds[d],
         UNCHANGED <<clock, ops>>, undeleted' # TRUE => undeleted # TRUE
  PROVE  CellTypes' /\ \A d \in Cells : d # c => Same(d)
<1>1. CellTypes'
  BY Zenon DEF CellTypes, Moved, Spaced, Given
<1>2. ASSUME NEW d \in Cells, d # c
      PROVE  Same(d)
  <2>1. Home(d) \in Spaces
    BY Zenon, CellAssumption DEF Home
  <2>2. Alone(d) => Home(d) # Home(c)
    BY Zenon, <1>2 DEF Alone
  <2>3. \A l \in Leases : l.cell = d => (l \in held' <=> l \in held)
    BY Zenon, <1>2 DEF Given
  <2> QED
    BY Zenon, <1>2, <2>1, <2>2, <2>3 DEF Same, Moved, Spaced, Given
<1> QED
  BY Zenon, <1>1, <1>2

\* The executor's build is a number and its lease is one, when a cell is leased.
LEMMA LeaseTypes ==
  ASSUME CellTypes, NEW c \in Cells, queue[c] # << >>, NEW rec \in CellRecords, Lease(c, rec)
  PROVE  Given(c) /\ record'[c].build = rec.build
<1>1. Head(queue[c]) \in Operations
  BY Zenon, HeadIsFirst
<1>t. record \in [Cells -> CellRecords] /\ held \subseteq Leases /\ IsFiniteSet(held) /\ clock \in Nat
  BY Zenon DEF CellTypes
<1>2. CASE Head(queue[c]).kind = "lease"
  <2> DEFINE r == [rec EXCEPT !.leases = @ + 1, !.lastUsedAt = clock]
             l == [cell |-> c, build |-> rec.build, no |-> Head(queue[c]).no]
  <2>1. record' = [record EXCEPT ![c] = r] /\ held' = held \cup {l}
    BY Zenon, <1>2 DEF Lease
  <2>2. r \in CellRecords /\ r.build = rec.build
    <3>1. rec.leases + 1 \in Nat /\ rec \in [build : Nat, leases : Nat, lastUsedAt : Nat]
      BY DEF CellRecords
    <3> QED
      BY Zenon, <1>t, <3>1 DEF CellRecords
  <2>3. l \in Leases /\ l.cell = c
    BY Zenon, <1>1 DEF Leases, Operations, CellRecords
  <2> HIDE DEF r, l
  <2>4. IsFiniteSet(held')
    BY Zenon, <1>t, <2>1, FS_AddElement
  <2> QED
    BY Zenon, <1>t, <2>1, <2>2, <2>3, <2>4 DEF Given
<1>3. CASE Head(queue[c]).kind # "lease"
  <2>1. record' = [record EXCEPT ![c] = rec] /\ held' = held
    BY Zenon, <1>3 DEF Lease
  <2> QED
    BY Zenon, <1>t, <2>1 DEF Given
<1> QED
  BY Zenon, <1>2, <1>3

\* The types after a step of a cell, and what it leaves alone.
LEMMA CellStepTypes ==
  ASSUME CellIInv, NEW c \in Cells, CellStep(c)
  PROVE  CellTypes' /\ \A d \in Cells : d # c => Same(d)
<1> DEFINE Goal == CellTypes' /\ \A d \in Cells : d # c => Same(d)
<1>t. CellTypes /\ builds \in [Cells -> Nat] /\ clock \in Nat /\ record \in [Cells -> CellRecords]
  BY Zenon DEF CellIInv, CellTypes
<1>q. step[c] # "start" => queue[c] # << >>
  BY Zenon DEF CellIInv, StepInTurn
<1>k. \A s \in CellSteps : Continue(c, s) => Moved(c)
  BY Zenon, <1>t, Moves
<1>e. queue[c] # << >> /\ Finish(c) => Moved(c)
  BY Zenon, <1>t, Moves
<1>n. UNCHANGED <<record, held>> => Given(c)
  BY Zenon, <1>t, GivenNone
<1>x. UNCHANGED <<space, objects>> => Spaced(c)
  BY Zenon, <1>t, SpaceIsHome
<1>f. ASSUME Moved(c), Spaced(c), Given(c), UNCHANGED <<builds, clock, ops>>, undeleted' # TRUE => undeleted # TRUE
      PROVE  Goal
  <2>1. builds' \in [Cells -> Nat] /\ \A d \in Cells : d # c => builds'[d] = builds[d]
    BY Zenon, <1>f, <1>t
  <2> QED
    BY Zenon, <1>f, <1>t, <2>1, Framed
<1>0. ASSUME NEW build \in Nat, NEW what \in {"policy", "service", "executor", "fence"}
      PROVE  Obj(c, what, build) \in CellObjects
  BY Zenon DEF Obj, CellObjects
<1>s. \A build \in Nat : Sandbox(c, build) \in SUBSET CellObjects
  BY Zenon, <1>0 DEF Sandbox
<1>b. builds[c] \in Nat
  BY Zenon, <1>t
<1> HIDE DEF Goal
<1>a. ASSUME NEW at, NEW obj \in CellObjects, NEW next \in CellSteps, NEW failed \in CellSteps, Apply(c, at, obj, next, failed)
      PROVE  Goal
  <2>1. Moved(c)
    BY Zenon, <1>a, <1>k DEF Apply
  <2>2. Spaced(c)
    <3>1. CASE UNCHANGED objects
      BY Zenon, <1>a, <1>x, <3>1 DEF Apply
    <3>2. CASE InSpace(c, {obj})
      <4>1. {obj} \in SUBSET CellObjects
        BY Zenon
      <4> QED
        BY Zenon, <1>a, <1>t, <3>2, <4>1, SpaceIsHome DEF Apply
    <3> QED
      BY Zenon, <1>a, <3>1, <3>2 DEF Apply
  <2> QED
    BY Zenon, <1>a, <1>f, <1>n, <2>1, <2>2 DEF Apply
<1>d. ASSUME DestroyLocked(c), queue[c] # << >>
      PROVE  Goal
  <2>1. Unregistered \in CellRecords
    BY Zenon DEF Unregistered, CellRecords
  <2>2. Moved(c)
    BY Zenon, <1>d, <1>k, <1>e DEF DestroyLocked, CellSteps
  <2>3. Given(c)
    <3>1. UNCHANGED held /\ (record' = record \/ record' = [record EXCEPT ![c] = Unregistered])
      BY Zenon, <1>d DEF DestroyLocked
    <3>2. record' \in [Cells -> CellRecords] /\ \A d \in Cells : d # c => record'[d] = record[d]
      BY Zenon, <1>t, <2>1, <3>1
    <3> QED
      BY Zenon, <1>t, <3>1, <3>2 DEF Given, CellTypes
  <2> QED
    BY Zenon, <1>d, <1>f, <1>x, <2>2, <2>3 DEF DestroyLocked
<1>w. ASSUME NEW S \in SUBSET CellObjects, Swallowed(OutOfSpace(c, S) /\ UNCHANGED space)
      PROVE  Spaced(c) /\ (undeleted' # TRUE => undeleted # TRUE)
  <2>1. CASE OutOfSpace(c, S) /\ UNCHANGED space /\ UNCHANGED undeleted
    BY Zenon, <1>t, <2>1, SpaceIsHome
  <2>2. CASE undeleted' = TRUE /\ UNCHANGED <<space, objects>>
    BY Zenon, <1>x, <2>2
  <2> QED
    BY Zenon, <1>w, <2>1, <2>2 DEF Swallowed
<1>v. ASSUME Swallowed(DeleteNamespace(c))
      PROVE  Spaced(c) /\ (undeleted' # TRUE => undeleted # TRUE)
  <2>1. CASE DeleteNamespace(c) /\ UNCHANGED undeleted
    BY Zenon, <1>t, <2>1, SpaceIsHome
  <2>2. CASE undeleted' = TRUE /\ UNCHANGED <<space, objects>>
    BY Zenon, <1>x, <2>2
  <2> QED
    BY Zenon, <1>v, <2>1, <2>2 DEF Swallowed
<1> SUFFICES Goal
  BY Zenon DEF Goal
<1>1. CASE EnsureLocked(c)
  <2>1. queue[c] # << >>
    BY Zenon, <1>1 DEF EnsureLocked, Holds
  <2>2. Moved(c)
    BY Zenon, <1>1, <1>e, <1>k, <2>1 DEF EnsureLocked, CellSteps
  <2>3. record[c] \in CellRecords
    BY Zenon, <1>t
  <2>4. Given(c)
    BY Zenon, <1>1, <1>n, <1>t, <2>1, <2>3, LeaseTypes DEF EnsureLocked
  <2> QED
    BY Zenon, <1>1, <1>f, <1>x, <2>2, <2>4 DEF EnsureLocked
<1>2. CASE ApplyNamespace(c)
  <2>1. Moved(c)
    BY Zenon, <1>2, <1>k DEF ApplyNamespace, CellSteps
  <2>2. Spaced(c)
    BY Zenon, <1>2, <1>t, <1>x, SpaceIsHome DEF ApplyNamespace
  <2> QED
    BY Zenon, <1>2, <1>f, <1>n, <2>1, <2>2 DEF ApplyNamespace
<1>3. CASE ApplyCellPolicy(c)
  BY Zenon, <1>3, <1>a, <1>0 DEF ApplyCellPolicy, CellSteps
<1>4. CASE ApplyService(c)
  BY Zenon, <1>4, <1>a, <1>0 DEF ApplyService, CellSteps
<1>5. CASE ServiceReady(c)
  <2>1. Moved(c)
    BY Zenon, <1>5, <1>k DEF ServiceReady, CellSteps
  <2> QED
    BY Zenon, <1>5, <1>f, <1>n, <1>x, <2>1 DEF ServiceReady
<1>6. CASE CreateNamespace(c)
  <2>1. Moved(c)
    BY Zenon, <1>6, <1>k DEF CreateNamespace, CellSteps
  <2>2. Spaced(c)
    BY Zenon, <1>6, <1>t, <1>x, SpaceIsHome DEF CreateNamespace
  <2>3. builds' \in [Cells -> Nat] /\ \A d \in Cells : d # c => builds'[d] = builds[d]
    BY <1>6, <1>t DEF CreateNamespace
  <2> QED
    BY Zenon, <1>6, <1>n, <1>t, <2>1, <2>2, <2>3, Framed DEF CreateNamespace, Goal
<1>7. CASE CreateExecutor(c)
  BY Zenon, <1>7, <1>a, <1>b, <1>0 DEF CreateExecutor, CellSteps
<1>8. CASE CreateFence(c)
  BY Zenon, <1>8, <1>a, <1>b, <1>0 DEF CreateFence, CellSteps
<1>9. CASE Register(c)
  <2>1. queue[c] # << >>
    BY Zenon, <1>9, <1>q DEF Register
  <2>2. [build |-> builds[c], leases |-> 0, lastUsedAt |-> clock] \in CellRecords
    BY Zenon, <1>t, <1>b DEF CellRecords
  <2>3. Moved(c)
    BY Zenon, <1>9, <1>e, <1>k, <2>1 DEF Register, CellSteps
  <2>4. Given(c)
    BY Zenon, <1>9, <1>n, <1>t, <2>1, <2>2, LeaseTypes DEF Register
  <2> QED
    BY Zenon, <1>9, <1>f, <1>x, <2>3, <2>4 DEF Register
<1>10. CASE DeleteSandbox(c)
  <2>1. Moved(c)
    BY Zenon, <1>10, <1>k DEF DeleteSandbox, CellSteps
  <2> QED
    BY Zenon, <1>10, <1>b, <1>f, <1>n, <1>s, <1>w, <2>1 DEF DeleteSandbox
<1>11. CASE Rollback(c)
  <2>1. Moved(c)
    BY Zenon, <1>11, <1>e, <1>q DEF Rollback
  <2>2. Spaced(c) /\ (undeleted' # TRUE => undeleted # TRUE)
    BY Zenon, <1>11, <1>v, <1>x DEF Rollback
  <2> QED
    BY Zenon, <1>11, <1>f, <1>n, <2>1, <2>2 DEF Rollback
<1>12. CASE DestroyCell(c)
  BY Zenon, <1>12, <1>d DEF DestroyCell, Holds
<1>13. CASE Reap(c)
  <2>1. queue[c] # << >>
    BY Zenon, <1>13 DEF Reap, Holds
  <2>2. CASE Reapable(c)
    BY Zenon, <1>13, <2>1, <2>2, <1>d DEF Reap
  <2>3. CASE ~Reapable(c)
    BY Zenon, <1>13, <1>e, <1>f, <1>n, <1>x, <2>1, <2>3 DEF Reap
  <2> QED
    BY Zenon, <2>2, <2>3
<1>14. CASE DestroyExecutor(c)
  <2>1. Moved(c)
    BY Zenon, <1>14, <1>k DEF DestroyExecutor, CellSteps
  <2> QED
    BY Zenon, <1>14, <1>b, <1>f, <1>n, <1>s, <1>w, <2>1 DEF DestroyExecutor
<1>15. CASE DestroySpace(c)
  <2>1. Moved(c)
    BY Zenon, <1>15, <1>e, <1>q DEF DestroySpace
  <2> QED
    BY Zenon, <1>15, <1>f, <1>n, <1>v, <2>1 DEF DestroySpace
<1> QED
  BY Zenon, <1>1, <1>2, <1>3, <1>4, <1>5, <1>6, <1>7, <1>8, <1>9, <1>10, <1>11, <1>12, <1>13, <1>14, <1>15 DEF CellStep

\* What is true of a cell stays true in a step that leaves it alone.
LEMMA OthersKept ==
  ASSUME CellTypes, CellTypes', NEW d \in Cells, Same(d),
         StepInTurn(d), CallsInOrder(d), LeasesAreOfBuilds(d), LeasesCounted(d), SpaceInStep(d)
  PROVE  StepInTurn(d)' /\ CallsInOrder(d)' /\ LeasesAreOfBuilds(d)' /\ LeasesCounted(d)' /\ SpaceInStep(d)'
<1>1. StepInTurn(d)'
  BY Zenon DEF StepInTurn, Same, Registered
<1>2. CallsInOrder(d)'
  BY Zenon DEF CallsInOrder, Same, CellTypes
<1>3. LeasesAreOfBuilds(d)'
  BY Zenon DEF LeasesAreOfBuilds, Same, CellTypes
<1>4. LeasesCounted(d)'
  <2>1. LeasesOf(d)' = LeasesOf(d)
    BY Zenon DEF LeasesOf, Same, CellTypes
  <2> QED
    BY Zenon, <2>1 DEF LeasesCounted, Same
<1>5. SpaceInStep(d)'
  <2> SUFFICES ASSUME Alone(d)
               PROVE  BuiltSoFar(d)' /\ (undeleted' # TRUE => ClearedSoFar(d)')
    BY Zenon DEF SpaceInStep, Alone, Home
  <2>1. BuiltSoFar(d)'
    BY Zenon DEF SpaceInStep, BuiltSoFar, After, Same, Registered, Home, Obj
  <2>2. ASSUME undeleted' # TRUE
        PROVE  ClearedSoFar(d)'
    BY Zenon, <2>2 DEF SpaceInStep, ClearedSoFar, Executing, Same, Registered, Home
  <2> QED
    BY Zenon, <2>1, <2>2
<1> QED
  BY Zenon, <1>1, <1>2, <1>3, <1>4, <1>5

\* The order of the calls when the one at the head is done.
LEMMA HeadIsDone ==
  ASSUME CellIInv, NEW c \in Cells, queue[c] # << >>, Finish(c), ops' = ops,
         held' \subseteq Leases,
         \A l \in held' : l \in held \/ l.cell # c \/ l.no = Head(queue[c]).no
  PROVE  CallsInOrder(c)'
<1> DEFINE q == queue[c]
<1>1. /\ 1 \in DOMAIN q /\ Head(q) = q[1]
      /\ \A i \in DOMAIN Tail(q) : i \in Nat \ {0} /\ i + 1 \in DOMAIN q /\ Tail(q)[i] = q[i + 1]
  BY Zenon, HeadIsFirst DEF CellIInv
<1>2. queue'[c] = Tail(q)
  <2>1. queue \in [Cells -> Seq(Operations)]
    BY Zenon DEF CellIInv, CellTypes
  <2> QED
    BY Zenon, <2>1 DEF Finish
<1>3. \A i \in DOMAIN q : q[i] \in Operations /\ q[i].no \in Nat
  BY Zenon, QueueTyped DEF CellIInv
<1>4. CallsInOrder(c)
  BY Zenon DEF CellIInv
<1>5. \A i, j \in DOMAIN Tail(q) : i < j => Tail(q)[i].no < Tail(q)[j].no
  BY <1>1, <1>4 DEF CallsInOrder
<1>6. \A i \in DOMAIN Tail(q) : Tail(q)[i].no <= ops /\ q[1].no < Tail(q)[i].no
  BY <1>1, <1>4 DEF CallsInOrder
<1>7. q[1].no <= ops
  BY Zenon, <1>1, <1>4 DEF CallsInOrder
<1>8. ASSUME NEW l \in held', l.cell = c
      PROVE  l.no <= ops /\ \A i \in DOMAIN Tail(q) : l.no < Tail(q)[i].no
  <2>1. CASE l \in held
    BY Zenon, <1>1, <1>4, <1>8, <2>1 DEF CallsInOrder
  <2>2. CASE l.no = Head(q).no
    BY Zenon, <1>1, <1>6, <1>7, <2>2
  <2> QED
    BY Zenon, <1>8, <2>1, <2>2
<1> QED
  BY Zenon, <1>2, <1>5, <1>6, <1>8 DEF CallsInOrder

\* A lease is counted once: the call it is given to has none yet.
LEMMA LeaseCounts ==
  ASSUME CellIInv, CellTypes', NEW c \in Cells, queue[c] # << >>, NEW rec \in CellRecords, Lease(c, rec), Finish(c),
         UNCHANGED <<builds, ops>>, rec.build = builds[c], rec.build # 0,
         rec.leases = Cardinality({l \in held : l.cell = c /\ l.build = rec.build})
  PROVE  StepInTurn(c)' /\ CallsInOrder(c)' /\ LeasesAreOfBuilds(c)' /\ LeasesCounted(c)'
<1> DEFINE L == {l \in held : l.cell = c /\ l.build = rec.build}
           new == [cell |-> c, build |-> rec.build, no |-> Head(queue[c]).no]
<1>1. Head(queue[c]) \in Operations /\ 1 \in DOMAIN queue[c] /\ Head(queue[c]) = queue[c][1]
  BY Zenon, HeadIsFirst DEF CellIInv
<1>2. new \notin held /\ new.cell = c /\ new.build = rec.build /\ new.no = Head(queue[c]).no
  BY <1>1 DEF CellIInv, CallsInOrder, Operations
<1>3. step'[c] = "start" /\ queue'[c] = Tail(queue[c])
  BY Zenon DEF Finish, CellIInv, CellTypes
<1>4. IsFiniteSet(L) /\ Cardinality(L) \in Nat
  <2>1. L \subseteq held /\ IsFiniteSet(held)
    BY Zenon DEF CellIInv, CellTypes
  <2> QED
    BY Zenon, <2>1, FS_Subset, FS_CardinalityType
<1> HIDE DEF new
<1>5. CASE Head(queue[c]).kind = "lease"
  <2>1. /\ record'[c] = [rec EXCEPT !.leases = @ + 1, !.lastUsedAt = clock]
        /\ held' = held \cup {new}
    BY Zenon, <1>5 DEF Lease, CellIInv, CellTypes, new
  <2>2. record'[c].build = rec.build /\ record'[c].leases = rec.leases + 1
    BY Zenon, <2>1 DEF CellRecords
  <2>3. LeasesOf(c)' = L \cup {new}
    BY Zenon, <1>2, <2>1, <2>2 DEF LeasesOf
  <2>4. LeasesCounted(c)'
    <3>1. new \notin L
      BY Zenon, <1>2
    <3> HIDE DEF L
    <3>2. Cardinality(L \cup {new}) = Cardinality(L) + 1
      BY Zenon, <1>4, <3>1, FS_AddElement
    <3> QED
      BY Zenon, <2>2, <2>3, <3>2 DEF LeasesCounted, L
  <2>5. StepInTurn(c)'
    BY Zenon, <1>3, <2>2 DEF StepInTurn, Registered
  <2>6. CallsInOrder(c)'
    <3>1. \A l \in held' : l \in held \/ l.cell # c \/ l.no = Head(queue[c]).no
      BY Zenon, <1>2, <2>1
    <3>2. held' \subseteq Leases
      BY Zenon DEF CellTypes
    <3> QED
      BY Zenon, <3>1, <3>2, HeadIsDone
  <2>7. LeasesAreOfBuilds(c)'
    BY <1>2, <1>3, <2>1 DEF LeasesAreOfBuilds, CellIInv, CellTypes
  <2> QED
    BY Zenon, <2>4, <2>5, <2>6, <2>7
<1>6. CASE Head(queue[c]).kind # "lease"
  <2>1. record'[c] = rec /\ held' = held
    BY Zenon, <1>6 DEF Lease, CellIInv, CellTypes
  <2>2. LeasesCounted(c)'
    BY Zenon, <2>1 DEF LeasesCounted, LeasesOf
  <2>3. StepInTurn(c)'
    BY Zenon, <1>3, <2>1 DEF StepInTurn, Registered
  <2>4. CallsInOrder(c)'
    BY Zenon, <2>1, HeadIsDone DEF CellIInv, CellTypes
  <2>5. LeasesAreOfBuilds(c)'
    BY Zenon, <1>3, <2>1 DEF LeasesAreOfBuilds, CellIInv
  <2> QED
    BY Zenon, <2>2, <2>3, <2>4, <2>5
<1> QED
  BY Zenon, <1>5, <1>6

\* The calls, builds and leases of a cell after a step of its own.
LEMMA CellStepCounts ==
  ASSUME CellIInv, CellTypes', NEW c \in Cells, CellStep(c)
  PROVE  StepInTurn(c)' /\ CallsInOrder(c)' /\ LeasesAreOfBuilds(c)' /\ LeasesCounted(c)'
<1> DEFINE Goal == StepInTurn(c)' /\ CallsInOrder(c)' /\ LeasesAreOfBuilds(c)' /\ LeasesCounted(c)'
           Making == {"pod", "fence", "registered", "delete"}
<1>c. StepInTurn(c) /\ CallsInOrder(c) /\ LeasesAreOfBuilds(c) /\ LeasesCounted(c)
  BY Zenon DEF CellIInv
<1>b. builds[c] \in Nat /\ record[c] \in CellRecords /\ held \subseteq Leases
  BY Zenon DEF CellIInv, CellTypes
<1>k. ASSUME UNCHANGED <<record, held, builds, ops>>, NEW s \in CellSteps, Continue(c, s), queue[c] # << >>, ~Registered(c),
             s \in Making => step[c] \in Making
      PROVE  Goal
  <2>1. step'[c] = s /\ queue' = queue
    BY Zenon, <1>k DEF Continue, CellIInv, CellTypes
  <2>2. StepInTurn(c)'
    BY Zenon, <1>k, <1>c, <2>1 DEF StepInTurn, Registered
  <2>3. CallsInOrder(c)'
    BY Zenon, <1>k, <1>c, <2>1 DEF CallsInOrder
  <2>4. LeasesAreOfBuilds(c)'
    BY Zenon, <1>k, <1>c, <2>1 DEF LeasesAreOfBuilds
  <2>5. LeasesCounted(c)'
    BY Zenon, <1>k, <1>c DEF LeasesCounted, LeasesOf
  <2> QED
    BY Zenon, <2>2, <2>3, <2>4, <2>5
<1>f. ASSUME UNCHANGED <<record, held, builds, ops>>, Finish(c), queue[c] # << >>
      PROVE  Goal
  <2>1. step'[c] = "start"
    BY Zenon, <1>f DEF Finish, CellIInv, CellTypes
  <2>2. StepInTurn(c)'
    BY Zenon, <1>f, <1>c, <2>1 DEF StepInTurn, Registered
  <2>3. CallsInOrder(c)'
    BY Zenon, <1>f, <1>b, HeadIsDone
  <2>4. LeasesAreOfBuilds(c)'
    BY Zenon, <1>f, <1>c, <2>1 DEF LeasesAreOfBuilds
  <2>5. LeasesCounted(c)'
    BY Zenon, <1>f, <1>c DEF LeasesCounted, LeasesOf
  <2> QED
    BY Zenon, <2>2, <2>3, <2>4, <2>5
<1>d. ASSUME DestroyLocked(c), queue[c] # << >>
      PROVE  Goal
  <2>1. CASE Registered(c)
    <3>1. record'[c] = Unregistered /\ step'[c] = "unexec" /\ UNCHANGED <<queue, held, builds, ops>>
      BY Zenon, <1>d, <2>1 DEF DestroyLocked, Continue, CellIInv, CellTypes
    <3>2. StepInTurn(c)'
      BY <1>d, <3>1 DEF StepInTurn, Registered, Unregistered
    <3>3. CallsInOrder(c)'
      BY Zenon, <1>c, <3>1 DEF CallsInOrder
    <3>4. LeasesAreOfBuilds(c)'
      BY Zenon, <1>c, <3>1 DEF LeasesAreOfBuilds
    <3>5. LeasesCounted(c)'
      <4>1. LeasesOf(c)' = {}
        BY <1>c, <3>1 DEF LeasesOf, LeasesAreOfBuilds, Unregistered
      <4>2. Cardinality({}) = 0
        BY Zenon, FS_EmptySet
      <4> QED
        BY <3>1, <4>1, <4>2 DEF LeasesCounted, Unregistered
    <3> QED
      BY Zenon, <3>2, <3>3, <3>4, <3>5
  <2>2. CASE ~Registered(c)
    BY Zenon, <1>d, <2>2, <1>f DEF DestroyLocked
  <2> QED
    BY Zenon, <2>1, <2>2
<1>q. step[c] # "start" => queue[c] # << >> /\ ~Registered(c)
  BY Zenon, <1>c DEF StepInTurn
<1> HIDE DEF Goal
<1> SUFFICES Goal
  BY Zenon DEF Goal
<1>1. CASE EnsureLocked(c)
  <2>1. queue[c] # << >> /\ step[c] = "start"
    BY Zenon, <1>1 DEF EnsureLocked, Holds
  <2>2. CASE Registered(c)
    <3>1. Lease(c, record[c]) /\ Finish(c) /\ UNCHANGED <<builds, ops>>
      BY Zenon, <1>1, <2>2 DEF EnsureLocked
    <3>2. record[c].build = builds[c] /\ record[c].build # 0
      BY <1>c, <2>2 DEF StepInTurn, Registered, Unregistered
    <3>3. record[c].leases = Cardinality({l \in held : l.cell = c /\ l.build = record[c].build})
      BY Zenon, <1>c DEF LeasesCounted, LeasesOf
    <3> QED
      BY Zenon, <1>b, <2>1, <3>1, <3>2, <3>3, LeaseCounts DEF Goal
  <2>3. CASE ~Registered(c)
    BY Zenon, <1>1, <2>1, <2>3, <1>k DEF EnsureLocked, CellSteps
  <2> QED
    BY Zenon, <2>2, <2>3
<1>2. CASE ApplyNamespace(c)
  BY Zenon, <1>2, <1>k, <1>q DEF ApplyNamespace, CellSteps
<1>3. CASE ApplyCellPolicy(c)
  BY Zenon, <1>3, <1>k, <1>q DEF ApplyCellPolicy, Apply, CellSteps
<1>4. CASE ApplyService(c)
  BY Zenon, <1>4, <1>k, <1>q DEF ApplyService, Apply, CellSteps
<1>5. CASE ServiceReady(c)
  BY Zenon, <1>5, <1>k, <1>q DEF ServiceReady, CellSteps
<1>6. CASE CreateNamespace(c)
  <2>1. step[c] = "namespace2" /\ builds'[c] = builds[c] + 1 /\ UNCHANGED <<queue, record, held, ops>>
    BY Zenon, <1>6 DEF CreateNamespace, Continue, CellIInv, CellTypes
  <2>2. queue[c] # << >> /\ record[c] = Unregistered
    BY Zenon, <1>q, <2>1, <1>b, <1>c DEF StepInTurn, Registered, CreateNamespace
  <2>3. StepInTurn(c)'
    BY <2>1, <2>2 DEF StepInTurn, Registered, Unregistered
  <2>4. CallsInOrder(c)'
    BY Zenon, <1>c, <2>1 DEF CallsInOrder
  <2>5. LeasesAreOfBuilds(c)'
    <3>1. ASSUME NEW l \in held, l.cell = c
          PROVE  l.build # 0 /\ l.build <= builds[c] /\ l.build \in Nat
      BY Zenon, <1>b, <1>c, <3>1 DEF LeasesAreOfBuilds, Leases
    <3> QED
      BY <1>b, <2>1, <3>1 DEF LeasesAreOfBuilds
  <2>6. LeasesCounted(c)'
    BY Zenon, <1>c, <2>1 DEF LeasesCounted, LeasesOf
  <2> QED
    BY Zenon, <2>3, <2>4, <2>5, <2>6 DEF Goal
<1>7. CASE CreateExecutor(c)
  BY Zenon, <1>7, <1>k, <1>q DEF CreateExecutor, Apply, CellSteps
<1>8. CASE CreateFence(c)
  BY Zenon, <1>8, <1>k, <1>q DEF CreateFence, Apply, CellSteps
<1>9. CASE Register(c)
  <2> DEFINE rec == [build |-> builds[c], leases |-> 0, lastUsedAt |-> clock]
  <2>1. step[c] = "registered" /\ UNCHANGED <<builds, ops>>
    BY Zenon, <1>9 DEF Register
  <2>2. CASE Finish(c) /\ Lease(c, rec)
    <3>1. rec \in CellRecords /\ rec.build = builds[c] /\ rec.leases = 0
      BY Zenon DEF CellRecords, CellIInv, CellTypes
    <3>2. builds[c] # 0 /\ {l \in held : l.cell = c /\ l.build = rec.build} = {}
      BY Zenon, <1>c, <2>1 DEF LeasesAreOfBuilds
    <3>3. Cardinality({}) = 0
      BY Zenon, FS_EmptySet
    <3> HIDE DEF rec
    <3> QED
      BY Zenon, <1>q, <2>1, <2>2, <3>1, <3>2, <3>3, LeaseCounts DEF Goal
  <2>3. CASE Continue(c, "delete") /\ UNCHANGED <<record, held>>
    BY Zenon, <1>k, <1>q, <2>1, <2>3 DEF CellSteps
  <2> QED
    BY Zenon, <1>9, <2>2, <2>3 DEF Register
<1>10. CASE DeleteSandbox(c)
  BY Zenon, <1>10, <1>k, <1>q DEF DeleteSandbox, CellSteps
<1>11. CASE Rollback(c)
  BY Zenon, <1>11, <1>f, <1>q DEF Rollback
<1>12. CASE DestroyCell(c)
  BY Zenon, <1>12, <1>d DEF DestroyCell, Holds
<1>13. CASE Reap(c)
  BY Zenon, <1>13, <1>d, <1>f DEF Reap, Holds
<1>14. CASE DestroyExecutor(c)
  BY Zenon, <1>14, <1>k, <1>q DEF DestroyExecutor, CellSteps
<1>15. CASE DestroySpace(c)
  BY Zenon, <1>15, <1>f, <1>q DEF DestroySpace
<1> QED
  BY Zenon, <1>1, <1>2, <1>3, <1>4, <1>5, <1>6, <1>7, <1>8, <1>9, <1>10, <1>11, <1>12, <1>13, <1>14, <1>15 DEF CellStep

\* An object is its fields.
LEMMA ObjectIs ==
  /\ \A o \in CellObjects : o = Obj(o.cell, o.what, o.build)
  /\ \A c \in Cells, what \in {"policy", "service", "executor", "fence"}, b \in Nat :
        LET o == Obj(c, what, b) IN o \in CellObjects /\ o.cell = c /\ o.what = what /\ o.build = b
  BY DEF Obj, CellObjects

\* What is in the namespaces after a step of a cell.
LEMMA CellStepObjects ==
  ASSUME CellIInv, CellTypes', NEW c \in Cells, CellStep(c)
  PROVE  ObjectsAtHome'
<1>h. Home(c) \in Spaces
  BY Zenon, CellAssumption DEF Home
<1>o. ObjectsAtHome
  BY Zenon DEF CellIInv
<1>t. space \in [Spaces -> {"none", "active", "terminating"}] /\ objects \in [Spaces -> SUBSET CellObjects] /\ builds[c] \in Nat
  BY Zenon DEF CellIInv, CellTypes
<1>u. ASSUME UNCHANGED <<space, objects>>
      PROVE  ObjectsAtHome'
  BY Zenon, <1>o, <1>u DEF ObjectsAtHome, Home
<1>n. ASSUME NEW x \in {"none", "active", "terminating"}, space' = [space EXCEPT ![Home(c)] = x], UNCHANGED objects,
             space[Home(c)] = "none" \/ x # "none"
      PROVE  ObjectsAtHome'
  BY Zenon, <1>o, <1>n, <1>h, <1>t DEF ObjectsAtHome, Home
<1>a. ASSUME NEW what \in {"policy", "service", "executor", "fence"}, NEW b \in Nat, what = "executor" => b # 0,
             NEW at, NEW next, NEW failed, Apply(c, at, Obj(c, what, b), next, failed)
      PROVE  ObjectsAtHome'
  <2>1. CASE UNCHANGED objects
    BY Zenon, <1>a, <1>u, <2>1 DEF Apply
  <2>2. CASE space[Home(c)] = "active" /\ objects' = [objects EXCEPT ![Home(c)] = @ \cup {Obj(c, what, b)}]
    <3>1. space' = space
      BY Zenon, <1>a DEF Apply
    <3>2. Obj(c, what, b).cell = c /\ Obj(c, what, b).what = what /\ Obj(c, what, b).build = b
      BY ObjectIs
    <3> QED
      BY <1>a, <1>o, <1>h, <1>t, <2>2, <3>1, <3>2 DEF ObjectsAtHome, Home
  <2> QED
    BY Zenon, <1>a, <2>1, <2>2 DEF Apply, InSpace
<1>r. ASSUME NEW S, OutOfSpace(c, S), UNCHANGED space
      PROVE  ObjectsAtHome'
  BY Zenon, <1>o, <1>r, <1>h, <1>t DEF ObjectsAtHome, Home, OutOfSpace
<1>d. ASSUME DeleteNamespace(c)
      PROVE  ObjectsAtHome'
  BY Zenon, <1>o, <1>d, <1>h, <1>t DEF ObjectsAtHome, Home, DeleteNamespace
<1>p. step[c] = "pod" => builds[c] # 0
  BY Zenon DEF CellIInv, LeasesAreOfBuilds
<1>1. CASE EnsureLocked(c)
  BY Zenon, <1>1, <1>u DEF EnsureLocked
<1>2. CASE ApplyNamespace(c)
  BY Zenon, <1>2, <1>o, <1>h, <1>t, <1>u DEF ApplyNamespace, ObjectsAtHome, Home
<1>3. CASE ApplyCellPolicy(c)
  BY Zenon, <1>3, <1>a DEF ApplyCellPolicy
<1>4. CASE ApplyService(c)
  BY Zenon, <1>4, <1>a DEF ApplyService
<1>5. CASE ServiceReady(c)
  BY Zenon, <1>5, <1>u DEF ServiceReady
<1>6. CASE CreateNamespace(c)
  BY Zenon, <1>6, <1>o, <1>h, <1>t, <1>u DEF CreateNamespace, ObjectsAtHome, Home
<1>7. CASE CreateExecutor(c)
  <2>1. step[c] = "pod"
    BY Zenon, <1>7 DEF CreateExecutor, Apply
  <2> QED
    BY Zenon, <1>7, <2>1, <1>a, <1>p, <1>t DEF CreateExecutor
<1>8. CASE CreateFence(c)
  BY Zenon, <1>8, <1>a, <1>t DEF CreateFence
<1>9. CASE Register(c)
  BY Zenon, <1>9, <1>u DEF Register
<1>10. CASE DeleteSandbox(c)
  BY Zenon, <1>10, <1>u, <1>r DEF DeleteSandbox, Swallowed
<1>11. CASE Rollback(c)
  BY Zenon, <1>11, <1>u, <1>d DEF Rollback, Swallowed
<1>12. CASE DestroyCell(c)
  BY Zenon, <1>12, <1>u DEF DestroyCell, DestroyLocked
<1>13. CASE Reap(c)
  BY Zenon, <1>13, <1>u DEF Reap, DestroyLocked
<1>14. CASE DestroyExecutor(c)
  BY Zenon, <1>14, <1>u, <1>r DEF DestroyExecutor, Swallowed
<1>15. CASE DestroySpace(c)
  BY Zenon, <1>15, <1>u, <1>d DEF DestroySpace, Swallowed
<1> QED
  BY Zenon, <1>1, <1>2, <1>3, <1>4, <1>5, <1>6, <1>7, <1>8, <1>9, <1>10, <1>11, <1>12, <1>13, <1>14, <1>15 DEF CellStep

\* What is in a cell's own namespace after a step of the cell.
LEMMA CellStepSpace ==
  ASSUME CellIInv, CellTypes', NEW c \in Cells, CellStep(c)
  PROVE  SpaceInStep(c)'
<1> SUFFICES ASSUME Alone(c)
             PROVE  BuiltSoFar(c)' /\ (undeleted' # TRUE => ClearedSoFar(c)')
  BY Zenon DEF SpaceInStep, Alone, Home
<1> DEFINE n == Home(c)
<1>h. n \in Spaces /\ Home(c)' = n
  BY Zenon, CellAssumption DEF Home
<1>t. /\ space \in [Spaces -> {"none", "active", "terminating"}] /\ objects \in [Spaces -> SUBSET CellObjects]
      /\ builds \in [Cells -> Nat] /\ record \in [Cells -> CellRecords] /\ step \in [Cells -> CellSteps]
  BY Zenon DEF CellIInv, CellTypes
<1>i. StepInTurn(c) /\ BuiltSoFar(c) /\ (undeleted # TRUE => ClearedSoFar(c))
  BY Zenon DEF CellIInv, SpaceInStep
<1>o. /\ space[n] = "none" => objects[n] = {}
      /\ \A o \in objects[n] : o \in CellObjects /\ o.cell = c /\ (o.what = "executor" => o.build # 0)
  BY <1>h, <1>t DEF CellIInv, ObjectsAtHome, Alone, CellObjects
<1>1. CASE EnsureLocked(c)
  <2>1. /\ step[c] = "start" /\ UNCHANGED <<space, objects, builds, undeleted>>
        /\ \/ Registered(c) /\ record'[c].build = record[c].build /\ step'[c] = "start"
           \/ ~Registered(c) /\ record' = record /\ step'[c] = "namespace"
    <3>1. record[c] \in CellRecords /\ queue[c] # << >> /\ CellTypes
      BY Zenon, <1>1, <1>t DEF EnsureLocked, Holds, CellIInv
    <3>2. Lease(c, record[c]) => record'[c].build = record[c].build
      BY Zenon, <3>1, LeaseTypes
    <3> QED
      BY Zenon, <1>1, <1>t, <3>2 DEF EnsureLocked, Finish, Continue
  <2>2. BuiltSoFar(c)'
    BY Zenon, <1>h, <1>i, <1>o, <2>1, ObjectIs DEF BuiltSoFar, After, Registered, StepInTurn, Unregistered
  <2>3. ASSUME undeleted' # TRUE
        PROVE  ClearedSoFar(c)'
    BY <1>h, <1>i, <1>o, <1>t, <2>1, <2>3, ObjectIs DEF ClearedSoFar, Executing, Registered, StepInTurn, Unregistered
  <2> QED
    BY Zenon, <2>2, <2>3
<1>2. CASE ApplyNamespace(c)
  <2>1. /\ step[c] = "namespace" /\ UNCHANGED <<record, objects, builds, undeleted>>
        /\ \/ step'[c] = "policy" /\ space'[n] = (IF space[n] = "none" THEN "active" ELSE space[n])
           \/ step'[c] = "rollback" /\ space' = space
    BY Zenon, <1>2, <1>h, <1>t DEF ApplyNamespace, Continue
  <2>2. BuiltSoFar(c)'
    BY Zenon, <1>h, <1>i, <1>o, <2>1, ObjectIs DEF BuiltSoFar, After, Registered, StepInTurn, Unregistered
  <2>3. ASSUME undeleted' # TRUE
        PROVE  ClearedSoFar(c)'
    BY Zenon, <1>h, <1>i, <1>o, <1>t, <2>1, <2>3, ObjectIs DEF ClearedSoFar, Executing, Registered, StepInTurn, Unregistered
  <2> QED
    BY Zenon, <2>2, <2>3
<1>3. CASE ApplyCellPolicy(c)
  <2>1. /\ step[c] = "policy" /\ UNCHANGED <<record, builds, undeleted>> /\ space' = space
        /\ \/ space[n] = "active" /\ objects'[n] = objects[n] \cup {Obj(c, "policy", 0)} /\ step'[c] = "service"
           \/ objects' = objects /\ step'[c] = "rollback"
    BY Zenon, <1>3, <1>h, <1>t DEF ApplyCellPolicy, Apply, InSpace, Continue
  <2>2. BuiltSoFar(c)'
    BY Zenon, <1>h, <1>i, <1>o, <2>1, ObjectIs DEF BuiltSoFar, After, Registered, StepInTurn, Unregistered
  <2>3. ASSUME undeleted' # TRUE
        PROVE  ClearedSoFar(c)'
    BY <1>h, <1>i, <1>o, <1>t, <2>1, <2>3, ObjectIs DEF ClearedSoFar, Executing, Registered, StepInTurn, Unregistered
  <2> QED
    BY Zenon, <2>2, <2>3
<1>4. CASE ApplyService(c)
  <2>1. /\ step[c] = "service" /\ UNCHANGED <<record, builds, undeleted>> /\ space' = space
        /\ \/ space[n] = "active" /\ objects'[n] = objects[n] \cup {Obj(c, "service", 0)} /\ step'[c] = "ready"
           \/ objects' = objects /\ step'[c] = "rollback"
    BY Zenon, <1>4, <1>h, <1>t DEF ApplyService, Apply, InSpace, Continue
  <2>2. BuiltSoFar(c)'
    BY Zenon, <1>h, <1>i, <1>o, <2>1, ObjectIs DEF BuiltSoFar, After, Registered, StepInTurn, Unregistered
  <2>3. ASSUME undeleted' # TRUE
        PROVE  ClearedSoFar(c)'
    BY <1>h, <1>i, <1>o, <1>t, <2>1, <2>3, ObjectIs DEF ClearedSoFar, Executing, Registered, StepInTurn, Unregistered
  <2> QED
    BY Zenon, <2>2, <2>3
<1>5. CASE ServiceReady(c)
  <2>1. /\ step[c] = "ready" /\ UNCHANGED <<record, builds, undeleted>> /\ UNCHANGED <<space, objects>>
        /\ step'[c] \in {"namespace2", "rollback"}
    BY Zenon, <1>5, <1>h, <1>t DEF ServiceReady, Continue
  <2>2. BuiltSoFar(c)'
    BY Zenon, <1>h, <1>i, <1>o, <2>1, ObjectIs DEF BuiltSoFar, After, Registered, StepInTurn, Unregistered
  <2>3. ASSUME undeleted' # TRUE
        PROVE  ClearedSoFar(c)'
    BY Zenon, <1>h, <1>i, <1>o, <1>t, <2>1, <2>3, ObjectIs DEF ClearedSoFar, Executing, Registered, StepInTurn, Unregistered
  <2> QED
    BY Zenon, <2>2, <2>3
<1>6. CASE CreateNamespace(c)
  <2>1. /\ step[c] = "namespace2" /\ UNCHANGED <<record, objects, undeleted>>
        /\ \/ step'[c] = "pod" /\ space'[n] = (IF space[n] = "none" THEN "active" ELSE space[n])
           \/ step'[c] = "rollback" /\ space' = space
    BY Zenon, <1>6, <1>h, <1>t DEF CreateNamespace, Continue
  <2>2. BuiltSoFar(c)'
    BY Zenon, <1>h, <1>i, <1>o, <2>1, ObjectIs DEF BuiltSoFar, After, Registered, StepInTurn, Unregistered
  <2>3. ASSUME undeleted' # TRUE
        PROVE  ClearedSoFar(c)'
    BY Zenon, <1>h, <1>i, <1>o, <1>t, <2>1, <2>3, ObjectIs DEF ClearedSoFar, Executing, Registered, StepInTurn, Unregistered
  <2> QED
    BY Zenon, <2>2, <2>3
<1>7. CASE CreateExecutor(c)
  <2>1. /\ step[c] = "pod" /\ UNCHANGED <<record, builds, undeleted>> /\ space' = space
        /\ \/ space[n] = "active" /\ objects'[n] = objects[n] \cup {Obj(c, "executor", builds[c])} /\ step'[c] = "fence"
           \/ objects' = objects /\ step'[c] = "rollback"
    BY Zenon, <1>7, <1>h, <1>t DEF CreateExecutor, Apply, InSpace, Continue
  <2>2. BuiltSoFar(c)'
    BY Zenon, <1>h, <1>i, <1>o, <2>1, ObjectIs DEF BuiltSoFar, After, Registered, StepInTurn, Unregistered
  <2>3. ASSUME undeleted' # TRUE
        PROVE  ClearedSoFar(c)'
    BY <1>h, <1>i, <1>o, <1>t, <2>1, <2>3, ObjectIs DEF ClearedSoFar, Executing, Registered, StepInTurn, Unregistered
  <2> QED
    BY Zenon, <2>2, <2>3
<1>8. CASE CreateFence(c)
  <2>1. /\ step[c] = "fence" /\ UNCHANGED <<record, builds, undeleted>> /\ space' = space
        /\ \/ space[n] = "active" /\ objects'[n] = objects[n] \cup {Obj(c, "fence", builds[c])} /\ step'[c] = "registered"
           \/ objects' = objects /\ step'[c] = "delete"
    BY Zenon, <1>8, <1>h, <1>t DEF CreateFence, Apply, InSpace, Continue
  <2>2. BuiltSoFar(c)'
    BY Zenon, <1>h, <1>i, <1>o, <2>1, ObjectIs DEF BuiltSoFar, After, Registered, StepInTurn, Unregistered
  <2>3. ASSUME undeleted' # TRUE
        PROVE  ClearedSoFar(c)'
    BY <1>h, <1>i, <1>o, <1>t, <2>1, <2>3, ObjectIs DEF ClearedSoFar, Executing, Registered, StepInTurn, Unregistered
  <2> QED
    BY Zenon, <2>2, <2>3
<1>9. CASE Register(c)
  <2>1. /\ step[c] = "registered" /\ UNCHANGED <<space, objects, builds, undeleted>>
        /\ \/ record'[c].build = builds[c] /\ step'[c] = "start"
           \/ record' = record /\ step'[c] = "delete"
    <3> DEFINE rec == [build |-> builds[c], leases |-> 0, lastUsedAt |-> clock]
    <3>1. CellTypes /\ clock \in Nat /\ builds[c] \in Nat
      BY Zenon, <1>t DEF CellIInv, CellTypes
    <3>2. rec \in CellRecords /\ rec.build = builds[c]
      BY Zenon, <3>1 DEF CellRecords
    <3>3. queue[c] # << >>
      BY Zenon, <1>9, <1>i DEF Register, StepInTurn
    <3>4. CASE Lease(c, rec) /\ Finish(c)
      <4> HIDE DEF rec
      <4>1. record'[c].build = builds[c]
        BY Zenon, <3>1, <3>2, <3>3, <3>4, LeaseTypes
      <4> QED
        BY Zenon, <1>9, <1>t, <3>4, <4>1 DEF Register, Finish
    <3>5. CASE Continue(c, "delete") /\ UNCHANGED record
      BY Zenon, <1>9, <1>t, <3>5 DEF Register, Continue
    <3> QED
      BY Zenon, <1>9, <3>4, <3>5 DEF Register
  <2>b. builds[c] # 0
    BY Zenon, <1>i, <1>o, <2>1 DEF BuiltSoFar, After, Obj
  <2>2. BuiltSoFar(c)'
    BY Zenon, <1>h, <1>i, <1>o, <2>1, ObjectIs DEF BuiltSoFar, After, Registered, StepInTurn, Unregistered
  <2>3. ASSUME undeleted' # TRUE
        PROVE  ClearedSoFar(c)'
    BY Zenon, <1>h, <1>i, <1>o, <1>t, <2>1, <2>3, <2>b, ObjectIs DEF ClearedSoFar, Executing, Registered, StepInTurn, Unregistered
  <2> QED
    BY Zenon, <2>2, <2>3
<1>10. CASE DeleteSandbox(c)
  <2>1. /\ step[c] = "delete" /\ step'[c] = "rollback" /\ UNCHANGED <<record, space, builds>>
        /\ \/ undeleted' = undeleted /\ objects'[n] = objects[n] \ Sandbox(c, builds[c])
           \/ undeleted' = TRUE /\ objects' = objects
    BY Zenon, <1>10, <1>h, <1>t DEF DeleteSandbox, Swallowed, OutOfSpace, Continue
  <2>2. BuiltSoFar(c)'
    BY Zenon, <1>h, <1>i, <1>o, <2>1, ObjectIs DEF BuiltSoFar, After, Registered, StepInTurn, Unregistered
  <2>3. ASSUME undeleted' # TRUE
        PROVE  ClearedSoFar(c)'
    <3>1. ClearedSoFar(c) /\ objects'[n] = objects[n] \ Sandbox(c, builds[c]) /\ space'[n] = space[n] /\ step'[c] # "start"
      BY Zenon, <1>i, <2>1, <2>3
    <3>2. ASSUME space[n] = "active", NEW o \in objects[n], o.what = "executor"
          PROVE  o \in Sandbox(c, builds[c])
      <4>1. o.build = builds[c]
        BY Zenon, <2>1, <3>1, <3>2 DEF ClearedSoFar, Executing
      <4> QED
        BY <1>o, <3>2, <4>1, ObjectIs DEF Sandbox
    <3> QED
      BY Zenon, <1>h, <3>1, <3>2 DEF ClearedSoFar
  <2> QED
    BY Zenon, <2>2, <2>3
<1>11. CASE Rollback(c)
  <2>1. /\ step[c] = "rollback" /\ step'[c] = "start" /\ UNCHANGED <<record, objects, builds>>
        /\ \/ c \in SuppliedCells /\ space' = space /\ undeleted' = undeleted
           \/ undeleted' = undeleted /\ space'[n] # "active"
           \/ undeleted' = TRUE /\ space' = space
    BY Zenon, <1>11, <1>h, <1>t DEF Rollback, Swallowed, DeleteNamespace, Finish
  <2>2. BuiltSoFar(c)'
    BY Zenon, <1>h, <1>i, <1>o, <2>1, ObjectIs DEF BuiltSoFar, After, Registered, StepInTurn, Unregistered
  <2>3. ASSUME undeleted' # TRUE
        PROVE  ClearedSoFar(c)'
    BY Zenon, <1>h, <1>i, <1>o, <1>t, <2>1, <2>3, ObjectIs DEF ClearedSoFar, Executing, Registered, StepInTurn, Unregistered
  <2> QED
    BY Zenon, <2>2, <2>3
<1>12. CASE DestroyCell(c)
  <2>1. /\ step[c] = "start" /\ UNCHANGED <<space, objects, builds, undeleted>>
        /\ \/ Registered(c) /\ record'[c] = Unregistered /\ step'[c] = "unexec"
           \/ record' = record /\ step'[c] = "start"
    BY Zenon, <1>12, <1>h, <1>t DEF DestroyCell, DestroyLocked, Finish, Continue
  <2>2. BuiltSoFar(c)'
    BY Zenon, <1>h, <1>i, <1>o, <2>1, ObjectIs DEF BuiltSoFar, After, Registered, StepInTurn, Unregistered
  <2>3. ASSUME undeleted' # TRUE
        PROVE  ClearedSoFar(c)'
    BY <1>h, <1>i, <1>o, <1>t, <2>1, <2>3, ObjectIs DEF ClearedSoFar, Executing, Registered, StepInTurn, Unregistered
  <2> QED
    BY Zenon, <2>2, <2>3
<1>13. CASE Reap(c)
  <2>1. /\ step[c] = "start" /\ UNCHANGED <<space, objects, builds, undeleted>>
        /\ \/ Registered(c) /\ record'[c] = Unregistered /\ step'[c] = "unexec"
           \/ record' = record /\ step'[c] = "start"
    BY Zenon, <1>13, <1>h, <1>t DEF Reap, DestroyLocked, Finish, Continue
  <2>2. BuiltSoFar(c)'
    BY Zenon, <1>h, <1>i, <1>o, <2>1, ObjectIs DEF BuiltSoFar, After, Registered, StepInTurn, Unregistered
  <2>3. ASSUME undeleted' # TRUE
        PROVE  ClearedSoFar(c)'
    BY <1>h, <1>i, <1>o, <1>t, <2>1, <2>3, ObjectIs DEF ClearedSoFar, Executing, Registered, StepInTurn, Unregistered
  <2> QED
    BY Zenon, <2>2, <2>3
<1>14. CASE DestroyExecutor(c)
  <2>1. /\ step[c] = "unexec" /\ step'[c] = "unspace" /\ UNCHANGED <<record, space, builds>>
        /\ \/ undeleted' = undeleted /\ objects'[n] = objects[n] \ Sandbox(c, builds[c])
           \/ undeleted' = TRUE /\ objects' = objects
    BY Zenon, <1>14, <1>h, <1>t DEF DestroyExecutor, Swallowed, OutOfSpace, Continue
  <2>2. BuiltSoFar(c)'
    BY Zenon, <1>h, <1>i, <1>o, <2>1, ObjectIs DEF BuiltSoFar, After, Registered, StepInTurn, Unregistered
  <2>3. ASSUME undeleted' # TRUE
        PROVE  ClearedSoFar(c)'
    <3>1. ClearedSoFar(c) /\ objects'[n] = objects[n] \ Sandbox(c, builds[c]) /\ space'[n] = space[n] /\ step'[c] # "start"
      BY Zenon, <1>i, <2>1, <2>3
    <3>2. ASSUME space[n] = "active", NEW o \in objects[n], o.what = "executor"
          PROVE  o \in Sandbox(c, builds[c])
      <4>1. o.build = builds[c]
        BY Zenon, <2>1, <3>1, <3>2 DEF ClearedSoFar, Executing
      <4> QED
        BY <1>o, <3>2, <4>1, ObjectIs DEF Sandbox
    <3> QED
      BY Zenon, <1>h, <3>1, <3>2 DEF ClearedSoFar
  <2> QED
    BY Zenon, <2>2, <2>3
<1>15. CASE DestroySpace(c)
  <2>1. /\ step[c] = "unspace" /\ step'[c] = "start" /\ UNCHANGED <<record, objects, builds>>
        /\ \/ undeleted' = undeleted /\ space'[n] # "active"
           \/ undeleted' = TRUE /\ space' = space
    BY Zenon, <1>15, <1>h, <1>t DEF DestroySpace, Swallowed, DeleteNamespace, Finish
  <2>2. BuiltSoFar(c)'
    BY Zenon, <1>h, <1>i, <1>o, <2>1, ObjectIs DEF BuiltSoFar, After, Registered, StepInTurn, Unregistered
  <2>3. ASSUME undeleted' # TRUE
        PROVE  ClearedSoFar(c)'
    BY Zenon, <1>h, <1>i, <1>o, <1>t, <2>1, <2>3, ObjectIs DEF ClearedSoFar, Executing, Registered, StepInTurn, Unregistered
  <2> QED
    BY Zenon, <2>2, <2>3
<1> QED
  BY Zenon, <1>1, <1>2, <1>3, <1>4, <1>5, <1>6, <1>7, <1>8, <1>9, <1>10, <1>11, <1>12, <1>13, <1>14, <1>15 DEF CellStep

\* A step of a cell keeps the invariant.
LEMMA CellStepKeeps ==
  ASSUME CellIInv, NEW c \in Cells, CellStep(c)
  PROVE  CellIInv'
<1>1. CellTypes' /\ \A d \in Cells : d # c => Same(d)
  BY Zenon, CellStepTypes
<1>2. ObjectsAtHome'
  BY Zenon, <1>1, CellStepObjects
<1>3. ASSUME NEW d \in Cells
      PROVE  StepInTurn(d)' /\ CallsInOrder(d)' /\ LeasesAreOfBuilds(d)' /\ LeasesCounted(d)' /\ SpaceInStep(d)'
  <2>1. CASE d # c
    BY Zenon, <1>1, <2>1, OthersKept DEF CellIInv
  <2>2. CASE d = c
    BY Zenon, <1>1, <2>2, CellStepCounts, CellStepSpace
  <2> QED
    BY Zenon, <2>1, <2>2
<1> QED
  BY Zenon, <1>1, <1>2, <1>3 DEF CellIInv

\* A call that is queued behind the others.
LEMMA CallKeeps ==
  ASSUME CellIInv, NEW c \in Cells, NEW kind \in Kinds, WithCellLock(c, kind)
  PROVE  CellIInv'
<1> DEFINE op == [kind |-> kind, now |-> clock, no |-> ops + 1]
           q == queue[c]
<1>1. queue' = [queue EXCEPT ![c] = Append(q, op)] /\ ops' = ops + 1 /\ UNCHANGED <<record, step, space, objects, builds, held, clock, undeleted>>
  BY Zenon DEF WithCellLock
<1>2. q \in Seq(Operations) /\ op \in Operations /\ op.no = ops + 1 /\ ops \in Nat
  <2>1. q \in Seq(Operations) /\ ops \in Nat /\ clock \in Nat
    BY Zenon DEF CellIInv, CellTypes
  <2> QED
    BY <2>1 DEF Operations
<1> HIDE DEF op
<1>3. /\ Append(q, op) \in Seq(Operations)
      /\ \A i \in DOMAIN Append(q, op) :
            \/ i \in DOMAIN q /\ Append(q, op)[i] = q[i]
            \/ i = Len(q) + 1 /\ i \notin DOMAIN q /\ Append(q, op)[i] = op
  BY <1>2, Appended
<1>e. Append(q, op) # << >>
  BY <1>2, AppendProperties
<1>4. CellTypes'
  BY <1>1, <1>2, <1>3 DEF CellIInv, CellTypes
<1>5. ObjectsAtHome'
  BY Zenon, <1>1 DEF CellIInv, ObjectsAtHome, Home
<1>6. ASSUME NEW d \in Cells
      PROVE  StepInTurn(d)' /\ CallsInOrder(d)' /\ LeasesAreOfBuilds(d)' /\ LeasesCounted(d)' /\ SpaceInStep(d)'
  <2>1. StepInTurn(d) /\ CallsInOrder(d) /\ LeasesAreOfBuilds(d) /\ LeasesCounted(d) /\ SpaceInStep(d)
    BY Zenon DEF CellIInv
  <2>2. queue'[d] = IF d = c THEN Append(q, op) ELSE queue[d]
    BY Zenon, <1>1 DEF CellIInv, CellTypes
  <2>3. StepInTurn(d)'
    BY Zenon, <1>1, <1>e, <2>1, <2>2 DEF StepInTurn, Registered
  <2>4. CallsInOrder(d)'
    <3>1. /\ \A i \in DOMAIN queue[d] : queue[d][i].no \in Nat
          /\ \A l \in held : l.no \in Nat
      BY Zenon, QueueTyped DEF CellIInv, CellTypes, Leases
    <3>2. CASE d # c
      BY <1>1, <1>2, <2>1, <2>2, <3>1, <3>2 DEF CallsInOrder
    <3>3. CASE d = c
      <4>1. \A i \in DOMAIN queue'[c] : queue'[c][i].no <= ops + 1
        <5>1. ASSUME NEW i \in DOMAIN q
              PROVE  q[i].no <= ops + 1
          <6>1. q[i].no <= ops /\ q[i].no \in Nat
            BY Zenon, <2>1, <3>1, <3>3 DEF CallsInOrder
          <6> QED
            BY <1>2, <6>1
        <5>2. op.no <= ops + 1
          BY <1>2
        <5> QED
          BY Zenon, <1>3, <2>2, <3>3, <5>1, <5>2
      <4>2. \A i, j \in DOMAIN queue'[c] : i < j => queue'[c][i].no < queue'[c][j].no
        <5>1. DOMAIN q = 1 .. Len(q) /\ Len(q) \in Nat
          BY Zenon, <1>2, LenProperties
        <5>2. ASSUME NEW i \in DOMAIN Append(q, op), NEW j \in DOMAIN Append(q, op), i < j
              PROVE  Append(q, op)[i].no < Append(q, op)[j].no
          <6>1. \/ j \in DOMAIN q /\ Append(q, op)[j] = q[j]
                \/ j = Len(q) + 1 /\ Append(q, op)[j] = op
            BY Zenon, <1>3
          <6>2. i \in DOMAIN q /\ Append(q, op)[i] = q[i]
            BY <1>3, <5>1, <5>2, <6>1
          <6>3. q[i].no <= ops /\ q[i].no \in Nat
            BY Zenon, <2>1, <3>1, <3>3, <6>2 DEF CallsInOrder
          <6>4. CASE j \in DOMAIN q /\ Append(q, op)[j] = q[j]
            BY Zenon, <2>1, <3>3, <5>2, <6>2, <6>4 DEF CallsInOrder
          <6>5. CASE Append(q, op)[j] = op
            BY <1>2, <6>2, <6>3, <6>5
          <6> QED
            BY Zenon, <6>1, <6>4, <6>5
        <5> QED
          BY Zenon, <2>2, <3>3, <5>2
      <4>3. ASSUME NEW l \in held, l.cell = c
            PROVE  l.no <= ops + 1 /\ \A i \in DOMAIN queue'[c] : l.no < queue'[c][i].no
        <5>1. l.no <= ops /\ l.no \in Nat /\ \A i \in DOMAIN q : l.no < q[i].no
          BY Zenon, <2>1, <3>1, <3>3, <4>3 DEF CallsInOrder
        <5>2. l.no < op.no /\ l.no <= ops + 1
          BY <1>2, <5>1
        <5> QED
          BY Zenon, <1>3, <2>2, <3>3, <5>1, <5>2
      <4> QED
        BY Zenon, <1>1, <3>3, <4>1, <4>2, <4>3 DEF CallsInOrder
    <3> QED
      BY Zenon, <3>2, <3>3
  <2>5. LeasesAreOfBuilds(d)'
    BY Zenon, <1>1, <2>1 DEF LeasesAreOfBuilds
  <2>6. LeasesCounted(d)'
    BY Zenon, <1>1, <2>1 DEF LeasesCounted, LeasesOf
  <2>7. SpaceInStep(d)'
    BY Zenon, <1>1, <2>1 DEF SpaceInStep, Alone, Home, BuiltSoFar, ClearedSoFar, After, Executing, Registered, Obj
  <2> QED
    BY Zenon, <2>3, <2>4, <2>5, <2>6, <2>7
<1> QED
  BY Zenon, <1>4, <1>5, <1>6 DEF CellIInv

\* A lease that is released, at any time.
LEMMA ReleaseKeeps ==
  ASSUME CellIInv, NEW l \in held, ReleaseLease(l)
  PROVE  CellIInv'
<1>1. held' = held \ {l} /\ UNCHANGED <<queue, step, space, objects, builds, clock, ops, undeleted>>
  BY Zenon DEF ReleaseLease
<1>2. l \in Leases /\ l.cell \in Cells /\ l.build \in Nat
  BY Zenon DEF CellIInv, CellTypes, Leases
<1>3. ASSUME NEW d \in Cells
      PROVE  /\ record[d] \in CellRecords /\ IsFiniteSet(LeasesOf(d)) /\ Cardinality(LeasesOf(d)) \in Nat
             /\ record[d].leases = Cardinality(LeasesOf(d))
  <2>1. LeasesOf(d) \subseteq held
    BY Zenon DEF LeasesOf
  <2> QED
    BY Zenon, <2>1, FS_Subset, FS_CardinalityType DEF CellIInv, CellTypes, LeasesCounted
<1>4. ASSUME NEW d \in Cells
      PROVE  /\ record'[d] \in CellRecords /\ record'[d].build = record[d].build
             /\ l \notin LeasesOf(d) => record'[d] = record[d]
             /\ l \in LeasesOf(d) => record'[d].leases = record[d].leases - 1
             /\ record[d] = Unregistered => record'[d] = Unregistered
  <2>1. CASE l \in LeasesOf(d)
    <3>1. d = l.cell /\ record[d].build = l.build
      BY Zenon, <2>1 DEF LeasesOf
    <3>2. record[d].leases > 0
      <4>1. Cardinality(LeasesOf(d)) # 0
        BY Zenon, <1>3, <2>1, FS_EmptySet
      <4> QED
        BY <1>3, <4>1
    <3>3. l.build # 0
      BY Zenon, <1>2 DEF CellIInv, LeasesAreOfBuilds
    <3>4. record'[d] = [record[d] EXCEPT !.leases = record[d].leases - 1, !.lastUsedAt = clock]
      <4>1. record' = [record EXCEPT ![d].leases = IF @ > 0 THEN @ - 1 ELSE 0, ![d].lastUsedAt = clock]
        BY Zenon, <3>1 DEF ReleaseLease
      <4>2. record \in [Cells -> CellRecords]
        BY Zenon DEF CellIInv, CellTypes
      <4> QED
        BY Zenon, <3>2, <4>1, <4>2
    <3>5. clock \in Nat /\ record[d] \in CellRecords
      BY Zenon DEF CellIInv, CellTypes
    <3> QED
      <4>1. record[d].leases - 1 \in Nat
        BY <3>2, <3>5 DEF CellRecords
      <4>2. record'[d] \in CellRecords /\ record'[d].build = record[d].build /\ record'[d].leases = record[d].leases - 1
        BY Zenon, <3>4, <3>5, <4>1 DEF CellRecords
      <4>3. record[d] # Unregistered
        BY <3>1, <3>3 DEF Unregistered
      <4> QED
        BY Zenon, <2>1, <4>2, <4>3
  <2>2. CASE l \notin LeasesOf(d)
    <3>1. d # l.cell \/ record[d].build # l.build
      BY Zenon, <2>2 DEF LeasesOf
    <3>2. record'[d] = record[d]
      BY Zenon, <3>1 DEF ReleaseLease, CellIInv, CellTypes
    <3> QED
      BY Zenon, <1>3, <2>2, <3>2
  <2> QED
    BY Zenon, <2>1, <2>2
<1>5. CellTypes'
  <2>1. record' \in [Cells -> CellRecords]
    <3>1. record' = [d \in Cells |-> record'[d]]
      BY Zenon, <1>2 DEF ReleaseLease, CellIInv, CellTypes
    <3> QED
      BY Zenon, <1>4, <3>1
  <2>2. IsFiniteSet(held')
    BY Zenon, <1>1, FS_RemoveElement DEF CellIInv, CellTypes
  <2> QED
    BY Zenon, <1>1, <2>1, <2>2 DEF CellIInv, CellTypes
<1>6. ObjectsAtHome'
  BY Zenon, <1>1 DEF CellIInv, ObjectsAtHome, Home
<1>7. ASSUME NEW d \in Cells
      PROVE  StepInTurn(d)' /\ CallsInOrder(d)' /\ LeasesAreOfBuilds(d)' /\ LeasesCounted(d)' /\ SpaceInStep(d)'
  <2>1. StepInTurn(d) /\ CallsInOrder(d) /\ LeasesAreOfBuilds(d) /\ LeasesCounted(d) /\ SpaceInStep(d)
    BY Zenon DEF CellIInv
  <2>2. StepInTurn(d)'
    BY Zenon, <1>1, <1>4, <2>1 DEF StepInTurn, Registered
  <2>3. CallsInOrder(d)'
    BY Zenon, <1>1, <2>1 DEF CallsInOrder
  <2>4. LeasesAreOfBuilds(d)'
    BY Zenon, <1>1, <2>1 DEF LeasesAreOfBuilds
  <2>5. LeasesCounted(d)'
    <3>1. LeasesOf(d)' = LeasesOf(d) \ {l}
      BY Zenon, <1>1, <1>4 DEF LeasesOf
    <3>2. CASE l \in LeasesOf(d)
      <4>1. Cardinality(LeasesOf(d) \ {l}) = Cardinality(LeasesOf(d)) - 1
        BY Zenon, <1>3, <3>2, FS_RemoveElement
      <4> QED
        BY Zenon, <1>3, <1>4, <3>1, <3>2, <4>1 DEF LeasesCounted
    <3>3. CASE l \notin LeasesOf(d)
      <4>1. LeasesOf(d) \ {l} = LeasesOf(d)
        BY Zenon, <3>3
      <4> QED
        BY Zenon, <1>3, <1>4, <3>1, <3>3, <4>1 DEF LeasesCounted
    <3> QED
      BY Zenon, <3>2, <3>3
  <2>6. SpaceInStep(d)'
    BY Zenon, <1>1, <1>4, <2>1 DEF SpaceInStep, Alone, Home, BuiltSoFar, ClearedSoFar, After, Executing, Registered, Obj
  <2> QED
    BY Zenon, <2>2, <2>3, <2>4, <2>5, <2>6
<1> QED
  BY Zenon, <1>5, <1>6, <1>7 DEF CellIInv

\* A namespace that disappears with what is in it.
LEMMA TerminatedKeeps ==
  ASSUME CellIInv, NEW n \in Spaces, Terminated(n)
  PROVE  CellIInv'
<1>1. /\ space[n] = "terminating" /\ space' = [space EXCEPT ![n] = "none"] /\ objects' = [objects EXCEPT ![n] = {}]
      /\ UNCHANGED <<record, queue, step, builds, held, clock, ops, undeleted>>
  BY Zenon DEF Terminated
<1>2. CellTypes'
  BY Zenon, <1>1 DEF CellIInv, CellTypes
<1>3. ObjectsAtHome'
  BY Zenon, <1>1 DEF CellIInv, CellTypes, ObjectsAtHome, Home
<1>4. ASSUME NEW d \in Cells
      PROVE  StepInTurn(d)' /\ CallsInOrder(d)' /\ LeasesAreOfBuilds(d)' /\ LeasesCounted(d)' /\ SpaceInStep(d)'
  <2>1. StepInTurn(d) /\ CallsInOrder(d) /\ LeasesAreOfBuilds(d) /\ LeasesCounted(d) /\ SpaceInStep(d)
    BY Zenon DEF CellIInv
  <2>2. CASE Home(d) # n
    <3>1. Same(d)
      BY Zenon, <1>1, <2>2, CellAssumption DEF Same, CellIInv, CellTypes, Home
    <3> QED
      BY Zenon, <1>2, <2>1, <3>1, OthersKept DEF CellIInv
  <2>3. CASE Home(d) = n
    <3>1. space[Home(d)] = "terminating" /\ space'[Home(d)] = "none"
      BY Zenon, <1>1, <2>3 DEF CellIInv, CellTypes
    <3>2. StepInTurn(d)'
      BY Zenon, <1>1, <2>1 DEF StepInTurn, Registered
    <3>3. CallsInOrder(d)'
      BY Zenon, <1>1, <2>1 DEF CallsInOrder
    <3>4. LeasesAreOfBuilds(d)'
      BY Zenon, <1>1, <2>1 DEF LeasesAreOfBuilds
    <3>5. LeasesCounted(d)'
      BY Zenon, <1>1, <2>1 DEF LeasesCounted, LeasesOf
    <3>6. SpaceInStep(d)'
      <4> SUFFICES ASSUME Alone(d)
                   PROVE  BuiltSoFar(d)' /\ ClearedSoFar(d)'
        BY Zenon DEF SpaceInStep, Alone, Home
      <4>1. BuiltSoFar(d)'
        BY Zenon, <1>1, <2>1, <3>1 DEF SpaceInStep, BuiltSoFar, After, Registered
      <4>2. ClearedSoFar(d)'
        BY Zenon, <3>1 DEF ClearedSoFar, Home
      <4> QED
        BY Zenon, <4>1, <4>2
    <3> QED
      BY Zenon, <3>2, <3>3, <3>4, <3>5, <3>6
  <2> QED
    BY Zenon, <2>2, <2>3
<1> QED
  BY Zenon, <1>2, <1>3, <1>4 DEF CellIInv

\* The clock changes nothing of the cells.
LEMMA QuietKeeps ==
  ASSUME CellIInv, UNCHANGED <<record, queue, step, space, objects, builds, held, ops, undeleted>>, clock' \in Nat
  PROVE  CellIInv'
<1>1. CellTypes'
  BY Zenon DEF CellIInv, CellTypes
<1>2. ObjectsAtHome'
  BY Zenon DEF CellIInv, ObjectsAtHome, Home
<1>3. ASSUME NEW d \in Cells
      PROVE  StepInTurn(d)' /\ CallsInOrder(d)' /\ LeasesAreOfBuilds(d)' /\ LeasesCounted(d)' /\ SpaceInStep(d)'
  BY Zenon, <1>1, OthersKept DEF CellIInv, Same
<1> QED
  BY Zenon, <1>1, <1>2, <1>3 DEF CellIInv

\* The invariant of the cells holds at the start and in every step.
LEMMA CellInvariant == CellSpec => []CellIInv
<1>1. CellInit => CellIInv
  <2> SUFFICES ASSUME CellInit
               PROVE  CellIInv
    BY Zenon
  <2> USE DEF CellInit
  <2>1. CellTypes
    BY Zenon, EmptySeq, FS_EmptySet DEF CellTypes, Unregistered, CellRecords, CellSteps
  <2>2. ObjectsAtHome
    BY Zenon DEF ObjectsAtHome
  <2>3. ASSUME NEW d \in Cells
        PROVE  StepInTurn(d) /\ CallsInOrder(d) /\ LeasesAreOfBuilds(d) /\ LeasesCounted(d) /\ SpaceInStep(d)
    <3>1. LeasesOf(d) = {} /\ Cardinality({}) = 0
      BY Zenon, FS_EmptySet DEF LeasesOf
    <3>2. LeasesCounted(d)
      BY Zenon, <3>1 DEF LeasesCounted, Unregistered
    <3>3. StepInTurn(d) /\ LeasesAreOfBuilds(d) /\ CallsInOrder(d)
      BY DEF StepInTurn, LeasesAreOfBuilds, CallsInOrder
    <3>4. SpaceInStep(d)
      <4>1. Home(d) \in Spaces
        BY Zenon, CellAssumption DEF Home
      <4> QED
        BY Zenon, <4>1 DEF SpaceInStep, BuiltSoFar, ClearedSoFar, After, Registered, Unregistered
    <3> QED
      BY Zenon, <3>2, <3>3, <3>4
  <2> QED
    BY Zenon, <2>1, <2>2, <2>3 DEF CellIInv
<1>2. CellIInv /\ [CellNext]_cellVars => CellIInv'
  <2> SUFFICES ASSUME CellIInv, [CellNext]_cellVars
               PROVE  CellIInv'
    BY Zenon
  <2>1. ASSUME NEW c \in Cells, CellStep(c)
        PROVE  CellIInv'
    BY Zenon, <2>1, CellStepKeeps
  <2>2. ASSUME NEW c \in Cells, NEW kind \in Kinds, WithCellLock(c, kind)
        PROVE  CellIInv'
    BY Zenon, <2>2, CallKeeps
  <2>3. ASSUME NEW l \in held, ReleaseLease(l)
        PROVE  CellIInv'
    BY Zenon, <2>3, ReleaseKeeps
  <2>4. ASSUME NEW n \in Spaces, Terminated(n)
        PROVE  CellIInv'
    BY Zenon, <2>4, TerminatedKeeps
  <2>c. clock \in Nat
    BY Zenon DEF CellIInv, CellTypes
  <2>5. CASE Tick
    BY <2>c, <2>5, QuietKeeps DEF Tick
  <2>6. CASE UNCHANGED cellVars
    BY Zenon, <2>c, <2>6, QuietKeeps DEF cellVars
  <2> QED
    BY Zenon, <2>1, <2>2, <2>3, <2>4, <2>5, <2>6 DEF CellNext
<1> QED
  BY <1>1, <1>2, PTL DEF CellSpec

\* The records of the manager and what is in the cluster agree, for every number
\* of cells, calls and failed commands (#createCell, #destroyLocked).
THEOREM CellsAlwaysAccounted == CellSpec => []CellsAccounted
<1>1. CellIInv => CellsAccounted
  <2> SUFFICES ASSUME CellIInv
               PROVE  CellsAccounted
    BY Zenon
  <2>1. CellIsWhole
    <3> SUFFICES ASSUME NEW c \in Cells, Registered(c), Alone(c)
                 PROVE  /\ space[Home(c)] = "active"
                        /\ {Obj(c, "policy", 0), Obj(c, "service", 0)} \cup Sandbox(c, record[c].build) \subseteq objects[Home(c)]
      BY Zenon DEF CellIsWhole
    <3>1. BuiltSoFar(c) /\ record[c].build = builds[c]
      <4>1. StepInTurn(c) /\ SpaceInStep(c)
        BY Zenon DEF CellIInv
      <4> QED
        BY <4>1 DEF SpaceInStep, StepInTurn, Registered, Unregistered
    <3> QED
      BY Zenon, <3>1 DEF BuiltSoFar, After, Sandbox
  <2>2. ASSUME undeleted # TRUE
        PROVE  NothingLeftBehind
    <3>1. ASSUME NEW c \in Cells, queue[c] = << >>, Alone(c), space[Home(c)] = "active"
          PROVE  /\ \A o \in objects[Home(c)] : o.what = "executor" => o.build = record[c].build
                 /\ c \notin SuppliedCells => Registered(c)
      <4>1. step[c] = "start" /\ ClearedSoFar(c)
        BY Zenon, <2>2, <3>1 DEF CellIInv, SpaceInStep, StepInTurn
      <4> QED
        BY Zenon, <3>1, <4>1 DEF ClearedSoFar, Executing
    <3> QED
      BY Zenon, <3>1 DEF NothingLeftBehind
  <2>3. ASSUME undeleted = TRUE
        PROVE  NothingLeftBehind
    BY Zenon, <2>3 DEF NothingLeftBehind
  <2>5. NothingLeftBehind
    BY Zenon, <2>2, <2>3
  <2> QED
    BY Zenon, <2>1, <2>5 DEF CellsAccounted
<1> QED
  BY <1>1, CellInvariant, PTL

\* reap takes no cell down that an agent has leased and not released, for every
\* number of cells, leases and calls (lease, release and reap).
THEOREM LeasedCellStays == CellSpec => LeasedNotReaped
<1> DEFINE Kept == \A c \in Cells : Registered(c) /\ record'[c].build # record[c].build /\ Head(queue[c]).kind = "reap"
                      => ~\E l \in held : l.cell = c /\ l.build = record[c].build
<1>1. CellIInv /\ [CellNext]_cellVars => [Kept]_cellVars
  <2> SUFFICES ASSUME CellIInv, CellNext, NEW c \in Cells, Registered(c), record'[c].build # record[c].build,
                      Head(queue[c]).kind = "reap"
               PROVE  ~\E l \in held : l.cell = c /\ l.build = record[c].build
    BY Zenon DEF Kept
  <2>1. PICK d \in Cells : CellStep(d)
    <3>1. ASSUME NEW l \in held, ReleaseLease(l)
          PROVE  FALSE
      <4>1. record[c] \in CellRecords /\ record \in [Cells -> CellRecords]
        BY Zenon DEF CellIInv, CellTypes
      <4> QED
        BY <3>1, <4>1 DEF ReleaseLease, CellRecords
    <3> QED
      BY Zenon, <3>1 DEF CellNext, WithCellLock, Terminated, Tick
  <2>2. d = c
    BY Zenon, <2>1, CellStepTypes DEF Same
  <2>3. step[c] = "start"
    BY Zenon DEF CellIInv, StepInTurn
  <2>4. Reap(c) /\ Reapable(c)
    <3>1. ~EnsureLocked(c)
      BY Zenon DEF EnsureLocked, Holds
    <3>2. ~DestroyCell(c)
      BY Zenon DEF DestroyCell, Holds
    <3>3. Reap(c)
      BY Zenon, <2>1, <2>2, <2>3, <3>1, <3>2 DEF CellStep, ApplyNamespace, ApplyCellPolicy, ApplyService, Apply, ServiceReady,
            CreateNamespace, CreateExecutor, CreateFence, Register, DeleteSandbox, Rollback, DestroyExecutor, DestroySpace
    <3> QED
      BY Zenon, <3>3 DEF Reap
  <2>5. LeasesOf(c) = {}
    <3>1. record[c].leases = 0 /\ record[c].leases = Cardinality(LeasesOf(c))
      BY Zenon, <2>4 DEF Reapable, CellIInv, LeasesCounted
    <3>2. LeasesOf(c) \subseteq held /\ IsFiniteSet(held)
      BY Zenon DEF LeasesOf, CellIInv, CellTypes
    <3> QED
      BY Zenon, <3>1, <3>2, FS_Subset, FS_EmptySet
  <2> QED
    BY Zenon, <2>5 DEF LeasesOf
<1> QED
  BY <1>1, CellInvariant, PTL DEF CellSpec, LeasedNotReaped, Kept
===============================================================================
