---------------------------- MODULE ResourceProofs ----------------------------
(***************************************************************************)
(* Proofs about what is handed out and taken back: the sandboxes of the    *)
(* warm pool, for every number of callers and sandboxes, and the objects   *)
(* of the artifact store, for every number of writers beside the sweep.    *)
(***************************************************************************)
EXTENDS WarmPool, ArtifactStore, FiniteSetTheorems, SequenceTheorems,
        WellFoundedInduction, TLAPS

-----------------------------------------------------------------------------
(* Least numbers, queues and counts.                                          *)

\* A nonempty set of naturals has a least element, and Min finds it.
LEMMA MinIsLeast ==
  ASSUME NEW S \in SUBSET Nat, S # {}
  PROVE  Min(S) \in S /\ \A y \in S : Min(S) <= y
  <1> DEFINE R == {p \in Nat \X Nat : p[1] < p[2]}
  <1>1. PICK x \in S : \A y \in S : ~(<<y, x>> \in R)
    <2>1. IsWellFoundedOn(R, Nat)
      BY Zenon, NatLessThanWellFounded DEF OpToRel
    <2> HIDE DEF R
    <2> QED
      BY Zenon, <2>1, WFMin
  <1>2. ASSUME NEW y \in S
        PROVE  x <= y
    <2>1. x \in Nat /\ y \in Nat
      BY Zenon
    <2>2. y < x => <<y, x>> \in R
      BY Zenon, <2>1
    <2> HIDE DEF R
    <2> QED
      BY <1>1, <2>1, <2>2
  <1> QED
    BY Zenon, <1>2 DEF Min

\* Taking the first element off a queue, and putting one on.
LEMMA Taken ==
  ASSUME NEW S, NEW s \in Seq(S), s # <<>>
  PROVE  /\ Tail(s) \in Seq(S) /\ 1 \in DOMAIN s /\ Head(s) = s[1] /\ s[1] \in S
         /\ \A i \in DOMAIN Tail(s) : i \in Nat \ {0} /\ i + 1 \in DOMAIN s /\ Tail(s)[i] = s[i + 1]
  BY HeadTailProperties, LenProperties

LEMMA Appended ==
  ASSUME NEW S, NEW s \in Seq(S), NEW e \in S
  PROVE  /\ Append(s, e) \in Seq(S)
         /\ \A i \in DOMAIN Append(s, e) :
               \/ i \in DOMAIN s /\ Append(s, e)[i] = s[i]
               \/ i = Len(s) + 1 /\ i \notin DOMAIN s /\ Append(s, e)[i] = e
  BY AppendProperties, LenProperties

\* The creators and the born sandboxes can be counted.
LEMMA Counts ==
  /\ IsFiniteSet(Creators) /\ Cardinality(Creators) \in Nat
  /\ IsFiniteSet(Born) /\ Cardinality(Born) \in Nat
<1>1. IsFiniteSet(Tenants) /\ IsFiniteSet(Sandboxes)
  BY PoolAssumption, FS_Interval DEF Sandboxes
<1>2. Creators \subseteq Tenants /\ Born \subseteq Sandboxes
  BY Zenon DEF Creators, Born
<1> QED
  BY Zenon, <1>1, <1>2, FS_Subset, FS_CardinalityType

LEMMA CountsNext ==
  /\ IsFiniteSet(Creators') /\ Cardinality(Creators') \in Nat
<1>1. Creators' \subseteq Tenants
  BY Zenon DEF Creators
<1> QED
  BY Zenon, <1>1, PoolAssumption, FS_Subset, FS_CardinalityType

\* No sandbox is born, and no more are on their way.
LEMMA CountStays ==
  ASSUME BornInOrder, refills \in Nat, refills' \in Nat, Born' = Born,
         Cardinality(Creators') + refills' <= Cardinality(Creators) + refills
  PROVE  BornInOrder'
  BY Counts, CountsNext, PoolAssumption DEF BornInOrder, InFlight

\* One is born, and one less is on its way.
LEMMA CountBorn ==
  ASSUME BornInOrder, refills \in Nat, refills' \in Nat, SlotTypes,
         NEW st \in {"ready", "leased", "destroying"}, slotState' = [slotState EXCEPT ![NewSandbox] = st],
         Cardinality(Creators') + refills' + 1 <= Cardinality(Creators) + refills
  PROVE  BornInOrder'
<1> DEFINE n == Cardinality(Born)
<1>1. n \in Nat /\ Born = 1 .. n /\ n + 1 <= MaxSandboxes /\ NewSandbox = n + 1
  BY Counts, CountsNext, PoolAssumption DEF BornInOrder, InFlight, NewSandbox
<1>2. n + 1 \in Sandboxes
  BY <1>1, PoolAssumption DEF Sandboxes
<1>3. Born' = Born \cup {n + 1}
  BY Zenon, <1>1, <1>2 DEF Born, SlotTypes
<1>4. Born' = 1 .. n + 1
  BY <1>1, <1>3
<1>5. Cardinality(Born') = n + 1
  BY <1>1, <1>4, FS_Interval
<1>6. n + Cardinality(Creators) + refills <= MaxSandboxes
  BY Counts DEF BornInOrder, InFlight
<1>7. n + 1 + Cardinality(Creators') + refills' <= MaxSandboxes
  <2> HIDE DEF n
  <2> QED
    BY <1>1, <1>6, Counts, CountsNext, PoolAssumption
<1> HIDE DEF n
<1>8. Cardinality(Born') + InFlight' <= MaxSandboxes
  BY <1>1, <1>5, <1>7, CountsNext DEF InFlight
<1>9. Born' = 1 .. Cardinality(Born')
  BY Zenon, <1>4, <1>5
<1> QED
  BY Zenon, <1>8, <1>9 DEF BornInOrder

\* The next sandbox is one that is not yet born, when one is on its way.
LEMMA NextIsUnborn ==
  ASSUME BornInOrder, refills \in Nat, SlotTypes, Creators # {} \/ refills > 0
  PROVE  NewSandbox \in Sandboxes /\ slotState[NewSandbox] = "unborn"
<1>1. Cardinality(Creators) + refills > 0
  BY Counts, FS_EmptySet
<1>2. NewSandbox \in Sandboxes /\ NewSandbox \notin Born
  BY <1>1, Counts, PoolAssumption DEF BornInOrder, InFlight, NewSandbox, Sandboxes
<1> QED
  BY Zenon, <1>2 DEF Born

-----------------------------------------------------------------------------
(* Handing a sandbox over.                                                    *)

Hold(c) == leaseAt[c] \in {"holding", "resetting"}

\* A caller gets a clean sandbox that nobody keeps, but perhaps one who leaves.
LEMMA LeaseKeeps ==
  ASSUME SlotTypes, LeaseTypes, SlotsByState, HoldersHold,
         NEW p \in Sandboxes, NEW c \in Tenants, NEW done \in SUBSET Tenants,
         slotState[p] # "destroying",
         \A d \in Tenants \ (done \cup {c}) : Hold(d) => leasePod[d] # p,
         LeaseSlot(p, {}, c, done), poolClosed' = poolClosed
  PROVE  SlotTypes' /\ LeaseTypes' /\ SlotsByState' /\ HoldersHold'
<1> USE DEF LeaseSlot, SlotTypes, LeaseTypes, Sandboxes
<1>1. SlotTypes'
  <2>1. residue' = [residue EXCEPT ![p] = {c}]
    BY Zenon
  <2> QED
    BY <2>1
<1>2. LeaseTypes'
  BY PoolAssumption DEF NoSandbox
<1>3. SlotsByState'
  BY Zenon DEF SlotsByState
<1>4. ASSUME NEW d \in Tenants PROVE HoldersHold!(d)'
  BY Zenon DEF HoldersHold, Hold
<1> QED
  BY Zenon, <1>1, <1>2, <1>3, <1>4 DEF HoldersHold

\* A clean sandbox goes to the pool.
LEMMA ReadyKeeps ==
  ASSUME SlotTypes, LeaseTypes, SlotsByState, HoldersHold,
         NEW p \in Sandboxes, NEW done \in SUBSET Tenants,
         slotState[p] # "destroying",
         \A d \in Tenants \ done : Hold(d) => leasePod[d] # p,
         KeepReady(p, {}, done), poolClosed' = poolClosed
  PROVE  SlotTypes' /\ LeaseTypes' /\ SlotsByState' /\ HoldersHold'
<1> USE DEF KeepReady, Leave, SlotTypes, LeaseTypes, Sandboxes
<1>1. SlotTypes'
  BY Zenon
<1>2. LeaseTypes'
  BY PoolAssumption DEF NoSandbox
<1>3. SlotsByState'
  BY Zenon DEF SlotsByState
<1>4. ASSUME NEW d \in Tenants PROVE HoldersHold!(d)'
  BY Zenon DEF HoldersHold, Hold
<1> QED
  BY Zenon, <1>1, <1>2, <1>3, <1>4 DEF HoldersHold

\* Callers leave, and nothing else happens.
LEMMA LeaveKeeps ==
  ASSUME SlotTypes, LeaseTypes, SlotsByState, HoldersHold, NEW done \in SUBSET Tenants,
         Leave(done), UNCHANGED <<slots, slotState, destroyCalls, residue, poolClosed>>
  PROVE  SlotTypes' /\ LeaseTypes' /\ SlotsByState' /\ HoldersHold'
<1>1. SlotTypes' /\ SlotsByState'
  BY Zenon DEF SlotTypes, SlotsByState
<1>2. LeaseTypes'
  BY PoolAssumption DEF LeaseTypes, Leave, NoSandbox
<1>3. ASSUME NEW d \in Tenants PROVE HoldersHold!(d)'
  BY Zenon DEF HoldersHold, Leave, LeaseTypes
<1> QED
  BY Zenon, <1>1, <1>2, <1>3 DEF HoldersHold

\* Sandboxes of the pool are destroyed, with callers leaving.
LEMMA DestroyKeeps ==
  ASSUME SlotTypes, LeaseTypes, SlotsByState, HoldersHold, NEW done \in SUBSET Tenants, NEW ps \in SUBSET Sandboxes,
         ps \subseteq slots, DestroyAll(ps), Leave(done), residue' = residue,
         poolClosed' = poolClosed \/ poolClosed' = TRUE,
         poolClosed' = TRUE \/ \A d \in Tenants \ done : Hold(d) => leasePod[d] \notin ps
  PROVE  SlotTypes' /\ LeaseTypes' /\ SlotsByState' /\ HoldersHold'
<1>1. SlotTypes'
  BY DEF SlotTypes, DestroyAll
<1>2. LeaseTypes'
  BY PoolAssumption DEF LeaseTypes, Leave, NoSandbox
<1>3. SlotsByState'
  BY DEF SlotsByState, DestroyAll, SlotTypes
<1>4. ASSUME NEW d \in Tenants PROVE HoldersHold!(d)'
  <2>1. CASE d \in done
    BY Zenon, <2>1 DEF Leave, LeaseTypes
  <2>2. CASE d \notin done
    <3>1. leaseAt'[d] = leaseAt[d] /\ leasePod'[d] = leasePod[d]
      BY Zenon, <2>2 DEF Leave
    <3>2. ASSUME Hold(d), leasePod[d] \in ps PROVE poolClosed' /\ slotState'[leasePod[d]] = "destroying"
      BY <2>2, <3>2, Zenon DEF DestroyAll
    <3>3. ASSUME leasePod[d] \in Sandboxes, leasePod[d] \notin ps PROVE slotState'[leasePod[d]] = slotState[leasePod[d]]
      BY Zenon, <3>3 DEF DestroyAll
    <3>4. poolClosed => poolClosed'
      BY Zenon
    <3>5. CASE Hold(d)
      BY Zenon, <3>1, <3>2, <3>3, <3>4, <3>5 DEF HoldersHold, Hold
    <3>6. CASE ~Hold(d)
      BY Zenon, <3>1, <3>6 DEF HoldersHold, Hold
    <3> QED
      BY Zenon, <3>5, <3>6
  <2> QED
    BY Zenon, <2>1, <2>2
<1> QED
  BY Zenon, <1>1, <1>2, <1>3, <1>4 DEF HoldersHold

-----------------------------------------------------------------------------
(* The queue of waiters.                                                      *)

\* The queue is left alone, and so are those in it.
LEMMA QueueStays ==
  ASSUME waiters \in Seq(Tenants), QueueWaits, waiters' = waiters,
         \A d \in Tenants : leaseAt[d] = "waiting" => leaseAt'[d] = "waiting"
  PROVE  waiters' \in Seq(Tenants) /\ QueueWaits'
<1>1. \A i \in DOMAIN waiters : waiters[i] \in Tenants
  OBVIOUS
<1> QED
  BY Zenon, <1>1 DEF QueueWaits

\* Everybody is sent away.
LEMMA QueueEmptied ==
  ASSUME waiters' = <<>>
  PROVE  waiters' \in Seq(Tenants) /\ QueueWaits'
  BY DEF QueueWaits

\* The oldest waiter is served, with a sandbox that nobody keeps, or the sandbox
\* goes to the pool.
LEMMA OfferKeeps ==
  ASSUME SlotTypes, LeaseTypes, SlotsByState, HoldersHold, waiters \in Seq(Tenants), QueueWaits,
         NEW p \in Sandboxes, NEW done \in SUBSET Tenants,
         slotState[p] # "destroying",
         \A d \in done : leaseAt[d] # "waiting",
         \A d \in Tenants \ done : Hold(d) => leasePod[d] # p,
         Offer(p, {}, done), poolClosed' = poolClosed
  PROVE  /\ SlotTypes' /\ LeaseTypes' /\ SlotsByState' /\ HoldersHold'
         /\ waiters' \in Seq(Tenants) /\ QueueWaits'
         /\ Creators' = Creators \ done
         /\ \E st \in {"ready", "leased"} : slotState' = [slotState EXCEPT ![p] = st]
<1>1. CASE waiters = <<>>
  <2>1. KeepReady(p, {}, done)
    BY Zenon, <1>1 DEF Offer
  <2>2. waiters' = <<>>
    BY Zenon, <1>1, <2>1 DEF KeepReady
  <2>3. Creators' = Creators \ done
    BY Zenon, <2>1 DEF KeepReady, Leave, Creators
  <2>4. slotState' = [slotState EXCEPT ![p] = "ready"]
    BY Zenon, <2>1 DEF KeepReady
  <2> QED
    BY Zenon, <2>1, <2>2, <2>3, <2>4, ReadyKeeps, QueueEmptied
<1>2. CASE waiters # <<>>
  <2> DEFINE w == Head(waiters)
  <2>1. LeaseSlot(p, {}, w, done) /\ waiters' = Tail(waiters)
    BY Zenon, <1>2 DEF Offer
  <2>2. /\ waiters' \in Seq(Tenants) /\ 1 \in DOMAIN waiters /\ w = waiters[1] /\ w \in Tenants
        /\ \A i \in DOMAIN waiters' : i \in Nat \ {0} /\ i + 1 \in DOMAIN waiters /\ waiters'[i] = waiters[i + 1]
    BY <1>2, <2>1, Taken
  <2>3. leaseAt[w] = "waiting"
    BY Zenon, <2>2 DEF QueueWaits
  <2> HIDE DEF w
  <2>4. SlotTypes' /\ LeaseTypes' /\ SlotsByState' /\ HoldersHold'
    BY Zenon, <2>1, <2>2, LeaseKeeps
  <2>5. \A d \in Tenants : leaseAt[d] = "waiting" /\ d # w => leaseAt'[d] = "waiting"
    BY Zenon, <2>1 DEF LeaseSlot
  <2>6. QueueWaits'
    <3>1. ASSUME NEW i \in DOMAIN waiters' PROVE leaseAt'[waiters'[i]] = "waiting"
      <4>1. i \in Nat \ {0} /\ i + 1 \in DOMAIN waiters /\ waiters'[i] = waiters[i + 1] /\ waiters[i + 1] \in Tenants
        BY <2>2
      <4>2. waiters[i + 1] # w /\ leaseAt[waiters[i + 1]] = "waiting"
        BY <2>2, <4>1 DEF QueueWaits
      <4> QED
        BY Zenon, <2>5, <4>1, <4>2
    <3>2. ASSUME NEW i \in DOMAIN waiters', NEW j \in DOMAIN waiters', waiters'[i] = waiters'[j] PROVE i = j
      <4>1. i + 1 = j + 1
        BY <2>2, <3>2 DEF QueueWaits
      <4> QED
        BY <2>2, <4>1
    <3> QED
      BY Zenon, <3>1, <3>2 DEF QueueWaits
  <2>7. Creators' = Creators \ done
    BY Zenon, <2>1, <2>2, <2>3 DEF LeaseSlot, Creators
  <2>8. slotState' = [slotState EXCEPT ![p] = "leased"]
    BY Zenon, <2>1 DEF LeaseSlot
  <2> QED
    BY Zenon, <2>2, <2>4, <2>6, <2>7, <2>8
<1> QED
  BY Zenon, <1>1, <1>2

-----------------------------------------------------------------------------
(* The steps of the pool.                                                     *)

\* The pool starts with nothing born and nobody in it.
LEMMA PoolStarts == PoolInit => PoolIInv
<1> SUFFICES ASSUME PoolInit PROVE PoolIInv
  BY Zenon
<1> USE PoolAssumption DEF PoolInit
<1>1. PoolTypeOK
  BY DEF PoolTypeOK, SlotTypes, LeaseTypes, NoSandbox
<1>2. SlotsByState /\ HoldersHold /\ QueueWaits
  BY DEF SlotsByState, HoldersHold, QueueWaits
<1>3. Born = {} /\ Creators = {}
  BY Zenon DEF Born, Creators
<1>4. BornInOrder
  BY <1>3, FS_EmptySet DEF BornInOrder, InFlight
<1> QED
  BY Zenon, <1>1, <1>2, <1>4 DEF PoolIInv

\* Nobody else holds the sandbox that a caller holds, and nobody one that is ready.
LEMMA Apart ==
  ASSUME PoolIInv, NEW c \in Tenants, NEW p, Hold(c) /\ leasePod[c] = p
  PROVE  \A d \in Tenants \ {c} : Hold(d) => leasePod[d] # p
  BY Zenon DEF PoolIInv, HoldersHold, Hold

LEMMA ReadyIsFree ==
  ASSUME PoolIInv, NEW p \in Sandboxes, slotState[p] \in {"unborn", "ready"}
  PROVE  residue[p] = {} /\ \A d \in Tenants : Hold(d) => leasePod[d] # p
  BY Zenon DEF PoolIInv, HoldersHold, SlotsByState, Hold

\* Fewer creators are a smaller count.
LEMMA CreatorsFewer ==
  ASSUME Creators' \subseteq Creators
  PROVE  Cardinality(Creators') <= Cardinality(Creators)
  BY Zenon, Counts, FS_Subset

LEMMA CreatorLeaves ==
  ASSUME NEW c \in Creators, Creators' \subseteq Creators \ {c}
  PROVE  Cardinality(Creators') + 1 <= Cardinality(Creators)
<1>1. Cardinality(Creators \ {c}) = Cardinality(Creators) - 1
  BY Zenon, Counts, FS_RemoveElement
<1>2. Cardinality(Creators') <= Cardinality(Creators \ {c})
  BY Zenon, Counts, FS_Subset
<1> QED
  BY <1>1, <1>2, Counts, CountsNext

\* Steps that leave the sandboxes and what is done with them alone.
LEMMA PoolAsItWas ==
  ASSUME PoolIInv, UNCHANGED <<slots, slotState, destroyCalls, residue>>, poolClosed' = poolClosed,
         LeaseTypes', leasePod' = leasePod,
         \A d \in Tenants : /\ leaseAt'[d] = "created" => leaseAt[d] = "created"
                            /\ Hold(d)' => Hold(d)
  PROVE  SlotTypes' /\ SlotsByState' /\ HoldersHold' /\ Born' = Born
<1>1. SlotTypes' /\ SlotsByState'
  BY Zenon DEF PoolIInv, PoolTypeOK, SlotTypes, SlotsByState
<1>2. HoldersHold'
  BY Zenon DEF PoolIInv, HoldersHold, Hold
<1>3. Born' = Born
  BY Zenon DEF Born
<1> QED
  BY Zenon, <1>1, <1>2, <1>3

\* acquire, up to its first await.
LEMMA AcquireKeeps ==
  ASSUME PoolIInv, NEW c \in Tenants, UNCHANGED minReady, AcquireReady(c) \/ AcquireCreate(c) \/ AcquireWait(c)
  PROVE  PoolIInv'
<1> USE DEF PoolIInv, PoolTypeOK
<1>1. CASE AcquireReady(c)
  <2> DEFINE p == Min(Ready)
  <2>1. p \in Ready
    <3>1. Ready # {}
      BY Zenon, <1>1 DEF AcquireReady
    <3>2. Sandboxes \subseteq Nat
      BY PoolAssumption DEF Sandboxes
    <3>3. Ready \subseteq Nat
      BY Zenon, <3>2 DEF Ready, SlotTypes
    <3> QED
      BY Zenon, <3>1, <3>3, MinIsLeast
  <2>2. p \in Sandboxes /\ slotState[p] = "ready"
    BY Zenon, <2>1 DEF Ready, SlotTypes
  <2>3. residue[p] = {} /\ \A d \in Tenants : Hold(d) => leasePod[d] # p
    BY Zenon, <2>2, ReadyIsFree
  <2>4. LeaseSlot(p, residue[p], c, {}) /\ leaseAt[c] = "idle" /\ UNCHANGED <<waiters, creating, poolClosed, refills>>
    BY Zenon, <1>1 DEF AcquireReady
  <2> HIDE DEF p
  <2>5. SlotTypes' /\ LeaseTypes' /\ SlotsByState' /\ HoldersHold'
    BY Zenon, <2>2, <2>3, <2>4, LeaseKeeps
  <2>6. \A d \in Tenants : d # c => leaseAt'[d] = leaseAt[d]
    BY Zenon, <2>4 DEF LeaseSlot
  <2>7. waiters' \in Seq(Tenants) /\ QueueWaits'
    BY Zenon, <2>4, <2>6, QueueStays
  <2>8. Creators' \subseteq Creators
    BY Zenon, <2>4 DEF Creators, LeaseSlot
  <2>9. Born' = Born
    BY Zenon, <2>2, <2>4 DEF LeaseSlot, Born, SlotTypes
  <2>10. BornInOrder'
    BY <2>4, <2>8, <2>9, CreatorsFewer, CountStays, Counts, CountsNext
  <2> QED
    BY Zenon, <2>4, <2>5, <2>7, <2>10
<1>2. CASE AcquireCreate(c)
  <2>1. /\ leaseAt' = [leaseAt EXCEPT ![c] = "creating"] /\ leaseAt[c] = "idle" /\ creating' = creating + 1
        /\ UNCHANGED <<slots, slotState, destroyCalls, residue>> /\ UNCHANGED <<waiters, poolClosed, leasePod, refills>>
    BY Zenon, <1>2 DEF AcquireCreate, pool
  <2>2. LeaseTypes'
    BY Zenon, <2>1 DEF LeaseTypes
  <2>3. SlotTypes' /\ SlotsByState' /\ HoldersHold' /\ Born' = Born
    BY Zenon, <2>1, <2>2, PoolAsItWas DEF Hold, LeaseTypes
  <2>4. waiters' \in Seq(Tenants) /\ QueueWaits'
    BY Zenon, <2>1, QueueStays DEF LeaseTypes
  <2>5. Creators' = Creators \cup {c} /\ c \notin Creators
    BY Zenon, <2>1 DEF Creators, LeaseTypes
  <2>6. Cardinality(Creators') = Cardinality(Creators) + 1
    BY Zenon, <2>5, Counts, FS_AddElement
  <2>7. Cardinality(Born) + (Cardinality(Creators) + refills) < MaxSandboxes
    BY Zenon, <1>2 DEF AcquireCreate, CanCreate, InFlight
  <2>8. BornInOrder'
    BY <2>1, <2>3, <2>6, <2>7, Counts, PoolAssumption DEF BornInOrder, InFlight
  <2> QED
    BY <2>1, <2>2, <2>3, <2>4, <2>8
<1>3. CASE AcquireWait(c)
  <2>1. /\ leaseAt' = [leaseAt EXCEPT ![c] = "waiting"] /\ leaseAt[c] = "idle" /\ waiters' = Append(waiters, c)
        /\ UNCHANGED <<slots, slotState, destroyCalls, residue>> /\ UNCHANGED <<creating, poolClosed, leasePod, refills>>
    BY Zenon, <1>3 DEF AcquireWait, pool
  <2>2. LeaseTypes'
    BY Zenon, <2>1 DEF LeaseTypes
  <2>3. SlotTypes' /\ SlotsByState' /\ HoldersHold' /\ Born' = Born
    BY Zenon, <2>1, <2>2, PoolAsItWas DEF Hold, LeaseTypes
  <2>4. /\ waiters' \in Seq(Tenants)
        /\ \A i \in DOMAIN waiters' : \/ i \in DOMAIN waiters /\ waiters'[i] = waiters[i] /\ waiters[i] \in Tenants
                                      \/ i = Len(waiters) + 1 /\ waiters'[i] = c
    BY <2>1, Appended
  <2>5. \A i \in DOMAIN waiters : waiters[i] # c
    BY Zenon, <2>1 DEF QueueWaits
  <2>6. QueueWaits'
    <3>1. ASSUME NEW i \in DOMAIN waiters' PROVE leaseAt'[waiters'[i]] = "waiting"
      BY Zenon, <2>1, <2>4 DEF QueueWaits, LeaseTypes
    <3>2. ASSUME NEW i \in DOMAIN waiters', NEW j \in DOMAIN waiters', waiters'[i] = waiters'[j] PROVE i = j
      BY Zenon, <2>4, <2>5, <3>2 DEF QueueWaits
    <3> QED
      BY Zenon, <3>1, <3>2 DEF QueueWaits
  <2>7. Creators' \subseteq Creators
    BY Zenon, <2>1 DEF Creators, LeaseTypes
  <2>8. BornInOrder'
    BY <2>1, <2>3, <2>7, CreatorsFewer, CountStays, Counts, CountsNext
  <2> QED
    BY Zenon, <2>1, <2>2, <2>3, <2>4, <2>6, <2>8
<1> QED
  BY Zenon, <1>1, <1>2, <1>3

\* Callers fail together: whoever is done, and every waiter.
LEMMA RejectKeeps ==
  ASSUME PoolIInv, NEW done \in SUBSET Tenants, RejectWaiters(done),
         UNCHANGED <<slots, slotState, destroyCalls, residue>>, poolClosed' = poolClosed
  PROVE  /\ SlotTypes' /\ LeaseTypes' /\ SlotsByState' /\ HoldersHold'
         /\ waiters' \in Seq(Tenants) /\ QueueWaits'
         /\ Creators' \subseteq Creators \ done /\ Born' = Born
<1> DEFINE leaving == done \cup {d \in Tenants : leaseAt[d] = "waiting"}
<1>1. Leave(leaving) /\ waiters' = <<>> /\ leaving \in SUBSET Tenants
  BY Zenon DEF RejectWaiters
<1>2. Creators' \subseteq Creators \ done
  BY Zenon, <1>1 DEF Leave, Creators
<1> HIDE DEF leaving
<1>3. SlotTypes' /\ LeaseTypes' /\ SlotsByState' /\ HoldersHold'
  BY Zenon, <1>1, LeaveKeeps DEF PoolIInv, PoolTypeOK
<1>4. Born' = Born
  BY Zenon DEF Born
<1> QED
  BY Zenon, <1>1, <1>2, <1>3, <1>4, QueueEmptied

\* A sandbox is born in a closed pool, and destroyed at once.
LEMMA BornDestroyed ==
  ASSUME PoolIInv, Creators # {} \/ refills > 0,
         slotState' = [slotState EXCEPT ![NewSandbox] = "destroying"],
         destroyCalls' = [destroyCalls EXCEPT ![NewSandbox] = 1],
         UNCHANGED <<slots, residue>>, poolClosed' = poolClosed
  PROVE  SlotTypes' /\ SlotsByState' /\ (UNCHANGED <<leaseAt, leasePod>> => HoldersHold')
<1> DEFINE p == NewSandbox
<1> USE DEF PoolIInv, PoolTypeOK
<1>1. p \in Sandboxes /\ slotState[p] = "unborn"
  BY Zenon, NextIsUnborn
<1>2. \A d \in Tenants : Hold(d) => leasePod[d] # p
  BY Zenon, <1>1, ReadyIsFree
<1> HIDE DEF p
<1>3. slotState' = [slotState EXCEPT ![p] = "destroying"] /\ destroyCalls' = [destroyCalls EXCEPT ![p] = 1]
  BY Zenon DEF p
<1>4. SlotTypes'
  BY SMTT(20), <1>1, <1>3 DEF SlotTypes
<1>5. SlotsByState'
  BY Zenon, <1>1, <1>3 DEF SlotTypes, SlotsByState
<1>6. UNCHANGED <<leaseAt, leasePod>> => HoldersHold'
  BY <1>1, <1>2, <1>3 DEF SlotTypes, HoldersHold, Hold
<1> QED
  BY Zenon, <1>4, <1>5, <1>6

\* backend.create answers an acquire, or throws.
LEMMA CreatedKeeps ==
  ASSUME PoolIInv, NEW c \in Tenants, UNCHANGED minReady, Created(c) \/ PoolCreateFails(c)
  PROVE  PoolIInv'
<1> USE DEF PoolIInv, PoolTypeOK
<1>0. c \in Creators /\ leaseAt[c] = "creating" /\ creating' = creating - 1 /\ UNCHANGED <<poolClosed, refills>>
  BY Zenon DEF Created, PoolCreateFails, Creators
<1>1. CASE PoolCreateFails(c)
  <2>1. RejectWaiters({c}) /\ UNCHANGED <<slots, slotState, destroyCalls, residue>>
    BY Zenon, <1>1 DEF PoolCreateFails, pool
  <2>2. /\ SlotTypes' /\ LeaseTypes' /\ SlotsByState' /\ HoldersHold'
        /\ waiters' \in Seq(Tenants) /\ QueueWaits'
        /\ Creators' \subseteq Creators \ {c} /\ Born' = Born
    BY Zenon, <1>0, <2>1, RejectKeeps
  <2>3. BornInOrder'
    BY <1>0, <2>2, CreatorsFewer, CountStays, Counts, CountsNext
  <2> QED
    BY <1>0, <2>2, <2>3
<1>2. CASE Created(c) /\ poolClosed
  <2> DEFINE leaving == {c} \cup {d \in Tenants : leaseAt[d] = "waiting"}
  <2>1. /\ slotState' = [slotState EXCEPT ![NewSandbox] = "destroying"]
        /\ destroyCalls' = [destroyCalls EXCEPT ![NewSandbox] = 1]
        /\ UNCHANGED <<slots, residue>> /\ waiters' = <<>> /\ Leave(leaving)
    BY <1>2, Zenon DEF Created, RejectWaiters
  <2>2. SlotTypes' /\ SlotsByState'
    BY Zenon, <1>0, <2>1, BornDestroyed
  <2>3. LeaseTypes'
    BY <2>1, PoolAssumption DEF LeaseTypes, Leave, NoSandbox
  <2>4. HoldersHold'
    <3>1. NewSandbox \in Sandboxes /\ slotState[NewSandbox] = "unborn"
      BY Zenon, <1>0, NextIsUnborn
    <3>2. \A d \in Tenants : Hold(d) => leasePod[d] # NewSandbox
      BY Zenon, <3>1, ReadyIsFree
    <3>3. \A d \in Tenants : \/ leaseAt'[d] = "idle"
                             \/ leaseAt'[d] = leaseAt[d] /\ leasePod'[d] = leasePod[d]
      BY Zenon, <2>1 DEF Leave
    <3>4. \A q \in Sandboxes : q # NewSandbox => slotState'[q] = slotState[q]
      BY Zenon, <2>1 DEF SlotTypes
    <3> QED
      BY <1>0, <2>1, <3>2, <3>3, <3>4 DEF HoldersHold, Hold
  <2>5. Creators' \subseteq Creators \ {c}
    BY Zenon, <2>1 DEF Leave, Creators
  <2>6. BornInOrder'
    BY <1>0, <2>1, <2>5, CreatorLeaves, CountBorn, Counts, CountsNext
  <2> QED
    BY <1>0, <2>1, <2>2, <2>3, <2>4, <2>6, QueueEmptied
<1>3. CASE Created(c) /\ ~poolClosed
  <2> DEFINE p == NewSandbox
  <2>1. /\ slots' = slots \cup {p} /\ slotState' = [slotState EXCEPT ![p] = "ready"]
        /\ leaseAt' = [leaseAt EXCEPT ![c] = "created"] /\ leasePod' = [leasePod EXCEPT ![c] = p]
        /\ UNCHANGED <<destroyCalls, residue, waiters>>
    BY <1>3, Zenon DEF Created
  <2>2. p \in Sandboxes /\ slotState[p] = "unborn"
    BY Zenon, <1>0, NextIsUnborn
  <2>3. \A d \in Tenants : Hold(d) => leasePod[d] # p
    BY Zenon, <2>2, ReadyIsFree
  <2>4. Creators' \subseteq Creators \ {c}
    BY Zenon, <2>1 DEF Creators, LeaseTypes
  <2>5. BornInOrder'
    BY <1>0, <2>1, <2>4, CreatorLeaves, CountBorn, Counts, CountsNext
  <2> HIDE DEF p
  <2>6. SlotTypes'
    BY Zenon, <2>1, <2>2 DEF SlotTypes
  <2>7. LeaseTypes'
    BY <2>1, <2>2, PoolAssumption DEF LeaseTypes, Sandboxes
  <2>8. SlotsByState'
    BY Zenon, <2>1, <2>2 DEF SlotTypes, SlotsByState
  <2>9. HoldersHold'
    <3>1. ASSUME NEW d \in Tenants, d # c PROVE HoldersHold!(d)'
      BY ZenonT(30), <1>0, <2>1, <2>2, <2>3, <3>1 DEF HoldersHold, Hold, LeaseTypes, SlotTypes
    <3>2. HoldersHold!(c)'
      BY Zenon, <2>1, <2>2 DEF LeaseTypes
    <3> QED
      BY Zenon, <3>1, <3>2 DEF HoldersHold
  <2>10. waiters' \in Seq(Tenants) /\ QueueWaits'
    BY Zenon, <1>0, <2>1, QueueStays DEF LeaseTypes
  <2> QED
    BY <1>0, <2>5, <2>6, <2>7, <2>8, <2>9, <2>10
<1> QED
  BY Zenon, <1>1, <1>2, <1>3

\* acquire runs on with the slot it created.
LEMMA LeaseCreatedKeeps ==
  ASSUME PoolIInv, NEW c \in Tenants, UNCHANGED minReady, LeaseCreated(c)
  PROVE  PoolIInv'
<1> USE DEF PoolIInv, PoolTypeOK
<1> DEFINE p == leasePod[c]
<1>0. /\ leaseAt[c] = "created" /\ p \in Sandboxes /\ UNCHANGED <<waiters, creating, refills>> /\ poolClosed' = poolClosed
  BY Zenon DEF LeaseCreated, HoldersHold
<1>1. CASE slotState[p] = "ready" /\ LeaseSlot(p, residue[p], c, {})
  <2>1. residue[p] = {} /\ \A d \in Tenants : Hold(d) => leasePod[d] # p
    BY Zenon, <1>0, <1>1, ReadyIsFree
  <2> HIDE DEF p
  <2>2. SlotTypes' /\ LeaseTypes' /\ SlotsByState' /\ HoldersHold'
    BY Zenon, <1>0, <1>1, <2>1, LeaseKeeps
  <2>3. \A d \in Tenants : d # c => leaseAt'[d] = leaseAt[d]
    BY Zenon, <1>1 DEF LeaseSlot
  <2>4. waiters' \in Seq(Tenants) /\ QueueWaits'
    BY Zenon, <1>0, <2>3, QueueStays
  <2>5. Creators' \subseteq Creators
    BY Zenon, <1>1 DEF Creators, LeaseSlot
  <2>6. Born' = Born
    BY Zenon, <1>0, <1>1 DEF LeaseSlot, Born, SlotTypes
  <2>7. BornInOrder'
    BY <1>0, <2>5, <2>6, CreatorsFewer, CountStays, Counts, CountsNext
  <2> QED
    BY Zenon, <1>0, <2>2, <2>4, <2>7
<1>2. CASE Leave({c}) /\ UNCHANGED <<slots, slotState, destroyCalls, residue>>
  <2>1. SlotTypes' /\ LeaseTypes' /\ SlotsByState' /\ HoldersHold'
    BY Zenon, <1>0, <1>2, LeaveKeeps
  <2>2. waiters' \in Seq(Tenants) /\ QueueWaits'
    BY Zenon, <1>0, <1>2, QueueStays DEF Leave
  <2>3. Creators' \subseteq Creators /\ Born' = Born
    BY Zenon, <1>2 DEF Leave, Creators, Born
  <2>4. BornInOrder'
    BY <1>0, <2>3, CreatorsFewer, CountStays, Counts, CountsNext
  <2> QED
    BY Zenon, <1>0, <2>1, <2>2, <2>4
<1> QED
  BY Zenon, <1>1, <1>2 DEF LeaseCreated, pool

\* A holder's sandbox is destroyed, unless close has done so already.
LEMMA DestroySlotKeeps ==
  ASSUME PoolIInv, NEW c \in Tenants, Hold(c), DestroySlot(leasePod[c]), Leave({c}), residue' = residue,
         poolClosed' = poolClosed, waiters' = waiters
  PROVE  /\ SlotTypes' /\ LeaseTypes' /\ SlotsByState' /\ HoldersHold'
         /\ waiters' \in Seq(Tenants) /\ QueueWaits'
         /\ Creators' \subseteq Creators /\ Born' = Born
<1> USE DEF PoolIInv, PoolTypeOK
<1> DEFINE p == leasePod[c]
<1>1. p \in Sandboxes /\ slotState[p] \in {"leased", "destroying"}
  BY Zenon DEF HoldersHold, Hold
<1>2. \A d \in Tenants \ {c} : Hold(d) => leasePod[d] # p
  BY Zenon, Apart
<1>3. waiters' \in Seq(Tenants) /\ QueueWaits'
  BY Zenon, QueueStays DEF Leave, Hold
<1>4. Creators' \subseteq Creators
  BY Zenon DEF Leave, Creators
<1> HIDE DEF p
<1>5. CASE slotState[p] = "destroying"
  <2>1. UNCHANGED <<slots, slotState, destroyCalls>>
    BY Zenon, <1>1, <1>5 DEF DestroySlot, SlotsByState, pool, p
  <2>2. Born' = Born
    BY Zenon, <2>1 DEF Born
  <2> QED
    BY Zenon, <1>3, <1>4, <2>1, <2>2, LeaveKeeps
<1>6. CASE slotState[p] = "leased"
  <2>1. DestroyAll({p}) /\ {p} \subseteq slots
    BY Zenon, <1>1, <1>6 DEF DestroySlot, SlotsByState, p
  <2>2. Born' = Born
    BY Zenon, <1>6, <2>1 DEF Born, DestroyAll, SlotTypes
  <2>3. \A d \in Tenants \ {c} : Hold(d) => leasePod[d] \notin {p}
    BY Zenon, <1>2
  <2> QED
    BY Zenon, <1>1, <1>3, <1>4, <2>1, <2>2, <2>3, DestroyKeeps
<1> QED
  BY Zenon, <1>1, <1>5, <1>6

\* release, before and after the reset.
LEMMA ReleaseKeeps ==
  ASSUME PoolIInv, NEW c \in Tenants, UNCHANGED minReady,
         ReleaseDestroy(c) \/ ReleaseReset(c) \/ \E verified \in BOOLEAN : ResetDone(c, verified)
  PROVE  PoolIInv'
<1> USE DEF PoolIInv, PoolTypeOK
<1>1. ASSUME Hold(c), DestroySlot(leasePod[c]), Leave({c}), UNCHANGED <<waiters, creating, poolClosed, refills, residue>>
      PROVE  PoolIInv'
  <2>1. /\ SlotTypes' /\ LeaseTypes' /\ SlotsByState' /\ HoldersHold'
        /\ waiters' \in Seq(Tenants) /\ QueueWaits'
        /\ Creators' \subseteq Creators /\ Born' = Born
    BY Zenon, <1>1, DestroySlotKeeps
  <2>2. BornInOrder'
    BY <1>1, <2>1, CreatorsFewer, CountStays, Counts, CountsNext
  <2> QED
    BY Zenon, <1>1, <2>1, <2>2
<1>2. CASE ReleaseDestroy(c)
  BY Zenon, <1>1, <1>2 DEF ReleaseDestroy, Hold
<1>3. CASE ReleaseReset(c)
  <2>1. /\ leaseAt' = [leaseAt EXCEPT ![c] = "resetting"] /\ leaseAt[c] = "holding"
        /\ UNCHANGED <<slots, slotState, destroyCalls, residue>> /\ UNCHANGED <<waiters, creating, poolClosed, leasePod, refills>>
    BY Zenon, <1>3 DEF ReleaseReset, pool
  <2>2. LeaseTypes'
    BY Zenon, <2>1 DEF LeaseTypes
  <2>3. SlotTypes' /\ SlotsByState' /\ HoldersHold' /\ Born' = Born
    BY Zenon, <2>1, <2>2, PoolAsItWas DEF Hold, LeaseTypes
  <2>4. waiters' \in Seq(Tenants) /\ QueueWaits'
    BY Zenon, <2>1, QueueStays DEF LeaseTypes
  <2>5. Creators' \subseteq Creators
    BY Zenon, <2>1 DEF Creators, LeaseTypes
  <2>6. BornInOrder'
    BY <2>1, <2>3, <2>5, CreatorsFewer, CountStays, Counts, CountsNext
  <2> QED
    BY Zenon, <2>1, <2>2, <2>3, <2>4, <2>6
<1>4. ASSUME NEW verified \in BOOLEAN, ResetDone(c, verified) PROVE PoolIInv'
  <2> DEFINE p == leasePod[c]
  <2>0. leaseAt[c] = "resetting" /\ Hold(c) /\ UNCHANGED <<creating, poolClosed, refills>>
    BY Zenon, <1>4 DEF ResetDone, Hold
  <2>1. CASE ~poolClosed /\ Offer(p, {}, {c})
    <3>1. p \in Sandboxes /\ slotState[p] = "leased"
      BY Zenon, <2>0, <2>1 DEF HoldersHold, Hold
    <3>2. \A d \in Tenants \ {c} : Hold(d) => leasePod[d] # p
      BY Zenon, <2>0, Apart
    <3>3. \A d \in {c} : leaseAt[d] # "waiting"
      BY Zenon, <2>0
    <3> HIDE DEF p
    <3>4. /\ SlotTypes' /\ LeaseTypes' /\ SlotsByState' /\ HoldersHold'
          /\ waiters' \in Seq(Tenants) /\ QueueWaits'
          /\ Creators' = Creators \ {c}
          /\ \E st \in {"ready", "leased"} : slotState' = [slotState EXCEPT ![p] = st]
      BY <2>0, <2>1, <3>1, <3>2, <3>3, OfferKeeps
    <3>5. Born' = Born
      BY Zenon, <3>1, <3>4 DEF Born, SlotTypes
    <3>6. BornInOrder'
      BY <2>0, <3>4, <3>5, CreatorsFewer, CountStays, Counts, CountsNext
    <3> QED
      BY Zenon, <2>0, <3>4, <3>6
  <2>2. CASE DestroySlot(p) /\ Leave({c}) /\ UNCHANGED <<waiters, residue>>
    BY Zenon, <1>1, <2>0, <2>2
  <2> QED
    BY <1>4, <2>1, <2>2, Zenon DEF ResetDone
<1> QED
  BY Zenon, <1>2, <1>3, <1>4

\* maintain destroys only what is ready, and adds what it counted on.
LEMMA MaintainKeeps ==
  ASSUME PoolIInv, UNCHANGED minReady,
         (\E idle \in SUBSET Ready : PoolSweep(idle)) \/ PoolRefill \/ Refilled \/ RefillFails
  PROVE  PoolIInv'
<1> USE DEF PoolIInv, PoolTypeOK
<1>1. ASSUME NEW idle \in SUBSET Ready, PoolSweep(idle) PROVE PoolIInv'
  <2>1. PICK ps \in SUBSET Ready : DestroyAll(ps)
    BY Zenon, <1>1 DEF PoolSweep
  <2>2. UNCHANGED <<waiters, creating, poolClosed, leaseAt, leasePod, refills, residue>>
    BY Zenon, <1>1 DEF PoolSweep
  <2>3. ps \in SUBSET Sandboxes /\ ps \subseteq slots /\ \A q \in ps : slotState[q] = "ready"
    BY Zenon DEF Ready, SlotTypes
  <2>4. \A d \in Tenants : Hold(d) => leasePod[d] \notin ps
    BY Zenon, <2>3, ReadyIsFree
  <2>5. Leave({})
    BY Zenon, <2>2 DEF Leave, LeaseTypes
  <2>6. SlotTypes' /\ LeaseTypes' /\ SlotsByState' /\ HoldersHold'
    BY Zenon, <2>1, <2>2, <2>3, <2>4, <2>5, DestroyKeeps
  <2>7. Born' = Born
    BY Zenon, <2>1, <2>3 DEF Born, DestroyAll, SlotTypes
  <2>8. Creators' \subseteq Creators
    BY Zenon, <2>2 DEF Creators
  <2>9. BornInOrder'
    BY <2>2, <2>7, <2>8, CreatorsFewer, CountStays, Counts, CountsNext
  <2> QED
    BY Zenon, <2>2, <2>6, <2>9, QueueStays
<1>2. CASE PoolRefill
  <2>1. PICK need \in Nat : /\ poolClosed \/ Cardinality(Born) + InFlight + need <= MaxSandboxes
                           /\ IF poolClosed THEN UNCHANGED <<creating, refills>>
                              ELSE creating' = creating + need /\ refills' = refills + need
    <3> DEFINE x == minReady - Cardinality(Ready) - creating
    <3>1. Cardinality(Ready) \in Nat
      <4>1. IsFiniteSet(Sandboxes)
        BY FS_Interval, PoolAssumption DEF Sandboxes
      <4>2. Ready \subseteq Sandboxes
        BY Zenon DEF Ready, SlotTypes
      <4> QED
        BY Zenon, <4>1, <4>2, FS_Subset, FS_CardinalityType
    <3>2. x \in Int
      BY <3>1
    <3> HIDE DEF x
    <3>3. Max({0, x}) \in Nat
      <4>1. \E m \in {0, x} : \A y \in {0, x} : m >= y
        BY <3>2
      <4>2. Max({0, x}) \in {0, x} /\ \A y \in {0, x} : Max({0, x}) >= y
        BY Zenon, <4>1 DEF Max
      <4> QED
        BY <3>2, <4>2
    <3> QED
      BY Zenon, <1>2, <3>3 DEF PoolRefill, x
  <2>2. UNCHANGED <<slots, slotState, destroyCalls, residue>> /\ UNCHANGED <<waiters, poolClosed, leaseAt, leasePod>>
    BY Zenon, <1>2 DEF PoolRefill, pool
  <2>3. LeaseTypes' /\ Creators' = Creators
    BY Zenon, <2>2 DEF LeaseTypes, Creators
  <2>4. SlotTypes' /\ SlotsByState' /\ HoldersHold' /\ Born' = Born
    BY Zenon, <2>2, <2>3, PoolAsItWas DEF Hold
  <2>5. waiters' \in Seq(Tenants) /\ QueueWaits'
    BY Zenon, <2>2, QueueStays
  <2>6. CASE UNCHANGED <<creating, refills>>
    <3>1. BornInOrder'
      BY <2>3, <2>4, <2>6, CountStays, Counts
    <3> QED
      BY Zenon, <2>2, <2>3, <2>4, <2>5, <2>6, <3>1
  <2>7. CASE /\ Cardinality(Born) + InFlight + need <= MaxSandboxes
             /\ creating' = creating + need /\ refills' = refills + need
    <3>1. BornInOrder'
      BY <2>3, <2>4, <2>7, Counts, PoolAssumption DEF BornInOrder, InFlight
    <3> QED
      BY <2>2, <2>3, <2>4, <2>5, <2>7, <3>1
  <2> QED
    BY Zenon, <2>1, <2>6, <2>7
<1>3. CASE Refilled
  <2>0. refills > 0 /\ creating' = creating - 1 /\ refills' = refills - 1 /\ refills' \in Nat /\ UNCHANGED poolClosed
    BY <1>3 DEF Refilled
  <2>1. NewSandbox \in Sandboxes /\ slotState[NewSandbox] = "unborn"
    BY Zenon, <2>0, NextIsUnborn
  <2>2. \A d \in Tenants : Hold(d) => leasePod[d] # NewSandbox
    BY Zenon, <2>1, ReadyIsFree
  <2>3. CASE /\ slotState' = [slotState EXCEPT ![NewSandbox] = "destroying"]
             /\ destroyCalls' = [destroyCalls EXCEPT ![NewSandbox] = 1]
             /\ UNCHANGED <<slots, leaseAt, leasePod, waiters, residue>>
    <3>1. SlotTypes' /\ SlotsByState' /\ HoldersHold'
      BY Zenon, <2>0, <2>3, BornDestroyed
    <3>2. LeaseTypes' /\ Creators' = Creators
      BY Zenon, <2>3 DEF LeaseTypes, Creators
    <3>3. waiters' \in Seq(Tenants) /\ QueueWaits'
      BY Zenon, <2>3, QueueStays
    <3>4. BornInOrder'
      BY <2>0, <2>3, <3>2, CountBorn, Counts
    <3> QED
      BY <2>0, <3>1, <3>2, <3>3, <3>4
  <2>4. CASE Offer(NewSandbox, {}, {})
    <3>1. /\ SlotTypes' /\ LeaseTypes' /\ SlotsByState' /\ HoldersHold'
          /\ waiters' \in Seq(Tenants) /\ QueueWaits'
          /\ Creators' = Creators \ {}
          /\ \E st \in {"ready", "leased"} : slotState' = [slotState EXCEPT ![NewSandbox] = st]
      <4> DEFINE none == {d \in Tenants : FALSE}
      <4>1. none \in SUBSET Tenants /\ none = {} /\ (\A d \in none : leaseAt[d] # "waiting")
        BY Zenon
      <4>2. \A d \in Tenants \ none : Hold(d) => leasePod[d] # NewSandbox
        BY Zenon, <2>2
      <4>3. slotState[NewSandbox] # "destroying" /\ poolClosed' = poolClosed
        BY Zenon, <2>0, <2>1
      <4> HIDE DEF none
      <4>4. Offer(NewSandbox, {}, none)
        BY Zenon, <2>4, <4>1
      <4> QED
        BY Zenon, <2>1, <4>1, <4>2, <4>3, <4>4, OfferKeeps
    <3>2. Creators' = Creators
      BY Zenon, <3>1
    <3>3. BornInOrder'
      <4>1. PICK st \in {"ready", "leased"} : slotState' = [slotState EXCEPT ![NewSandbox] = st]
        BY Zenon, <3>1
      <4>2. Cardinality(Creators') + refills' + 1 <= Cardinality(Creators) + refills
        BY <2>0, <3>2, Counts
      <4> QED
        BY Zenon, <2>0, <4>1, <4>2, CountBorn
    <3> QED
      BY <2>0, <3>1, <3>3
  <2> QED
    BY Zenon, <1>3, <2>3, <2>4 DEF Refilled
<1>4. CASE RefillFails
  <2>0. /\ creating' = creating - 1 /\ refills' = refills - 1 /\ refills' \in Nat /\ poolClosed' = poolClosed
        /\ RejectWaiters({}) /\ UNCHANGED <<slots, slotState, destroyCalls, residue>>
    BY <1>4 DEF RefillFails, pool
  <2>1. /\ SlotTypes' /\ LeaseTypes' /\ SlotsByState' /\ HoldersHold'
        /\ waiters' \in Seq(Tenants) /\ QueueWaits'
        /\ Creators' \subseteq Creators \ {} /\ Born' = Born
    BY Zenon, <2>0, RejectKeeps
  <2>2. Creators' \subseteq Creators
    BY Zenon, <2>1
  <2>3. BornInOrder'
    BY <2>0, <2>1, <2>2, CreatorsFewer, CountStays, Counts, CountsNext
  <2> QED
    BY <2>0, <2>1, <2>3
<1> QED
  BY Zenon, <1>1, <1>2, <1>3, <1>4

\* close destroys every slot, the leased ones too.
LEMMA CloseKeeps == ASSUME PoolIInv, UNCHANGED minReady, ClosePool PROVE PoolIInv'
<1> USE DEF PoolIInv, PoolTypeOK
<1> DEFINE leaving == {} \cup {d \in Tenants : leaseAt[d] = "waiting"}
<1>1. /\ poolClosed' = TRUE /\ waiters' = <<>> /\ Leave(leaving) /\ DestroyAll(slots)
      /\ UNCHANGED <<creating, refills, residue>>
  BY Zenon DEF ClosePool, RejectWaiters
<1>2. Creators' \subseteq Creators
  BY Zenon, <1>1 DEF Leave, Creators
<1>3. leaving \in SUBSET Tenants
  BY Zenon
<1> HIDE DEF leaving
<1>4. SlotTypes' /\ LeaseTypes' /\ SlotsByState' /\ HoldersHold'
  BY Zenon, <1>1, <1>3, DestroyKeeps DEF SlotTypes
<1>5. Born' = Born
  BY Zenon, <1>1 DEF Born, DestroyAll, SlotTypes, SlotsByState
<1>6. BornInOrder'
  BY <1>1, <1>2, <1>5, CreatorsFewer, CountStays, Counts, CountsNext
<1> QED
  BY Zenon, <1>1, <1>4, <1>6, QueueEmptied

\* For any number of callers and sandboxes, and however acquire, release, maintain and
\* close interleave between their awaits: a sandbox is held by one caller, who finds on
\* it no work but their own, and every sandbox ever created is in the pool or has been
\* destroyed, once.
THEOREM SandboxHasOneKeeper == PoolSpec => []OneKeeper
<1>1. PoolIInv /\ [PoolNext]_poolVars => PoolIInv'
  <2> SUFFICES ASSUME PoolIInv, [PoolNext]_poolVars PROVE PoolIInv'
    BY Zenon
  <2>1. ASSUME UNCHANGED minReady, CallerSteps PROVE PoolIInv'
    BY Zenon, <2>1, AcquireKeeps, CreatedKeeps, LeaseCreatedKeeps, ReleaseKeeps DEF CallerSteps
  <2>2. CASE UNCHANGED poolVars
    <3>1. UNCHANGED <<slots, slotState, destroyCalls, residue>> /\ UNCHANGED <<leaseAt, leasePod, waiters, creating, poolClosed, refills, minReady>>
      BY Zenon, <2>2 DEF poolVars
    <3>2. LeaseTypes' /\ Creators' = Creators
      BY Zenon, <3>1 DEF PoolIInv, PoolTypeOK, LeaseTypes, Creators
    <3>3. SlotTypes' /\ SlotsByState' /\ HoldersHold' /\ Born' = Born
      BY Zenon, <3>1, <3>2, PoolAsItWas DEF Hold
    <3>4. waiters' \in Seq(Tenants) /\ QueueWaits'
      BY Zenon, <3>1, QueueStays DEF PoolIInv, PoolTypeOK
    <3>5. BornInOrder'
      BY <3>1, <3>2, <3>3, CountStays, Counts DEF PoolIInv, PoolTypeOK
    <3> QED
      BY Zenon, <3>1, <3>2, <3>3, <3>4, <3>5 DEF PoolIInv, PoolTypeOK
  <2> QED
    BY Zenon, <2>1, <2>2, MaintainKeeps, CloseKeeps DEF PoolNext, PoolStep
<1>2. PoolIInv => OneKeeper
  BY ZenonT(30) DEF PoolIInv, HoldersHold, SlotsByState, OneKeeper, NoResidue, TrackedOrDestroyed, Born, PoolTypeOK, SlotTypes
<1> QED
  BY PoolStarts, <1>1, <1>2, PTL DEF PoolSpec

-----------------------------------------------------------------------------
(* The artifact store.                                                        *)

\* Nothing is stored, recorded or swept at first.
LEMMA BlobStarts == BlobInit => BlobIInv
<1> SUFFICES ASSUME BlobInit PROVE BlobIInv
  BY Zenon
<1>1. (CHOOSE d \in Digests : TRUE) \in Digests
  BY Zenon, BlobAssumption
<1>2. BlobTypeOK
  BY Zenon, <1>1 DEF BlobInit, BlobTypeOK, NoPut, NoSweep
<1>3. PutIsSafe
  BY Zenon DEF BlobInit, PutIsSafe, Doing, NoPut
<1>4. SweepSpares /\ RecordedIsStored
  BY DEF BlobInit, SweepSpares, RecordedIsStored, NoSweep
<1> QED
  BY Zenon, <1>2, <1>3, <1>4 DEF BlobIInv

\* A writer moves from one file operation to the next.
LEMMA WriterGoes ==
  ASSUME BlobTypeOK, NEW w \in Writers, NEW place \in {"idle", "look", "rename", "meta", "commit"}, Goes(w, place)
  PROVE  /\ writer' \in [Writers -> [at : {"idle", "look", "rename", "meta", "commit"}, digest : Digests,
                                     from : SUBSET Digests, new : BOOLEAN]]
         /\ writer'[w].at = place /\ (place # "idle" => writer'[w].digest = writer[w].digest)
         /\ \A v \in Writers \ {w} : writer'[v] = writer[v]
<1>1. NoPut \in [at : {"idle", "look", "rename", "meta", "commit"}, digest : Digests, from : SUBSET Digests, new : BOOLEAN]
      /\ NoPut.at = "idle"
  BY Zenon, BlobAssumption DEF NoPut
<1>2. CASE place = "idle"
  BY Zenon, <1>1, <1>2 DEF Goes, BlobTypeOK
<1>3. CASE place # "idle"
  BY Zenon, <1>3 DEF Goes, BlobTypeOK
<1> QED
  BY Zenon, <1>2, <1>3

\* The steps of a writer.
LEMMA WriterKeeps ==
  ASSUME BlobIInv, NEW w \in Writers,
         \/ \E d \in Digests, from \in SUBSET Digests : Put(w, d, from)
         \/ PutLook(w) \/ PutRename(w) \/ PutMeta(w) \/ PutCommit(w) \/ PutStops(w)
  PROVE  BlobIInv'
<1> USE DEF BlobIInv
<1>1. ASSUME NEW d \in Digests, NEW from \in SUBSET Digests, Put(w, d, from) PROVE BlobIInv'
  <2>1. /\ writer' = [writer EXCEPT ![w] = [at |-> "look", digest |-> d, from |-> from, new |-> ~StatBlob(d)]]
        /\ UNCHANGED <<stored, sidecar, aged, index, used, sweep, reused>>
    BY Zenon, <1>1 DEF Put
  <2>2. (~StatBlob(d)) \in BOOLEAN
    BY Zenon
  <2>3. BlobTypeOK'
    BY Zenon, <2>1, <2>2 DEF BlobTypeOK
  <2>4. PutIsSafe'
    BY Zenon, <2>1 DEF PutIsSafe, Doing, Digest, BlobTypeOK
  <2> QED
    BY Zenon, <2>1, <2>3, <2>4 DEF SweepSpares, RecordedIsStored
<1>2. CASE PutLook(w)
  <2>1. UNCHANGED <<stored, aged, index, sweep>>
    BY Zenon, <1>2 DEF PutLook
  <2>2. CASE Goes(w, "meta") /\ reused' = reused \cup {Digest(w)}
    <3>1. BlobTypeOK'
      BY Zenon, <2>1, <2>2, WriterGoes DEF BlobTypeOK
    <3>2. PutIsSafe'
      BY Zenon, <2>1, <2>2, WriterGoes DEF PutIsSafe, Doing, Digest
    <3> QED
      BY Zenon, <2>1, <2>2, <3>1, <3>2 DEF SweepSpares, RecordedIsStored
  <2>3. CASE Goes(w, "rename") /\ UNCHANGED reused
    <3>1. BlobTypeOK'
      BY Zenon, <2>1, <2>3, WriterGoes DEF BlobTypeOK
    <3>2. PutIsSafe'
      BY Zenon, <2>1, <2>3, WriterGoes DEF PutIsSafe, Doing, Digest
    <3> QED
      BY Zenon, <2>1, <2>3, <3>1, <3>2 DEF SweepSpares, RecordedIsStored
  <2> QED
    BY Zenon, <1>2, <2>2, <2>3 DEF PutLook
<1>3. CASE PutRename(w)
  <2>1. /\ Goes(w, "meta") /\ stored' = stored \cup {Digest(w)} /\ aged' = aged \ {Digest(w)}
        /\ sweep' = [sweep EXCEPT !.cut = @ \ {Digest(w)}] /\ UNCHANGED <<index, reused>>
    BY Zenon, <1>3 DEF PutRename
  <2>2. sweep'.cut = sweep.cut \ {Digest(w)} /\ sweep' \in [at : {"idle", "next", "meta"}, cut : SUBSET Digests, now : Digests]
    BY Zenon, <2>1 DEF BlobTypeOK
  <2>3. BlobTypeOK'
    BY Zenon, <2>1, <2>2, WriterGoes DEF BlobTypeOK
  <2>4. PutIsSafe'
    BY <2>1, <2>2, WriterGoes DEF PutIsSafe, Doing, Digest
  <2> QED
    BY Zenon, <2>1, <2>2, <2>3, <2>4 DEF SweepSpares, RecordedIsStored
<1>4. CASE PutMeta(w)
  <2>1. Goes(w, "commit") /\ Doing(w, "meta") /\ UNCHANGED <<stored, aged, index, sweep, reused>>
    BY Zenon, <1>4 DEF PutMeta
  <2>2. BlobTypeOK'
    BY Zenon, <2>1, WriterGoes DEF BlobTypeOK
  <2>3. PutIsSafe'
    BY Zenon, <2>1, WriterGoes DEF PutIsSafe, Doing, Digest
  <2> QED
    BY Zenon, <2>1, <2>2, <2>3 DEF SweepSpares, RecordedIsStored
<1>5. CASE PutCommit(w)
  <2>1. /\ Goes(w, "idle") /\ Doing(w, "commit") /\ UNCHANGED <<stored, aged, sweep, reused>>
        /\ DOMAIN index' = DOMAIN index \cup {Digest(w)}
    BY Zenon, <1>5 DEF PutCommit, Record
  <2>2. BlobTypeOK'
    BY Zenon, <2>1, WriterGoes DEF BlobTypeOK
  <2>3. PutIsSafe'
    BY Zenon, <2>1, WriterGoes DEF PutIsSafe, Doing, Digest
  <2>4. Digest(w) \in reused \/ (Digest(w) \in stored /\ Digest(w) \notin sweep.cut)
    BY Zenon, <2>1 DEF PutIsSafe
  <2> QED
    BY Zenon, <2>1, <2>2, <2>3, <2>4 DEF SweepSpares, RecordedIsStored
<1>6. CASE PutStops(w)
  <2>1. Goes(w, "idle") /\ UNCHANGED <<stored, aged, index, sweep, reused>>
    BY Zenon, <1>6 DEF PutStops
  <2>2. BlobTypeOK'
    BY Zenon, <2>1, WriterGoes DEF BlobTypeOK
  <2>3. PutIsSafe'
    BY Zenon, <2>1, WriterGoes DEF PutIsSafe, Doing, Digest
  <2> QED
    BY Zenon, <2>1, <2>2, <2>3 DEF SweepSpares, RecordedIsStored
<1> QED
  BY Zenon, <1>1, <1>2, <1>3, <1>4, <1>5, <1>6

\* The steps of a sweep, and of time.
LEMMA SweepKeeps ==
  ASSUME BlobIInv, SweepStarts \/ SweepMeta \/ SweepEnds \/ \E d \in Digests : SweepObject(d) \/ Ages(d)
  PROVE  BlobIInv'
<1> USE DEF BlobIInv
<1>1. CASE SweepStarts
  <2>1. /\ UNCHANGED <<stored, aged, index, writer, reused>>
        /\ sweep' = [sweep EXCEPT !.at = "next", !.cut = (ListBlobs \cap aged) \ ReachableDigests]
    BY Zenon, <1>1 DEF SweepStarts
  <2>2. sweep'.cut \subseteq aged /\ sweep'.cut \cap DOMAIN index = {}
    BY Zenon, <2>1 DEF BlobTypeOK, ReachableDigests
  <2>3. BlobTypeOK'
    BY Zenon, <2>1 DEF BlobTypeOK, ListBlobs
  <2>4. PutIsSafe'
    BY Zenon, <2>1, <2>2 DEF PutIsSafe, Doing, Digest
  <2> QED
    BY Zenon, <2>1, <2>2, <2>3, <2>4 DEF SweepSpares, RecordedIsStored
<1>2. CASE SweepMeta
  <2>1. UNCHANGED <<stored, aged, index, writer, reused>> /\ sweep' = [sweep EXCEPT !.at = "next"]
    BY Zenon, <1>2 DEF SweepMeta
  <2>2. sweep'.cut = sweep.cut /\ BlobTypeOK'
    BY Zenon, <2>1 DEF BlobTypeOK
  <2> QED
    BY Zenon, <2>1, <2>2 DEF PutIsSafe, Doing, Digest, SweepSpares, RecordedIsStored
<1>3. CASE SweepEnds
  <2>1. UNCHANGED <<stored, aged, index, writer, reused>> /\ sweep' = NoSweep
    BY Zenon, <1>3 DEF SweepEnds
  <2>2. sweep'.cut = {} /\ BlobTypeOK'
    BY Zenon, <2>1, BlobAssumption DEF BlobTypeOK, NoSweep
  <2> QED
    BY Zenon, <2>1, <2>2 DEF PutIsSafe, Doing, Digest, SweepSpares, RecordedIsStored
<1>4. ASSUME NEW d \in Digests, SweepObject(d) PROVE BlobIInv'
  <2>1. /\ d \in sweep.cut /\ stored' = stored \ {d} /\ aged' = aged \ {d} /\ UNCHANGED <<index, writer, reused>>
        /\ sweep' = [at |-> "meta", cut |-> sweep.cut \ {d}, now |-> d]
    BY Zenon, <1>4 DEF SweepObject
  <2>2. sweep'.cut = sweep.cut \ {d} /\ BlobTypeOK'
    BY Zenon, <2>1 DEF BlobTypeOK
  <2>3. PutIsSafe'
    BY Zenon, <2>1, <2>2 DEF PutIsSafe, Doing, Digest
  <2> QED
    BY Zenon, <2>1, <2>2, <2>3 DEF SweepSpares, RecordedIsStored
<1>5. ASSUME NEW d \in Digests, Ages(d) PROVE BlobIInv'
  <2>1. /\ \A w \in Writers : Digest(w) = d => Doing(w, "idle")
        /\ aged' = aged \cup {d} /\ UNCHANGED <<stored, index, writer, sweep, reused>>
    BY Zenon, <1>5 DEF Ages
  <2>2. PutIsSafe'
    BY Zenon, <2>1 DEF PutIsSafe, Doing, Digest
  <2> QED
    BY Zenon, <2>1, <2>2 DEF BlobTypeOK, SweepSpares, RecordedIsStored
<1> QED
  BY Zenon, <1>1, <1>2, <1>3, <1>4, <1>5

\* For any number of writers, tenants and contents, and however their puts interleave
\* with a sweep: what the index records is on disk, unless a put relied on an object
\* that it found there and did not write (put of blob-store.ts, sweepUnreferencedBlobs
\* of retention.ts).
THEOREM SweepSparesTheRecorded == BlobSpec => []RecordedIsStored
<1>1. BlobIInv /\ [BlobNext]_blobVars => BlobIInv'
  <2> SUFFICES ASSUME BlobIInv, [BlobNext]_blobVars PROVE BlobIInv'
    BY Zenon
  <2>1. CASE UNCHANGED blobVars
    BY Zenon, <2>1 DEF blobVars, BlobIInv, BlobTypeOK, PutIsSafe, Doing, Digest, SweepSpares, RecordedIsStored
  <2> QED
    BY Zenon, <2>1, WriterKeeps, SweepKeeps DEF BlobNext
<1>2. BlobIInv => RecordedIsStored
  BY Zenon DEF BlobIInv
<1> QED
  BY BlobStarts, <1>1, <1>2, PTL DEF BlobSpec

=============================================================================
