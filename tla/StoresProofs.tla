---------------------------- MODULE StoresProofs ----------------------------
(***************************************************************************)
(* The stores for every set of appenders, consumers, senders, workers and  *)
(* writers, and every bound: each keeps its inductive invariant, and its   *)
(* safety property follows.                                                *)
(***************************************************************************)
EXTENDS EventLog, MailboxStore, CommandStore, WorldStore,
        FiniteSetTheorems, SequenceTheorems, WellFoundedInduction, TLAPS

-----------------------------------------------------------------------------
(* The least and the greatest of a set of numbers. *)

\* A non-empty set of naturals has a least one, and Min is it.
LEMMA MinIsLeast ==
  ASSUME NEW S \in SUBSET Nat, S # {}
  PROVE  Min(S) \in S /\ \A y \in S : Min(S) <= y
  <1> DEFINE R == {p \in Nat \X Nat : p[1] < p[2]}
  <1>1. PICK x \in S : \A y \in S : ~(<<y, x>> \in R)
    <2>1. IsWellFoundedOn(R, Nat)
      BY Zenon, NatLessThanWellFounded DEF OpToRel
    <2> HIDE DEF R
    <2> QED
      BY Zenon, <2>1, WFMin
  <1>2. ASSUME NEW y \in S
        PROVE  x <= y
    <2>1. x \in Nat /\ y \in Nat
      BY Zenon
    <2>2. y < x => <<y, x>> \in R
      BY Zenon, <2>1
    <2> HIDE DEF R
    <2> QED
      BY <1>1, <2>1, <2>2
  <1> QED
    BY Zenon, <1>2 DEF Min

\* A non-empty bounded set of naturals has a greatest one, and Max is it: the
\* least of its bounds is in it.
LEMMA MaxIsGreatest ==
  ASSUME NEW S \in SUBSET Nat, S # {}, NEW n \in Nat, \A y \in S : y <= n
  PROVE  Max(S) \in S /\ \A y \in S : y <= Max(S)
  <1> DEFINE U == {m \in Nat : \A y \in S : y <= m}
             u == Min(U)
  <1>1. u \in U /\ \A m \in U : u <= m
    <2>1. U \in SUBSET Nat /\ U # {}
      BY Zenon
    <2> HIDE DEF U
    <2> QED
      BY Zenon, <2>1, MinIsLeast
  <1> HIDE DEF u
  <1>2. u \in S
    <2> SUFFICES ASSUME u \notin S PROVE FALSE
      BY Zenon
    <2>1. \A y \in S : y <= u - 1
      BY <1>1
    <2>2. u - 1 \in U
      <3>1. PICK y \in S : TRUE
        BY Zenon
      <3>2. y \in Nat /\ y <= u - 1 /\ u \in Nat
        BY Zenon, <1>1, <2>1
      <3> QED
        BY <2>1, <3>2
    <2> QED
      BY <1>1, <2>2
  <1>3. \A y \in S : u >= y
    BY Zenon, <1>1
  <1> QED
    BY Zenon, <1>2, <1>3 DEF Max

\* The same of two numbers.
LEMMA MaxOfTwo ==
  ASSUME NEW a \in Int, NEW b \in Int
  PROVE  Max({a, b}) = IF a >= b THEN a ELSE b
  BY DEF Max

LEMMA MinOfTwo ==
  ASSUME NEW a \in Int, NEW b \in Int
  PROVE  Min({a, b}) = IF a <= b THEN a ELSE b
  BY DEF Min

-----------------------------------------------------------------------------
(* The canonical world. *)

\* Nothing is accepted at the start.
LEMMA WorldStarts == WorldInit => WorldIInv
  BY DEF WorldInit, WorldIInv, WorldTypeOK, Body, Change, Nothing, SeenIsOld, SwappedIsKept, Kinds

\* A read is as new as the record.
LEMMA GetBodyKeeps ==
  ASSUME WorldIInv, NEW w \in Writers, NEW k \in Kinds, GetBody(w, k)
  PROVE  WorldIInv'
  <1> USE DEF WorldIInv, WorldTypeOK, GetBody
  <1>1. WorldTypeOK'
    BY Zenon DEF Body
  <1>2. SeenIsOld'
    BY DEF SeenIsOld, Current, SwappedIsKept, Body
  <1>3. SwappedIsKept'
    BY Zenon DEF SwappedIsKept
  <1> QED
    BY Zenon, <1>1, <1>2, <1>3

\* A swap that is let in has read the stored record: it keeps what that has.
LEMMA SwapKeeps ==
  ASSUME WorldIInv, NEW w \in Writers, NEW k \in Kinds, CompareAndSwap(w, k)
  PROVE  WorldIInv'
  <1> USE DEF WorldIInv, WorldTypeOK
  <1>1. CASE Current(w, k)
    <2>1. /\ world' = [world EXCEPT ![k] = Revised(w, seen[w].revision + 1)]
          /\ Wrote(w, k) /\ blind' = blind
          /\ seen' = [seen EXCEPT ![w] = Nothing]
      BY Zenon, <1>1 DEF CompareAndSwap
    <2>2. Revised(w, seen[w].revision + 1) \in Body
      BY DEF Revised, Body, Change
    <2>3. WorldTypeOK'
      BY <2>1, <2>2 DEF Wrote, Nothing, Change
    <2>4. k \notin blind => accepted[k] \subseteq seen[w].has
      BY Zenon, <1>1 DEF SeenIsOld, CompareAndSwap
    <2>5. SwappedIsKept'
      BY Zenon, <2>1, <2>4 DEF SwappedIsKept, Wrote, Revised
    <2>6. SeenIsOld'
      BY <1>1, <2>1, <2>2 DEF SeenIsOld, Current, Wrote, Nothing, Revised, Body, Kinds
    <2> QED
      BY Zenon, <2>3, <2>5, <2>6
  <1>2. CASE ~Current(w, k)
    <2>1. /\ seen' = [seen EXCEPT ![w] = [kind |-> k, revision |-> world[k].revision, has |-> world[k].has]]
          /\ UNCHANGED <<world, made, accepted, blind>>
      BY Zenon, <1>2 DEF CompareAndSwap
    <2>2. WorldTypeOK'
      BY Zenon, <2>1 DEF Body
    <2>3. SwappedIsKept' /\ SeenIsOld'
      BY <2>1 DEF SwappedIsKept, SeenIsOld, Current, Body
    <2> QED
      BY Zenon, <2>2, <2>3
  <1> QED
    BY Zenon, <1>1, <1>2

\* A put that is let in is not older than the stored project, so it is as new.
LEMMA PutProjectKeeps ==
  ASSUME WorldIInv, NEW w \in Writers, PutProject(w)
  PROVE  WorldIInv'
  <1> DEFINE k == "project"
  <1> USE DEF WorldIInv, WorldTypeOK
  <1>0. k \in Kinds /\ seen[w].kind = k
    BY Zenon DEF Kinds, PutProject
  <1>1. CASE seen[w].revision + 1 > world[k].revision
    <2>1. /\ world' = [world EXCEPT ![k] = Revised(w, seen[w].revision + 1)]
          /\ Wrote(w, k) /\ blind' = blind
          /\ seen' = [seen EXCEPT ![w] = Nothing]
      BY <1>0, <1>1 DEF PutProject, Body
    <2>2. Revised(w, seen[w].revision + 1) \in Body
      BY DEF Revised, Body, Change
    <2>3. WorldTypeOK'
      BY <1>0, <2>1, <2>2 DEF Wrote, Nothing, Change
    <2>4. k \notin blind => Current(w, k)
      <3>1. world[k].revision \in Nat /\ seen[w].revision \in Nat
        BY Zenon, <1>0 DEF Body
      <3>2. k \notin blind => seen[w].revision <= world[k].revision
        BY Zenon, <1>0 DEF SeenIsOld
      <3>3. k \notin blind => world[k].revision = seen[w].revision
        BY <1>1, <3>1, <3>2
      <3> QED
        BY Zenon, <3>3 DEF Current
    <2>5. k \notin blind => accepted[k] \subseteq seen[w].has
      BY Zenon, <1>0, <2>4 DEF SeenIsOld
    <2>6. SwappedIsKept'
      BY Zenon, <1>0, <2>1, <2>5 DEF SwappedIsKept, Wrote, Revised
    <2>7. SeenIsOld'
      BY <1>0, <2>1, <2>2, <2>4 DEF SeenIsOld, Current, Wrote, Nothing, Revised, Body, Kinds
    <2> QED
      BY Zenon, <2>3, <2>6, <2>7
  <1>2. CASE seen[w].revision + 1 <= world[k].revision
    BY <1>0, <1>2 DEF PutProject, SeenIsOld, SwappedIsKept, Current, Nothing, Kinds, Body
  <1> QED
    BY <1>0, <1>1, <1>2 DEF Body

\* An upsert gives up what is claimed of its kind, and touches no other.
LEMMA UpsertKeeps ==
  ASSUME WorldIInv, NEW w \in Writers, NEW k \in Kinds, UpsertBody(w, k)
  PROVE  WorldIInv'
  <1> USE DEF WorldIInv, WorldTypeOK, UpsertBody
  <1>1. Revised(w, seen[w].revision) \in Body
    BY DEF Revised, Body, Change
  <1>2. WorldTypeOK'
    BY <1>1 DEF Wrote, Nothing, Change
  <1>3. SwappedIsKept'
    BY Zenon DEF SwappedIsKept, Wrote
  <1>4. SeenIsOld'
    BY Zenon, <1>1 DEF SeenIsOld, Current, Wrote, Nothing, Kinds
  <1> QED
    BY Zenon, <1>2, <1>3, <1>4

\* A change whose writer was told it is in stays in: for every set of writers and
\* every number of changes, over every interleaving of reads, swaps and puts.
THEOREM SwappedStaysIn == WorldSpec => []SwappedIsKept
  <1>1. WorldIInv /\ [WorldNext]_worldVars => WorldIInv'
    <2> SUFFICES ASSUME WorldIInv, [WorldNext]_worldVars PROVE WorldIInv'
      BY Zenon
    <2>1. CASE UNCHANGED worldVars
      BY Zenon, <2>1 DEF worldVars, WorldIInv, WorldTypeOK, SeenIsOld, SwappedIsKept, Current
    <2>2. CASE WorldNext
      BY Zenon, <2>2, GetBodyKeeps, SwapKeeps, PutProjectKeeps, UpsertKeeps DEF WorldNext
    <2> QED
      BY Zenon, <2>1, <2>2
  <1>2. WorldIInv => SwappedIsKept
    BY Zenon DEF WorldIInv
  <1> QED
    BY <1>1, <1>2, WorldStarts, PTL DEF WorldSpec

-----------------------------------------------------------------------------
(* The event log. *)

\* Nothing is drawn, processed or pruned at the start.
LEMMA EventStarts == EventInit => EventIInv
  BY DEF EventInit, EventIInv, EventNumbers, ProcessedInOrder, AckMeansHandled, PruningHandled,
         Registered, Unregistered

\* readEvents returns a first part of the rows after the cursor, whatever the limit.
LEMMA ReadIsAPrefix ==
  ASSUME EventNumbers, NEW after \in Int, NEW t \in readEvents(after), NEW s \in events,
         after < s, s <= t
  PROVE  s \in readEvents(after)
  <1> DEFINE S == RowsBetween(after, s)
             T == RowsBetween(after, t)
  <1>1. IsFiniteSet(T)
    <2>1. IsFiniteSet(1 .. newest)
      BY FS_Interval DEF EventNumbers
    <2>2. T \in SUBSET (1 .. newest)
      BY Zenon DEF EventNumbers, RowsBetween
    <2> QED
      BY Zenon, <2>1, <2>2, FS_Subset
  <1>2. S \in SUBSET T
    <2>1. t \in events /\ events \subseteq Int
      BY DEF EventNumbers, readEvents
    <2>2. ASSUME NEW r \in S PROVE r \in T
      <3>1. r \in events /\ after < r /\ r < s
        BY Zenon DEF RowsBetween
      <3>2. r < t
        BY <2>1, <3>1
      <3> QED
        BY Zenon, <3>1, <3>2 DEF RowsBetween
    <2> QED
      BY Zenon, <2>2
  <1>3. Cardinality(T) < ReadLimit
    BY Zenon DEF readEvents
  <1>4. /\ Cardinality(S) <= Cardinality(T)
        /\ Cardinality(S) \in Nat /\ Cardinality(T) \in Nat
    BY Zenon, <1>1, <1>2, FS_Subset, FS_CardinalityType
  <1> QED
    BY <1>3, <1>4, EventAssumption DEF readEvents

\* Drawing a number touches no row.
LEMMA BeginEventKeeps ==
  ASSUME EventIInv, NEW a \in Appenders, BeginEvent(a)
  PROVE  EventIInv'
  <1> USE DEF EventIInv, BeginEvent
  <1>1. EventNumbers'
    BY DEF EventNumbers
  <1>2. ProcessedInOrder' /\ AckMeansHandled' /\ PruningHandled'
    BY Zenon DEF ProcessedInOrder, AckMeansHandled, PruningHandled, Registered
  <1> QED
    BY Zenon, <1>1, <1>2

\* A row that commits is late, or above everything that was processed,
\* acknowledged or taken for a watermark.
LEMMA CommitEventKeeps ==
  ASSUME EventIInv, NEW a \in Appenders, CommitEvent(a)
  PROVE  EventIInv'
  <1> DEFINE q == inserting[a]
  <1> USE DEF EventIInv
  <1>1. q \in 1 .. eventSeq /\ q # newest /\ newest \in Nat
    BY DEF CommitEvent, EventNumbers
  <1>2. newest' = IF newest >= q THEN newest ELSE q
    BY <1>1, MaxOfTwo DEF CommitEvent
  <1>3. /\ newest' \in 0 .. eventSeq /\ newest <= newest' /\ q <= newest'
        /\ newest' \in {newest, q}
    BY <1>1, <1>2 DEF EventNumbers
  <1>4. /\ events' = events \cup {q} /\ inserting' = [inserting EXCEPT ![a] = 0]
        /\ UNCHANGED <<eventSeq, ackSeq, processed, pruning, pruningFor>>
    BY Zenon DEF CommitEvent
  <1>5. EventNumbers'
    <2>1. eventSeq' \in Nat /\ inserting' \in [Appenders -> 0 .. eventSeq']
      BY <1>4 DEF EventNumbers
    <2>2. \A x, y \in Appenders : inserting'[x] # 0 /\ inserting'[x] = inserting'[y] => x = y
      BY Zenon, <1>4 DEF EventNumbers
    <2>3. \A x \in Appenders : inserting'[x] # 0 => inserting'[x] # newest'
      BY Zenon, <1>1, <1>3, <1>4 DEF EventNumbers
    <2>4. 0 .. newest \subseteq 0 .. newest' /\ 1 .. newest \subseteq 1 .. newest'
          /\ -1 .. newest \subseteq -1 .. newest' /\ q \in 1 .. newest'
      BY <1>1, <1>3 DEF EventNumbers
    <2>5. events' \subseteq 1 .. newest' /\ pruning' \in 0 .. newest' /\ pruningFor' \subseteq EventConsumers
      BY Zenon, <1>4, <2>4 DEF EventNumbers
    <2>6. ackSeq' \in [EventConsumers -> -1 .. newest'] /\ processed' \in [EventConsumers -> SUBSET (1 .. newest')]
      BY Zenon, <1>4, <2>4 DEF EventNumbers
    <2> QED
      BY Zenon, <1>3, <1>4, <2>1, <2>2, <2>3, <2>5, <2>6 DEF EventNumbers
  <1>6. \A s \in (events \ late)' : s \in events \ late \/ (s = q /\ q > newest)
    BY <1>1, <1>4 DEF CommitEvent
  <1> HIDE DEF q
  <1>7. ProcessedInOrder'
    BY <1>1, <1>4, <1>6 DEF ProcessedInOrder, EventNumbers
  <1>8. AckMeansHandled'
    BY <1>1, <1>4, <1>6 DEF AckMeansHandled, EventNumbers, Registered
  <1>9. PruningHandled'
    BY <1>1, <1>4, <1>6 DEF PruningHandled, EventNumbers
  <1> QED
    BY Zenon, <1>5, <1>7, <1>8, <1>9

\* A rolled back INSERT leaves a gap.
LEMMA AbortEventKeeps ==
  ASSUME EventIInv, NEW a \in Appenders, AbortEvent(a)
  PROVE  EventIInv'
  <1> USE DEF EventIInv, AbortEvent
  <1>1. EventNumbers'
    BY DEF EventNumbers
  <1>2. ProcessedInOrder' /\ AckMeansHandled' /\ PruningHandled'
    BY Zenon DEF ProcessedInOrder, AckMeansHandled, PruningHandled, Registered
  <1> QED
    BY Zenon, <1>1, <1>2

\* A consumer reads on from its cursor, and has processed all up to it.
LEMMA HandleEventsKeeps ==
  ASSUME EventIInv, NEW c \in EventConsumers, HandleEvents(c)
  PROVE  EventIInv'
  <1> DEFINE after == IF ackSeq[c] = Unregistered THEN 0 ELSE ackSeq[c]
             read == readEvents(after)
  <1> USE DEF EventIInv
  <1>1. /\ processed' = [processed EXCEPT ![c] = @ \cup read]
        /\ UNCHANGED <<eventSeq, inserting, events, ackSeq, pruning, pruningFor, newest, late>>
    BY Zenon DEF HandleEvents
  <1>2. after \in Int /\ \A s \in events \ late : s <= after => s \in processed[c]
    BY DEF EventNumbers, AckMeansHandled, Registered, Unregistered
  <1> HIDE DEF after
  <1>3. \A t \in read, s \in events \ late : s <= t => s \in processed[c] \cup read
    <2> SUFFICES ASSUME NEW t \in read, NEW s \in events \ late, s <= t, ~(s <= after)
                 PROVE  s \in read
      BY Zenon, <1>2
    <2>1. after < s
      BY <1>2 DEF EventNumbers
    <2> QED
      BY Zenon, <1>2, <2>1, ReadIsAPrefix
  <1>4. read \subseteq 1 .. newest
    BY Zenon DEF readEvents, EventNumbers
  <1> HIDE DEF read
  <1>5. EventNumbers'
    BY Zenon, <1>1, <1>4 DEF EventNumbers
  <1>6. ProcessedInOrder'
    BY Zenon, <1>1, <1>3 DEF ProcessedInOrder, EventNumbers
  <1>7. AckMeansHandled' /\ PruningHandled'
    BY Zenon, <1>1 DEF AckMeansHandled, PruningHandled, Registered, EventNumbers
  <1> QED
    BY Zenon, <1>5, <1>6, <1>7

\* An acknowledgement is clamped to the rows there are, and reaches only what
\* was processed.
LEMMA AckEventKeeps ==
  ASSUME EventIInv, NEW c \in EventConsumers, NEW throughSeq \in 0 .. MaxEvents, ackEvent(c, throughSeq)
  PROVE  EventIInv'
  <1> DEFINE top == Max(events \cup {0})
             acked == EventAcked(c, throughSeq)
  <1> USE EventAssumption DEF EventIInv
  <1>1. top \in events \cup {0} /\ \A s \in events : s <= top
    <2>1. events \cup {0} \in SUBSET Nat /\ newest \in Nat /\ \A s \in events \cup {0} : s <= newest
      BY DEF EventNumbers
    <2> QED
      BY Zenon, <2>1, MaxIsGreatest
  <1> HIDE DEF top
  <1>2. top \in 0 .. newest
    BY <1>1 DEF EventNumbers
  <1>3. acked = IF ackSeq[c] >= (IF throughSeq <= top THEN throughSeq ELSE top)
                THEN ackSeq[c] ELSE IF throughSeq <= top THEN throughSeq ELSE top
    <2>1. acked = Max({ackSeq[c], Min({throughSeq, top})})
      BY Zenon DEF EventAcked, top
    <2>2. ackSeq[c] \in Int /\ top \in Int
      BY <1>2 DEF EventNumbers
    <2> QED
      BY <2>1, <2>2, MaxOfTwo, MinOfTwo
  <1>4. acked \in -1 .. newest /\ acked # Unregistered
    BY <1>2, <1>3 DEF EventNumbers, Unregistered
  <1>5. ASSUME NEW s \in events \ late, s <= acked
        PROVE  s \in processed[c]
    <2>1. CASE s <= ackSeq[c]
      BY <2>1 DEF AckMeansHandled, Registered, Unregistered, EventNumbers
    <2>2. CASE ~(s <= ackSeq[c])
      <3>1. s <= throughSeq
        BY <1>2, <1>3, <1>5, <2>2 DEF EventNumbers
      <3> QED
        BY <3>1 DEF ackEvent, MayAckEvent, ProcessedInOrder, EventNumbers
    <2> QED
      BY Zenon, <2>1, <2>2
  <1>6. /\ ackSeq' = [ackSeq EXCEPT ![c] = acked]
        /\ UNCHANGED <<eventSeq, inserting, events, processed, pruning, pruningFor, newest, late>>
    BY Zenon DEF ackEvent
  <1> HIDE DEF acked
  <1>7. EventNumbers'
    BY Zenon, <1>4, <1>6 DEF EventNumbers
  <1>8. AckMeansHandled'
    BY Zenon, <1>5, <1>6 DEF AckMeansHandled, Registered, EventNumbers
  <1>9. ProcessedInOrder' /\ PruningHandled'
    BY Zenon, <1>6 DEF ProcessedInOrder, PruningHandled
  <1> QED
    BY Zenon, <1>7, <1>8, <1>9

\* A consumer that is forgotten is behind nothing.
LEMMA ForgetConsumerKeeps ==
  ASSUME EventIInv, NEW c \in EventConsumers, forgetEventConsumer(c)
  PROVE  EventIInv'
  <1> USE DEF EventIInv, forgetEventConsumer
  <1>1. EventNumbers'
    BY DEF EventNumbers, Unregistered
  <1>2. ProcessedInOrder' /\ AckMeansHandled' /\ PruningHandled'
    BY Zenon DEF ProcessedInOrder, AckMeansHandled, PruningHandled, Registered, EventNumbers
  <1> QED
    BY Zenon, <1>1, <1>2

\* The watermark is at or below the cursor of every registered consumer.
LEMMA ReadWatermarkKeeps ==
  ASSUME EventIInv, ReadWatermark
  PROVE  EventIInv'
  <1> DEFINE cursors == {ackSeq[c] : c \in Registered}
  <1> USE DEF EventIInv
  <1>1. Registered # {} /\ pruning' = Min(cursors) /\ pruningFor' = Registered
        /\ UNCHANGED <<eventSeq, inserting, events, ackSeq, processed, newest, late>>
    BY DEF ReadWatermark, safeEventWatermark
  <1>2. cursors \in SUBSET (0 .. newest) /\ cursors # {}
    BY <1>1 DEF Registered, EventNumbers, Unregistered
  <1>3. Min(cursors) \in cursors /\ \A n \in cursors : Min(cursors) <= n
    <2> HIDE DEF cursors
    <2>1. cursors \in SUBSET Nat
      BY <1>2
    <2> QED
      BY Zenon, <1>2, <2>1, MinIsLeast
  <1>4. pruning' \in 0 .. newest /\ \A c \in Registered : pruning' <= ackSeq[c]
    BY Zenon, <1>1, <1>2, <1>3
  <1>5. EventNumbers'
    BY Zenon, <1>1, <1>4 DEF EventNumbers, Registered
  <1>6. PruningHandled'
    BY <1>1, <1>4 DEF PruningHandled, AckMeansHandled, EventNumbers, Registered
  <1>7. ProcessedInOrder' /\ AckMeansHandled'
    BY Zenon, <1>1 DEF ProcessedInOrder, AckMeansHandled, Registered
  <1> QED
    BY Zenon, <1>5, <1>6, <1>7

\* What is removed is at or below the watermark that was read.
LEMMA PruneEventsKeeps ==
  ASSUME EventIInv, pruneEvents
  PROVE  EventIInv' /\ PrunesHandled
  <1> USE DEF EventIInv, pruneEvents
  <1>1. EventNumbers'
    <2>1. events' \subseteq events
      BY Zenon
    <2>2. 0 \in 0 .. newest
      BY DEF EventNumbers
    <2>3. events' \subseteq 1 .. newest
      BY Zenon, <2>1 DEF EventNumbers
    <2> QED
      BY Zenon, <2>2, <2>3 DEF EventNumbers
  <1>2. ProcessedInOrder' /\ AckMeansHandled' /\ PruningHandled'
    BY Zenon DEF ProcessedInOrder, AckMeansHandled, PruningHandled, Registered
  <1>3. PrunesHandled
    BY DEF PrunesHandled, PruningHandled, EventNumbers
  <1> QED
    BY Zenon, <1>1, <1>2, <1>3

\* No consumer misses an event: for every set of appenders and consumers and every
\* read limit, no cursor passes an event its consumer has not processed, and no
\* prune removes one that a consumer it took into account has not processed.
THEOREM NoConsumerMissesAnEvent == EventSpec => LogLosesNothing
  <1>1. EventIInv /\ [EventNext]_eventVars => EventIInv' /\ [AckMeansHandled' /\ PrunesHandled]_eventVars
    <2> SUFFICES ASSUME EventIInv, [EventNext]_eventVars
                 PROVE  EventIInv' /\ [AckMeansHandled' /\ PrunesHandled]_eventVars
      BY Zenon
    <2>1. CASE UNCHANGED eventVars
      BY Zenon, <2>1 DEF eventVars, EventIInv, EventNumbers, ProcessedInOrder, AckMeansHandled, PruningHandled, Registered
    <2>2. CASE pruneEvents
      BY Zenon, <2>2, PruneEventsKeeps DEF EventIInv
    <2>3. CASE EventNext /\ ~pruneEvents
      <3>1. EventIInv'
        BY Zenon, <2>3, BeginEventKeeps, CommitEventKeeps, AbortEventKeeps, HandleEventsKeeps, AckEventKeeps,
           ForgetConsumerKeeps, ReadWatermarkKeeps DEF EventNext
      <3>2. events \subseteq events'
        BY Zenon, <2>3 DEF EventNext, BeginEvent, CommitEvent, AbortEvent, HandleEvents, ackEvent,
                    forgetEventConsumer, ReadWatermark
      <3> QED
        BY Zenon, <3>1, <3>2 DEF PrunesHandled, EventIInv
    <2> QED
      BY Zenon, <2>1, <2>2, <2>3
  <1> QED
    BY <1>1, EventStarts, PTL DEF EventSpec, LogLosesNothing

-----------------------------------------------------------------------------
(* The mailbox. *)

\* Nothing is sent, handled or acknowledged at the start.
LEMMA MailboxStarts == MailboxInit => MailboxIInv
  BY MailboxAssumption
  DEF MailboxInit, MailboxIInv, MailboxNumbers, HandledInOrder, MailboxIsALog, AppendIsIdempotent,
         AckSkipsNothing, NoCall, Seqs

\* The numbers in the table were drawn.
LEMMA SeqsAreNumbers ==
  ASSUME MailboxNumbers
  PROVE  /\ Seqs \subseteq 1 .. lastSeq
         /\ \A r \in rows : r.seq \in Seqs /\ r.seq \in 1 .. lastSeq /\ r.id \in Messages
  BY ZenonT(30) DEF MailboxNumbers, Seqs

\* Drawing a number touches no row.
LEMMA BeginAppendKeeps ==
  ASSUME MailboxIInv, NEW s \in Senders, NEW id \in Messages, BeginAppend(s, id)
  PROVE  MailboxIInv'
  <1> DEFINE Calls(n) == {NoCall} \cup [pc : {"insert", "select"}, id : Messages, seq : 1 .. n]
             new == [pc |-> "insert", id |-> id, seq |-> lastSeq + 1]
  <1> USE MailboxAssumption DEF MailboxIInv
  <1>1. /\ lastSeq' = lastSeq + 1 /\ lastSeq \in Nat
        /\ call' = [call EXCEPT ![s] = new]
        /\ UNCHANGED <<rows, replies, cursor, handled, overtaken>> /\ Seqs' = Seqs
    BY DEF BeginAppend, MailboxNumbers, Seqs
  <1>2. MailboxNumbers'
    <2>1. 1 .. lastSeq \subseteq 1 .. lastSeq' /\ lastSeq + 1 \in 1 .. lastSeq'
      BY <1>1
    <2>2. call' \in [Senders -> Calls(lastSeq')]
      <3>1. call \in [Senders -> Calls(lastSeq)]
        BY Zenon DEF MailboxNumbers
      <3>2. Calls(lastSeq) \subseteq Calls(lastSeq') /\ new \in Calls(lastSeq')
        BY Zenon, <2>1
      <3> HIDE DEF Calls, new
      <3> QED
        BY Zenon, <1>1, <3>1, <3>2
    <2>3. /\ rows' \subseteq [seq : 1 .. lastSeq', id : Messages]
          /\ replies' \subseteq [seq : 1 .. lastSeq', id : Messages, inserted : BOOLEAN]
      BY Zenon, <1>1, <2>1 DEF MailboxNumbers
    <2>4. \A u \in Senders : call'[u].pc = "insert" => call'[u].seq \notin Seqs'
      BY <1>1, SeqsAreNumbers DEF MailboxNumbers
    <2>5. \A u \in Senders : call[u] # NoCall => call[u].seq # lastSeq + 1
      BY <1>1 DEF MailboxNumbers
    <2>6. \A u, t \in Senders : call'[u] # NoCall /\ call'[t] # NoCall /\ call'[u].seq = call'[t].seq => u = t
      BY <1>1, <2>5 DEF MailboxNumbers, BeginAppend
    <2>7. lastSeq' \in 0 .. MaxSeq
      BY <1>1 DEF BeginAppend
    <2> QED
      BY Zenon, <1>1, <2>2, <2>3, <2>4, <2>6, <2>7 DEF MailboxNumbers
  <1>3. HandledInOrder' /\ MailboxIsALog'
    BY Zenon, <1>1 DEF HandledInOrder, MailboxIsALog, AppendIsIdempotent, AckSkipsNothing
  <1> QED
    BY Zenon, <1>2, <1>3

\* A call that ends without touching the table.
LEMMA CallEndsKeeps ==
  ASSUME MailboxIInv, NEW s \in Senders, call' = [call EXCEPT ![s] = NoCall],
         UNCHANGED <<lastSeq, rows, cursor, handled, overtaken>>,
         replies' \subseteq [seq : 1 .. lastSeq, id : Messages, inserted : BOOLEAN],
         \A p \in replies' : [seq |-> p.seq, id |-> p.id] \in rows
  PROVE  MailboxIInv'
  <1> USE DEF MailboxIInv
  <1>1. Seqs' = Seqs
    BY Zenon DEF Seqs
  <1>2. MailboxNumbers'
    BY Zenon, <1>1 DEF MailboxNumbers, NoCall
  <1>3. \A p, q \in replies' : p.id = q.id => p.seq = q.seq
    <2> SUFFICES ASSUME NEW p \in replies', NEW q \in replies', p.id = q.id PROVE p.seq = q.seq
      BY Zenon
    <2>1. [seq |-> p.seq, id |-> p.id] = [seq |-> q.seq, id |-> q.id]
      BY Zenon DEF MailboxIsALog, AppendIsIdempotent
    <2> QED
      BY Zenon, <2>1
  <1>4. MailboxIsALog' /\ HandledInOrder'
    BY Zenon, <1>1, <1>3 DEF MailboxIsALog, AppendIsIdempotent, AckSkipsNothing, HandledInOrder
  <1> QED
    BY Zenon, <1>2, <1>4

\* An INSERT that commits adds the one row of its id, below no row or overtaken;
\* its sender is told, or the connection is lost first.
LEMMA CommitKeeps ==
  ASSUME MailboxIInv, NEW s \in Senders, Commit(s), call' = [call EXCEPT ![s] = NoCall],
         UNCHANGED <<lastSeq, cursor, handled>>,
         replies' \in {replies, replies \cup {[seq |-> call[s].seq, id |-> call[s].id, inserted |-> TRUE]}}
  PROVE  MailboxIInv'
  <1> DEFINE q == call[s].seq
             new == [seq |-> q, id |-> call[s].id]
  <1> USE DEF MailboxIInv
  <1>1. q \in 1 .. lastSeq /\ call[s].id \in Messages /\ q \notin Seqs /\ lastSeq \in Nat /\ call[s] # NoCall
    <2>1. call[s].pc = "insert"
      BY Zenon DEF Commit
    <2>2. call[s] # NoCall
      BY <2>1 DEF NoCall
    <2>3. call[s] \in [pc : {"insert", "select"}, id : Messages, seq : 1 .. lastSeq]
      BY Zenon, <2>2 DEF MailboxNumbers
    <2> QED
      BY <2>1, <2>2, <2>3 DEF MailboxNumbers
  <1>2. rows' = rows \cup {new} /\ Seqs' = Seqs \cup {q}
    <2>1. rows' = rows \cup {new} /\ new.seq = q
      BY Zenon DEF Commit
    <2> HIDE DEF new
    <2> QED
      BY Zenon, <2>1 DEF Seqs
  <1>3. \A r \in rows : r.id # call[s].id
    BY Zenon DEF Commit, Sent
  <1>4. \A u \in (Seqs \ overtaken)' : u \in Seqs \ overtaken \/ (u = q /\ \A t \in Seqs : t < q)
    <2>1. ASSUME q \notin overtaken', NEW t \in Seqs
          PROVE  t < q
      <3>1. PICK r \in rows : t = r.seq
        BY Zenon DEF Seqs
      <3>2. ~(r.seq > q)
        BY Zenon, <2>1 DEF Commit
      <3> QED
        BY <1>1, <3>1, <3>2, SeqsAreNumbers
    <2>2. overtaken \subseteq overtaken'
      BY Zenon DEF Commit
    <2> QED
      BY Zenon, <1>2, <2>1, <2>2
  <1>5. MailboxNumbers'
    <2>1. /\ rows' \subseteq [seq : 1 .. lastSeq', id : Messages]
          /\ replies' \subseteq [seq : 1 .. lastSeq', id : Messages, inserted : BOOLEAN]
      <3>1. new \in [seq : 1 .. lastSeq, id : Messages]
        BY Zenon, <1>1
      <3>2. [seq |-> q, id |-> call[s].id, inserted |-> TRUE] \in [seq : 1 .. lastSeq, id : Messages, inserted : BOOLEAN]
        BY Zenon, <1>1
      <3> HIDE DEF new
      <3> QED
        BY Zenon, <1>2, <3>1, <3>2 DEF MailboxNumbers
    <2>2. call' \in [Senders -> {NoCall} \cup [pc : {"insert", "select"}, id : Messages, seq : 1 .. lastSeq']]
      BY Zenon DEF MailboxNumbers
    <2>3. \A u \in Senders : call'[u].pc = "insert" => call'[u].seq \notin Seqs'
      <3> SUFFICES ASSUME NEW u \in Senders, call'[u].pc = "insert"
                   PROVE  call'[u].seq \notin Seqs'
        BY Zenon
      <3>1. u # s /\ call'[u] = call[u] /\ call[u] # NoCall
        BY DEF MailboxNumbers, NoCall
      <3>2. call[u].seq \notin Seqs /\ call[u].seq # q
        BY Zenon, <1>1, <3>1 DEF MailboxNumbers
      <3> QED
        BY <1>2, <3>1, <3>2
    <2>4. \A u, t \in Senders : call'[u] # NoCall /\ call'[t] # NoCall /\ call'[u].seq = call'[t].seq => u = t
      BY Zenon DEF MailboxNumbers
    <2>5. cursor' \in [Consumers -> Seqs' \cup {0}] /\ handled' \in [Consumers -> SUBSET Seqs']
      BY Zenon, <1>2 DEF MailboxNumbers
    <2> QED
      BY Zenon, <2>1, <2>2, <2>3, <2>4, <2>5 DEF MailboxNumbers
  <1>6. AppendIsIdempotent'
    <2>1. \A p \in replies : p.id # call[s].id
      BY Zenon, <1>3 DEF MailboxIsALog, AppendIsIdempotent
    <2>2. \A p \in rows' : \A r \in rows' : p.id = r.id => p = r
      BY <1>2, <1>3 DEF MailboxIsALog, AppendIsIdempotent
    <2>3. \A p \in replies' : \A r \in replies' : p.id = r.id => p.seq = r.seq
      BY <2>1 DEF MailboxIsALog, AppendIsIdempotent
    <2>4. \A p \in replies' : [seq |-> p.seq, id |-> p.id] \in rows'
      <3> SUFFICES ASSUME NEW p \in replies' PROVE [seq |-> p.seq, id |-> p.id] \in rows'
        BY Zenon
      <3>1. CASE p \in replies
        BY Zenon, <1>2, <3>1 DEF MailboxIsALog, AppendIsIdempotent
      <3>2. CASE p \notin replies
        <4>1. p = [seq |-> q, id |-> call[s].id, inserted |-> TRUE]
          BY Zenon, <3>2
        <4>2. [seq |-> p.seq, id |-> p.id] = new
          BY Zenon, <4>1
        <4> QED
          BY Zenon, <1>2, <4>2
      <3> QED
        BY Zenon, <3>1, <3>2
    <2> QED
      BY Zenon, <2>2, <2>3, <2>4 DEF AppendIsIdempotent
  <1> HIDE DEF q
  <1>7. HandledInOrder'
    BY <1>1, <1>4, SeqsAreNumbers DEF HandledInOrder, MailboxNumbers
  <1>8. AckSkipsNothing'
    BY <1>1, <1>4, SeqsAreNumbers DEF MailboxIsALog, AckSkipsNothing, MailboxNumbers
  <1> QED
    BY Zenon, <1>5, <1>6, <1>7, <1>8 DEF MailboxIsALog

\* An INSERT that found its id in the table goes on to select that row.
LEMMA ConflictInsertKeeps ==
  ASSUME MailboxIInv, NEW s \in Senders, ConflictInsert(s)
  PROVE  MailboxIInv'
  <1> USE DEF MailboxIInv
  <1>1. /\ call' = [call EXCEPT ![s].pc = "select"]
        /\ UNCHANGED <<lastSeq, rows, replies, cursor, handled, overtaken>> /\ Seqs' = Seqs
    BY Zenon DEF ConflictInsert, Seqs
  <1>2. call[s].pc = "insert" /\ call[s] # NoCall
    BY DEF ConflictInsert, NoCall
  <1>3. call[s] \in [pc : {"insert", "select"}, id : Messages, seq : 1 .. lastSeq]
    BY Zenon, <1>2 DEF MailboxNumbers
  <1>4. /\ call'[s] \in [pc : {"insert", "select"}, id : Messages, seq : 1 .. lastSeq]
        /\ call'[s].seq = call[s].seq /\ call'[s].pc # "insert"
        /\ \A u \in Senders \ {s} : call'[u] = call[u]
    BY Zenon, <1>1, <1>3 DEF MailboxNumbers
  <1>5. MailboxNumbers'
    <2>1. call' \in [Senders -> {NoCall} \cup [pc : {"insert", "select"}, id : Messages, seq : 1 .. lastSeq']]
      BY Zenon, <1>1, <1>4 DEF MailboxNumbers
    <2>2. \A u \in Senders : call'[u].pc = "insert" => call'[u].seq \notin Seqs'
      BY Zenon, <1>1, <1>4 DEF MailboxNumbers
    <2>3. \A u, t \in Senders : call'[u] # NoCall /\ call'[t] # NoCall /\ call'[u].seq = call'[t].seq => u = t
      BY <1>2, <1>4 DEF MailboxNumbers
    <2> QED
      BY Zenon, <1>1, <2>1, <2>2, <2>3 DEF MailboxNumbers
  <1>6. HandledInOrder' /\ MailboxIsALog'
    BY Zenon, <1>1 DEF HandledInOrder, MailboxIsALog, AppendIsIdempotent, AckSkipsNothing
  <1> QED
    BY Zenon, <1>5, <1>6

\* The loser is answered with the row that has its id.
LEMMA SelectExistingKeeps ==
  ASSUME MailboxIInv, NEW s \in Senders, SelectExisting(s)
  PROVE  MailboxIInv'
  <1> USE DEF MailboxIInv
  <1>1. PICK r \in Sent(call[s].id) : Reply(s, r.seq, FALSE)
    BY Zenon DEF SelectExisting
  <1> DEFINE new == [seq |-> r.seq, id |-> call[s].id, inserted |-> FALSE]
  <1>2. r \in rows /\ r.id = call[s].id /\ r \in [seq : 1 .. lastSeq, id : Messages]
    BY Zenon DEF Sent, MailboxNumbers
  <1>3. new \in [seq : 1 .. lastSeq, id : Messages, inserted : BOOLEAN] /\ [seq |-> new.seq, id |-> new.id] = r
    BY Zenon, <1>2
  <1>4. replies' = replies \cup {new} /\ call' = [call EXCEPT ![s] = NoCall]
        /\ UNCHANGED <<lastSeq, rows, cursor, handled, overtaken>>
    BY Zenon, <1>1 DEF Reply, SelectExisting
  <1> HIDE DEF new
  <1>5. replies' \subseteq [seq : 1 .. lastSeq, id : Messages, inserted : BOOLEAN]
    BY Zenon, <1>3, <1>4 DEF MailboxNumbers
  <1>6. \A p \in replies' : [seq |-> p.seq, id |-> p.id] \in rows
    BY Zenon, <1>2, <1>3, <1>4 DEF MailboxIsALog, AppendIsIdempotent
  <1> QED
    BY Zenon, <1>4, <1>5, <1>6, CallEndsKeeps

\* A connection that is lost leaves the table as it was, or with the row.
LEMMA LoseConnectionKeeps ==
  ASSUME MailboxIInv, NEW s \in Senders, LoseConnection(s)
  PROVE  MailboxIInv'
  <1>1. CASE Commit(s)
    BY Zenon, <1>1, CommitKeeps DEF LoseConnection
  <1>2. CASE UNCHANGED <<rows, overtaken>>
    <2>1. replies' = replies
      BY Zenon DEF LoseConnection
    <2> QED
      BY Zenon, <1>2, <2>1, CallEndsKeeps DEF LoseConnection, MailboxIInv, MailboxNumbers, MailboxIsALog, AppendIsIdempotent
  <1> QED
    BY Zenon, <1>1, <1>2 DEF LoseConnection

\* readMailbox returns a first part of the messages after the cursor.
LEMMA MailboxReadIsAPrefix ==
  ASSUME MailboxNumbers, NEW c \in Consumers, NEW limit \in 1 .. MaxSeq, NEW t \in readMailbox(c, limit),
         NEW s \in Seqs, cursor[c] < s, s <= t
  PROVE  s \in readMailbox(c, limit)
  <1> DEFINE S == SeqsBetween(cursor[c], s)
             T == SeqsBetween(cursor[c], t)
  <1>1. IsFiniteSet(T)
    <2>1. IsFiniteSet(1 .. lastSeq)
      BY FS_Interval DEF MailboxNumbers
    <2>2. T \in SUBSET (1 .. lastSeq)
      BY Zenon, SeqsAreNumbers DEF SeqsBetween
    <2> QED
      BY Zenon, <2>1, <2>2, FS_Subset
  <1>2. S \in SUBSET T
    <2>1. t \in Int /\ s \in Int /\ Seqs \subseteq Int /\ cursor[c] \in Int
      BY SeqsAreNumbers DEF MailboxNumbers, readMailbox
    <2>2. ASSUME NEW r \in S PROVE r \in T
      <3>1. r \in Seqs /\ cursor[c] < r /\ r < s
        BY Zenon DEF SeqsBetween
      <3>2. r < t
        BY <2>1, <3>1
      <3> QED
        BY Zenon, <3>1, <3>2 DEF SeqsBetween
    <2> QED
      BY Zenon, <2>2
  <1>3. Cardinality(T) < limit
    BY Zenon DEF readMailbox
  <1>4. /\ Cardinality(S) <= Cardinality(T)
        /\ Cardinality(S) \in Nat /\ Cardinality(T) \in Nat
    BY Zenon, <1>1, <1>2, FS_Subset, FS_CardinalityType
  <1> QED
    BY <1>3, <1>4, MailboxAssumption DEF readMailbox

\* A consumer reads on from its cursor, and has handled all up to it.
LEMMA HandleMessagesKeeps ==
  ASSUME MailboxIInv, NEW c \in Consumers, HandleMessages(c)
  PROVE  MailboxIInv'
  <1> USE DEF MailboxIInv
  <1>1. PICK limit \in 1 .. MaxSeq : handled' = [handled EXCEPT ![c] = @ \cup readMailbox(c, limit)]
    BY Zenon DEF HandleMessages
  <1> DEFINE read == readMailbox(c, limit)
  <1>2. UNCHANGED <<lastSeq, call, rows, replies, cursor, overtaken>> /\ Seqs' = Seqs
    BY Zenon DEF HandleMessages, Seqs
  <1>3. \A t \in read, s \in Seqs \ overtaken : s <= t => s \in handled[c] \cup read
    <2> SUFFICES ASSUME NEW t \in read, NEW s \in Seqs \ overtaken, s <= t, ~(s <= cursor[c])
                 PROVE  s \in read
      BY Zenon DEF MailboxIsALog, AckSkipsNothing
    <2>1. cursor[c] < s
      BY SeqsAreNumbers DEF MailboxNumbers
    <2> QED
      BY Zenon, <2>1, MailboxReadIsAPrefix
  <1>4. read \subseteq Seqs
    BY Zenon DEF readMailbox
  <1> HIDE DEF read
  <1>5. MailboxNumbers'
    BY Zenon, <1>1, <1>2, <1>4 DEF MailboxNumbers, read
  <1>6. HandledInOrder'
    BY Zenon, <1>1, <1>2, <1>3 DEF HandledInOrder, MailboxNumbers, read
  <1>7. MailboxIsALog'
    BY Zenon, <1>1, <1>2 DEF MailboxIsALog, AppendIsIdempotent, AckSkipsNothing, MailboxNumbers
  <1> QED
    BY Zenon, <1>5, <1>6, <1>7

\* An acknowledgement is clamped to the messages there are, and reaches only
\* what was handled.
LEMMA AckMailboxKeeps ==
  ASSUME MailboxIInv, NEW c \in Consumers, NEW throughSeq \in 1 .. MaxSeq, ackMailbox(c, throughSeq)
  PROVE  MailboxIInv'
  <1> DEFINE top == Max(Seqs \cup {0})
             acked == Acked(c, throughSeq)
  <1> USE MailboxAssumption DEF MailboxIInv
  <1>1. top \in Seqs \cup {0} /\ \A s \in Seqs : s <= top
    <2>1. Seqs \cup {0} \in SUBSET Nat /\ lastSeq \in Nat /\ \A s \in Seqs \cup {0} : s <= lastSeq
      BY SeqsAreNumbers DEF MailboxNumbers
    <2> QED
      BY Zenon, <2>1, MaxIsGreatest
  <1> HIDE DEF top
  <1>2. top \in Int /\ cursor[c] \in Int /\ throughSeq \in Int
    BY <1>1, SeqsAreNumbers DEF MailboxNumbers
  <1>3. acked = IF cursor[c] >= (IF throughSeq <= top THEN throughSeq ELSE top)
                THEN cursor[c] ELSE IF throughSeq <= top THEN throughSeq ELSE top
    <2>1. acked = Max({cursor[c], Min({throughSeq, top})})
      BY Zenon DEF Acked, top
    <2> QED
      BY <1>2, <2>1, MaxOfTwo, MinOfTwo
  <1>4. acked \in Seqs \cup {0}
    <2>1. throughSeq \in handled[c] \/ (throughSeq = MaxSeq /\ Seqs \subseteq handled[c])
      BY Zenon DEF ackMailbox
    <2>2. throughSeq \in handled[c] => throughSeq \in Seqs
      BY Zenon DEF MailboxNumbers
    <2>3. throughSeq = MaxSeq => top <= throughSeq
      BY <1>1, SeqsAreNumbers DEF MailboxNumbers
    <2>4. throughSeq < top => throughSeq \in Seqs
      BY <1>2, <2>1, <2>2, <2>3
    <2> QED
      BY <1>1, <1>2, <1>3, <2>4 DEF MailboxNumbers
  <1>5. ASSUME NEW s \in Seqs \ overtaken, s <= acked
        PROVE  s \in handled[c]
    <2>1. CASE s <= cursor[c]
      BY Zenon, <2>1 DEF MailboxIsALog, AckSkipsNothing
    <2>2. CASE ~(s <= cursor[c])
      <3>1. s <= throughSeq
        BY <1>2, <1>3, <1>5, <2>2, SeqsAreNumbers
      <3> QED
        BY Zenon, <3>1 DEF ackMailbox, HandledInOrder
    <2> QED
      BY Zenon, <2>1, <2>2
  <1>6. /\ cursor' = [cursor EXCEPT ![c] = acked]
        /\ UNCHANGED <<lastSeq, call, rows, replies, handled, overtaken>> /\ Seqs' = Seqs
    BY Zenon DEF ackMailbox, Seqs
  <1> HIDE DEF acked
  <1>7. MailboxNumbers'
    BY Zenon, <1>4, <1>6 DEF MailboxNumbers
  <1>8. AckSkipsNothing'
    BY Zenon, <1>5, <1>6 DEF MailboxIsALog, AckSkipsNothing, MailboxNumbers
  <1>9. HandledInOrder' /\ AppendIsIdempotent'
    BY Zenon, <1>6 DEF HandledInOrder, MailboxIsALog, AppendIsIdempotent
  <1> QED
    BY Zenon, <1>7, <1>8, <1>9 DEF MailboxIsALog

\* The mailbox is a log: for every set of senders, messages and consumers, whatever
\* is sent twice, lost or acknowledged late, a message is in it once, where every
\* reply says it is, and no cursor passes a message unhandled.
THEOREM MailboxStaysALog == MailboxSpec => []MailboxIsALog
  <1>1. MailboxIInv /\ [MailboxNext]_mailboxVars => MailboxIInv'
    <2> SUFFICES ASSUME MailboxIInv, [MailboxNext]_mailboxVars PROVE MailboxIInv'
      BY Zenon
    <2>1. CASE UNCHANGED mailboxVars
      <3>1. UNCHANGED <<lastSeq, call, rows, replies, cursor, handled, overtaken>> /\ Seqs' = Seqs
        BY Zenon, <2>1 DEF mailboxVars, Seqs
      <3>2. MailboxNumbers'
        BY Zenon, <3>1 DEF MailboxIInv, MailboxNumbers
      <3>3. HandledInOrder' /\ MailboxIsALog'
        BY Zenon, <3>1 DEF MailboxIInv, HandledInOrder, MailboxIsALog, AppendIsIdempotent, AckSkipsNothing
      <3> QED
        BY Zenon, <3>2, <3>3 DEF MailboxIInv
    <2>2. ASSUME NEW s \in Senders, CommitInsert(s)
          PROVE  MailboxIInv'
      <3>1. /\ Commit(s) /\ call' = [call EXCEPT ![s] = NoCall] /\ UNCHANGED <<lastSeq, cursor, handled>>
            /\ replies' = replies \cup {[seq |-> call[s].seq, id |-> call[s].id, inserted |-> TRUE]}
        BY Zenon, <2>2 DEF CommitInsert, Reply
      <3>2. replies' \in {replies, replies \cup {[seq |-> call[s].seq, id |-> call[s].id, inserted |-> TRUE]}}
        BY Zenon, <3>1
      <3> QED
        BY Zenon, <3>1, <3>2, CommitKeeps
    <2>3. CASE MailboxNext
      BY Zenon, <2>2, <2>3, BeginAppendKeeps, ConflictInsertKeeps, SelectExistingKeeps, LoseConnectionKeeps,
         HandleMessagesKeeps, AckMailboxKeeps DEF MailboxNext, CallProgress
    <2> QED
      BY Zenon, <2>1, <2>3
  <1>2. MailboxIInv => MailboxIsALog
    BY Zenon DEF MailboxIInv
  <1> QED
    BY <1>1, <1>2, MailboxStarts, PTL DEF MailboxSpec

-----------------------------------------------------------------------------
(* The commands. *)

\* Nothing is claimed at the start.
LEMMA CommandStarts == CommandInit => CommandIInv
  <1> SUFFICES ASSUME CommandInit PROVE CommandIInv
    BY Zenon
  <1>1. claims = <<>> /\ DOMAIN claims = {} /\ claims \in Seq([by : Workers, token : 1 .. tokens])
    BY DEF CommandInit
  <1>2. TokensNameWorkers
    <2>1. staleClaim \in BOOLEAN
      BY Zenon DEF CommandInit
    <2>2. /\ tokens \in Nat /\ held \in [Workers -> 0 .. tokens] /\ doing \in [Workers -> {"idle", "performing"}]
          /\ command \in [status : {"none", "started", "committed", "failed"}, token : 0 .. tokens, by : Workers \cup {"none"}]
          /\ \A v \in Workers : held[v] = 0
      BY DEF CommandInit, NoRecord
    <2> QED
      BY Zenon, <1>1, <2>1, <2>2 DEF TokensNameWorkers
  <1>3. PerformedIsClaimed /\ ClaimsGrow /\ CommittedByLastClaim
    BY Zenon, <1>1 DEF CommandInit, PerformedIsClaimed, ClaimsGrow, CommittedByLastClaim, NoRecord
  <1> QED
    BY Zenon, <1>2, <1>3 DEF CommandIInv

\* The claims as a function.
LEMMA ClaimsAreNumbered ==
  ASSUME CommandIInv
  PROVE  /\ Len(claims) \in Nat /\ DOMAIN claims = 1 .. Len(claims)
         /\ \A i \in DOMAIN claims : claims[i].by \in Workers /\ claims[i].token \in 1 .. tokens
         /\ claims # <<>> => Len(claims) \in DOMAIN claims
  <1> DEFINE Claim == [by : Workers, token : 1 .. tokens]
  <1>1. claims \in Seq(Claim)
    BY Zenon DEF CommandIInv, TokensNameWorkers
  <1>2. Len(claims) \in Nat /\ DOMAIN claims = 1 .. Len(claims) /\ claims \in [1 .. Len(claims) -> Claim]
    BY Zenon, <1>1, LenProperties
  <1>3. claims # <<>> => Len(claims) # 0
    BY <1>1
  <1> QED
    BY <1>2, <1>3

\* A lease that is taken has a token nobody has had.
LEMMA AcquireLeaseKeeps ==
  ASSUME CommandIInv, NEW w \in Workers, AcquireLease(w)
  PROVE  CommandIInv'
  <1> USE DEF CommandIInv
  <1>1. /\ tokens' = tokens + 1 /\ tokens \in Nat /\ held' = [held EXCEPT ![w] = tokens + 1]
        /\ UNCHANGED <<command, doing, claims, staleClaim>>
    BY Zenon DEF AcquireLease, NextToken, TokensNameWorkers
  <1>2. 0 .. tokens \subseteq 0 .. tokens' /\ 1 .. tokens \subseteq 1 .. tokens' /\ tokens + 1 \in 0 .. tokens'
    BY <1>1
  <1>3. claims' \in Seq([by : Workers, token : 1 .. tokens'])
    <2>1. [by : Workers, token : 1 .. tokens] \subseteq [by : Workers, token : 1 .. tokens']
      BY Zenon, <1>2
    <2>2. claims \in Seq([by : Workers, token : 1 .. tokens])
      BY Zenon DEF TokensNameWorkers
    <2>3. claims \in Seq([by : Workers, token : 1 .. tokens'])
      BY Zenon, <2>1, <2>2, SeqMonotonic
    <2> QED
      BY Zenon, <1>1, <2>3
  <1>4. \A i \in DOMAIN claims : claims[i].token \in 1 .. tokens
    BY Zenon, ClaimsAreNumbered
  <1>5. TokensNameWorkers'
    <2>1. held' \in [Workers -> 0 .. tokens']
      BY Zenon, <1>1, <1>2 DEF TokensNameWorkers
    <2>2. \A u, v \in Workers : held'[u] = held'[v] /\ held'[u] # 0 => u = v
      BY <1>1 DEF TokensNameWorkers
    <2>3. \A i \in DOMAIN claims, u \in Workers : claims[i].token = held'[u] => claims[i].by = u
      BY <1>1, <1>4 DEF TokensNameWorkers
    <2>4. command' \in [status : {"none", "started", "committed", "failed"}, token : 0 .. tokens', by : Workers \cup {"none"}]
      BY Zenon, <1>1, <1>2 DEF TokensNameWorkers
    <2> QED
      BY <1>1, <1>3, <2>1, <2>2, <2>3, <2>4 DEF TokensNameWorkers
  <1>6. PerformedIsClaimed' /\ ClaimsGrow' /\ CommittedByLastClaim'
    BY Zenon, <1>1 DEF PerformedIsClaimed, ClaimsGrow, CommittedByLastClaim
  <1> QED
    BY Zenon, <1>5, <1>6

\* A claim is the newest one: of the newest generation, or staleClaim says otherwise.
LEMMA ClaimCommandKeeps ==
  ASSUME CommandIInv, NEW w \in Workers, ClaimCommand(w)
  PROVE  CommandIInv'
  <1> DEFINE new == [by |-> w, token |-> held[w]]
             Claim == [by : Workers, token : 1 .. tokens]
             n == Len(claims)
  <1> USE DEF CommandIInv
  <1>1. /\ command' = [status |-> "started", token |-> held[w], by |-> w]
        /\ doing' = [doing EXCEPT ![w] = "performing"]
        /\ claims' = Append(claims, new)
        /\ staleClaim' = (staleClaim \/ held[w] < command.token)
        /\ UNCHANGED <<lease, tokens, held>>
    BY Zenon DEF ClaimCommand, Record
  <1>2. held[w] \in 1 .. tokens /\ new \in Claim /\ claims \in Seq(Claim) /\ command.token \in Nat
    BY DEF TokensNameWorkers, ClaimCommand
  <1>3. /\ claims' \in Seq(Claim) /\ n \in Nat /\ Len(claims') = n + 1
        /\ DOMAIN claims' = 1 .. n + 1 /\ DOMAIN claims = 1 .. n
        /\ claims'[n + 1] = new /\ \A i \in 1 .. n : claims'[i] = claims[i]
    BY <1>1, <1>2
  <1>4. \A i \in DOMAIN claims' : claims'[i] = new \/ (i \in DOMAIN claims /\ claims'[i] = claims[i])
    BY <1>3
  <1>5. TokensNameWorkers'
    <2>1. command' \in [status : {"none", "started", "committed", "failed"}, token : 0 .. tokens', by : Workers \cup {"none"}]
      BY Zenon, <1>1, <1>2 DEF TokensNameWorkers
    <2>2. doing' \in [Workers -> {"idle", "performing"}] /\ staleClaim' \in BOOLEAN
      BY Zenon, <1>1 DEF TokensNameWorkers
    <2>3. \A i \in DOMAIN claims', u \in Workers : claims'[i].token = held[u] => claims'[i].by = u
      BY <1>2, <1>4 DEF TokensNameWorkers
    <2>4. \A i, j \in DOMAIN claims' : claims'[i].token = claims'[j].token => claims'[i].by = claims'[j].by
      <3> SUFFICES ASSUME NEW i \in DOMAIN claims', NEW j \in DOMAIN claims', claims'[i].token = claims'[j].token
                   PROVE  claims'[i].by = claims'[j].by
        BY Zenon
      <3>1. \A k \in DOMAIN claims : claims[k].token = held[w] => claims[k].by = w
        BY DEF TokensNameWorkers
      <3>2. \A k, l \in DOMAIN claims : claims[k].token = claims[l].token => claims[k].by = claims[l].by
        BY Zenon DEF TokensNameWorkers
      <3>3. new.token = held[w] /\ new.by = w
        BY Zenon
      <3> HIDE DEF new
      <3> QED
        BY <1>4, <3>1, <3>2, <3>3
    <2>5. UNCHANGED <<tokens, held>> /\ claims' \in Seq([by : Workers, token : 1 .. tokens'])
      BY Zenon, <1>1, <1>3
    <2> QED
      BY <2>1, <2>2, <2>3, <2>4, <2>5 DEF TokensNameWorkers
  <1>6. PerformedIsClaimed'
    <2>1. claims' # <<>>
      BY <1>3
    <2>2. n + 1 \in DOMAIN claims' /\ claims'[n + 1].by = w
      BY <1>3
    <2>3. \A u \in Workers : doing'[u] = "performing" => \E i \in DOMAIN claims' : claims'[i].by = u
      <3> SUFFICES ASSUME NEW u \in Workers, doing'[u] = "performing"
                   PROVE  \E i \in DOMAIN claims' : claims'[i].by = u
        BY Zenon
      <3>1. CASE u = w
        BY Zenon, <2>2, <3>1
      <3>2. CASE u # w
        <4>1. doing[u] = "performing"
          BY Zenon, <1>1, <3>2 DEF TokensNameWorkers
        <4>2. PICK i \in DOMAIN claims : claims[i].by = u
          BY Zenon, <4>1 DEF PerformedIsClaimed
        <4> QED
          BY <1>3, <4>2
      <3> QED
        BY Zenon, <3>1, <3>2
    <2> QED
      BY Zenon, <2>1, <2>3 DEF PerformedIsClaimed
  <1>7. ClaimsGrow'
    <2> SUFFICES ASSUME ~staleClaim', NEW i \in DOMAIN claims'
                 PROVE  claims'[i].token <= held[w]
      BY <1>1, <1>3 DEF ClaimsGrow
    <2>1. ~staleClaim /\ ~(held[w] < command.token)
      BY Zenon, <1>1
    <2>2. \A j \in DOMAIN claims : claims[j].token <= command.token /\ claims[j].token \in Nat
      BY <2>1, ClaimsAreNumbered DEF ClaimsGrow
    <2> QED
      BY SMTT(20), <1>2, <1>4, <2>1, <2>2
  <1>8. CommittedByLastClaim'
    BY Zenon, <1>1 DEF CommittedByLastClaim
  <1> QED
    BY Zenon, <1>5, <1>6, <1>7, <1>8

\* What the guard of putCommand lets in is not of an older generation; what it
\* keeps out changes nothing.  The writer is the one of the last claim if it commits.
LEMMA PutCommandKeeps ==
  ASSUME CommandIInv, NEW next \in [status : {"committed", "failed"}, token : 1 .. tokens, by : Workers],
         PutCommand(next), UNCHANGED <<tokens, held, claims, staleClaim>>,
         doing' \in [Workers -> {"idle", "performing"}],
         \A w \in Workers : doing'[w] = "performing" => doing[w] = "performing",
         next.status = "committed" => \E i \in DOMAIN claims : claims[i].by = next.by /\ claims[i].token = next.token
  PROVE  CommandIInv'
  <1> USE DEF CommandIInv
  <1>1. command' = command \/ (command' = next /\ next.token >= command.token)
    BY Zenon DEF PutCommand, CanReplaceCommand
  <1>2. TokensNameWorkers'
    <2>1. next \in [status : {"none", "started", "committed", "failed"}, token : 0 .. tokens, by : Workers \cup {"none"}]
      OBVIOUS
    <2> QED
      BY <1>1, <2>1 DEF TokensNameWorkers
  <1>3. PerformedIsClaimed'
    <2>1. next.status = "committed" => claims # <<>>
      OBVIOUS
    <2> QED
      BY Zenon, <1>1, <2>1 DEF PerformedIsClaimed
  <1>4. ClaimsGrow'
    <2> SUFFICES ASSUME ~staleClaim, NEW i \in DOMAIN claims
                 PROVE  claims[i].token <= claims[Len(claims)].token /\ claims[i].token <= command'.token
      BY Zenon DEF ClaimsGrow
    <2>1. claims[i].token <= claims[Len(claims)].token /\ claims[i].token <= command.token /\ claims[i].token \in Nat
      BY ClaimsAreNumbered DEF ClaimsGrow
    <2>2. command.token \in Nat
      BY DEF TokensNameWorkers
    <2> QED
      BY <1>1, <2>1, <2>2
  <1>5. CommittedByLastClaim'
    <2> SUFFICES ASSUME ~staleClaim, command'.status = "committed"
                 PROVE  command'.by = claims[Len(claims)].by
      BY Zenon DEF CommittedByLastClaim
    <2>1. CASE command' = command
      BY Zenon, <2>1 DEF CommittedByLastClaim
    <2>2. CASE command' = next /\ next.token >= command.token
      <3>1. PICK i \in DOMAIN claims : claims[i].by = next.by /\ claims[i].token = next.token
        BY Zenon, <2>2
      <3>2. Len(claims) \in DOMAIN claims /\ claims[Len(claims)].token \in Nat
        BY ClaimsAreNumbered
      <3>3. claims[i].token <= claims[Len(claims)].token /\ claims[Len(claims)].token <= command.token
        BY Zenon, <3>2 DEF ClaimsGrow
      <3>4. command.token \in Nat
        BY DEF TokensNameWorkers
      <3>5. claims[i].token = claims[Len(claims)].token
        BY <2>2, <3>1, <3>2, <3>3, <3>4
      <3> QED
        BY Zenon, <2>2, <3>1, <3>2, <3>5 DEF TokensNameWorkers
    <2> QED
      BY Zenon, <1>1, <2>1, <2>2
  <1> QED
    BY Zenon, <1>2, <1>3, <1>4, <1>5

\* A worker settles under the token of its last claim.
LEMMA SettleCommandKeeps ==
  ASSUME CommandIInv, NEW w \in Workers, NEW status \in {"committed", "failed"}, SettleCommand(w, status)
  PROVE  CommandIInv'
  <1> DEFINE Mine == {i \in DOMAIN claims : claims[i].by = w}
             P(i) == claims[i].by = w /\ \A j \in DOMAIN claims : claims[j].by = w => j <= i
             c == CHOOSE i \in DOMAIN claims : P(i)
             next == [status |-> status, token |-> claims[c].token, by |-> w]
  <1> USE DEF CommandIInv
  <1>1. \E i \in DOMAIN claims : P(i)
    <2>1. Mine # {} /\ Mine \in SUBSET Nat /\ Len(claims) \in Nat /\ \A i \in Mine : i <= Len(claims)
      BY ClaimsAreNumbered DEF SettleCommand, PerformedIsClaimed
    <2> HIDE DEF Mine
    <2>2. Max(Mine) \in Mine /\ \A i \in Mine : i <= Max(Mine)
      BY Zenon, <2>1, MaxIsGreatest
    <2> QED
      BY Zenon, <2>2 DEF Mine
  <1>2. c \in DOMAIN claims /\ claims[c].by = w
    BY Zenon, <1>1
  <1>3. PutCommand(next)
    BY Zenon DEF SettleCommand
  <1> HIDE DEF c, P
  <1>4. next \in [status : {"committed", "failed"}, token : 1 .. tokens, by : Workers]
    BY Zenon, <1>2, ClaimsAreNumbered
  <1>5. \E i \in DOMAIN claims : claims[i].by = next.by /\ claims[i].token = next.token
    BY Zenon, <1>2
  <1> HIDE DEF next
  <1>6. /\ UNCHANGED <<tokens, held, claims, staleClaim>>
        /\ doing' \in [Workers -> {"idle", "performing"}]
        /\ \A u \in Workers : doing'[u] = "performing" => doing[u] = "performing"
    BY Zenon DEF SettleCommand, TokensNameWorkers
  <1> QED
    BY Zenon, <1>3, <1>4, <1>5, <1>6, PutCommandKeeps

\* What a worker committed is what the last claim did: for every set of workers and
\* any number of leases and claims, while no worker of an older generation has
\* claimed what a newer one gave up.
THEOREM LastClaimCommits == CommandSpec => []CommittedByLastClaim
  <1>1. CommandIInv /\ [CommandNext]_commandVars => CommandIInv'
    <2> SUFFICES ASSUME CommandIInv, [CommandNext]_commandVars PROVE CommandIInv'
      BY Zenon
    <2>1. ASSUME UNCHANGED <<tokens, held, command, doing, claims, staleClaim>> PROVE CommandIInv'
      BY <2>1 DEF CommandIInv, TokensNameWorkers, PerformedIsClaimed, ClaimsGrow, CommittedByLastClaim
    <2>2. CASE UNCHANGED commandVars \/ LeaseExpires \/ \E w \in Workers : ReleaseLease(w)
      BY Zenon, <2>1, <2>2 DEF commandVars, LeaseExpires, ReleaseLease
    <2>3. ASSUME NEW w \in Workers, RecoverCommand(w) PROVE CommandIInv'
      <3>1. /\ PutCommand(Record(w, "failed")) /\ UNCHANGED <<tokens, held, doing, claims, staleClaim>>
            /\ command.token < held[w]
        BY Zenon, <2>3 DEF RecoverCommand
      <3>2. held[w] \in 1 .. tokens /\ doing \in [Workers -> {"idle", "performing"}]
        BY <3>1 DEF CommandIInv, TokensNameWorkers
      <3>3. /\ Record(w, "failed") \in [status : {"committed", "failed"}, token : 1 .. tokens, by : Workers]
            /\ Record(w, "failed").status # "committed"
        BY Zenon, <3>2 DEF Record
      <3> QED
        BY Zenon, <3>1, <3>2, <3>3, PutCommandKeeps
    <2> QED
      BY Zenon, <2>2, <2>3, AcquireLeaseKeeps, ClaimCommandKeeps, SettleCommandKeeps DEF CommandNext
  <1>2. CommandIInv => CommittedByLastClaim
    BY Zenon DEF CommandIInv
  <1> QED
    BY <1>1, <1>2, CommandStarts, PTL DEF CommandSpec

====
