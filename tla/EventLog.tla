------------------------------ MODULE EventLog ------------------------------
(***************************************************************************)
(* The runtime events of PostgresPersistence (src/postgres/                *)
(* persistence.ts): an append-only table whose rows are numbered by a      *)
(* bigserial, named consumers that acknowledge a sequence number, and      *)
(* retention up to the slowest of them.                                    *)
(*                                                                         *)
(* A number is drawn when the INSERT runs and the row is seen when it      *)
(* commits, in any order; a rolled back INSERT leaves a gap.               *)
(* pruneEventsSafe is two statements.  A consumer reads after its cursor,  *)
(* handles what it read and acknowledges it, or dies and reads it again.   *)
(***************************************************************************)
EXTENDS Integers, FiniteSets, FiniteSetsExt

CONSTANTS
    Appenders,       \* concurrent callers of appendEvent
    EventConsumers,  \* named consumers
    MaxEvents,       \* bound on the numbers drawn
    ReadLimit        \* readEvents limit

ASSUME EventAssumption == MaxEvents \in Nat /\ ReadLimit \in Nat

VARIABLES
    eventSeq,    \* the bigserial
    inserting,   \* per appender: the number of its open INSERT, or 0
    events,      \* the committed rows
    ackSeq,      \* per consumer: ack_seq, or Unregistered
    processed,   \* history, per consumer: the events it has processed
    pruning,     \* the watermark pruneEventsSafe has read, or 0
    pruningFor,  \* history: the consumers that watermark was computed from
    newest,      \* history: the highest number ever committed
    late         \* history: the numbers committed after a higher one

eventVars == <<eventSeq, inserting, events, ackSeq, processed, pruning, pruningFor, newest, late>>

Unregistered == -1
Registered == {c \in EventConsumers : ackSeq[c] # Unregistered}

EventInit ==
    /\ eventSeq = 0
    /\ inserting = [a \in Appenders |-> 0]
    /\ events = {}
    /\ ackSeq = [c \in EventConsumers |-> Unregistered]
    /\ processed = [c \in EventConsumers |-> {}]
    /\ pruning = 0 /\ pruningFor = {}
    /\ newest = 0 /\ late = {}

-----------------------------------------------------------------------------
(* appendEvent. *)

BeginEvent(a) ==
    /\ inserting[a] = 0 /\ eventSeq < MaxEvents
    /\ eventSeq' = eventSeq + 1
    /\ inserting' = [inserting EXCEPT ![a] = eventSeq + 1]
    /\ UNCHANGED <<events, ackSeq, processed, pruning, pruningFor, newest, late>>

CommitEvent(a) ==
    /\ inserting[a] # 0
    /\ events' = events \cup {inserting[a]}
    /\ newest' = Max({newest, inserting[a]})
    /\ late' = IF inserting[a] < newest THEN late \cup {inserting[a]} ELSE late
    /\ inserting' = [inserting EXCEPT ![a] = 0]
    /\ UNCHANGED <<eventSeq, ackSeq, processed, pruning, pruningFor>>

AbortEvent(a) ==
    /\ inserting[a] # 0
    /\ inserting' = [inserting EXCEPT ![a] = 0]
    /\ UNCHANGED <<eventSeq, events, ackSeq, processed, pruning, pruningFor, newest, late>>

-----------------------------------------------------------------------------
(* Consumers. *)

\* Mutated: the newest rows first.
readEventsNewest(afterSeq) ==
    {s \in events : s > afterSeq /\ Cardinality({r \in events : r > s}) < ReadLimit}

RowsBetween(afterSeq, s) == {r \in events : afterSeq < r /\ r < s}

\* readEvents({afterSeq, limit}): the first rows after afterSeq.
readEvents(afterSeq) ==
    {s \in events : s > afterSeq /\ Cardinality(RowsBetween(afterSeq, s)) < ReadLimit}

\* A consumer processes what it reads after its cursor (getEventCursor).
HandleEvents(c) ==
    LET read == readEvents(IF ackSeq[c] = Unregistered THEN 0 ELSE ackSeq[c])
    IN  /\ ~(read \subseteq processed[c])
        /\ processed' = [processed EXCEPT ![c] = @ \cup read]
        /\ UNCHANGED <<eventSeq, inserting, events, ackSeq, pruning, pruningFor, newest, late>>

\* It may acknowledge what it processed, again and late; or, when it processed all
\* there is, a number beyond it; and nothing, to register.
MayAckEvent(c, throughSeq) ==
    \/ throughSeq \in processed[c] \cup {0}
    \/ throughSeq = MaxEvents /\ events \subseteq processed[c]

\* LEAST(throughSeq, max(seq)), and GREATEST with the stored one.
EventAcked(c, throughSeq) == Max({ackSeq[c], Min({throughSeq, Max(events \cup {0})})})

ackEvent(c, throughSeq) ==
    /\ MayAckEvent(c, throughSeq)
    /\ ackSeq' = [ackSeq EXCEPT ![c] = EventAcked(c, throughSeq)]
    /\ UNCHANGED <<eventSeq, inserting, events, processed, pruning, pruningFor, newest, late>>

forgetEventConsumer(c) ==
    /\ c \in Registered
    /\ ackSeq' = [ackSeq EXCEPT ![c] = Unregistered]
    /\ UNCHANGED <<eventSeq, inserting, events, processed, pruning, pruningFor, newest, late>>

-----------------------------------------------------------------------------
(* Retention. *)

\* COALESCE(MIN(ack_seq), 0)
safeEventWatermark == IF Registered = {} THEN 0 ELSE Min({ackSeq[c] : c \in Registered})

\* pruneEventsSafe reads the watermark; 0 prunes nothing.
ReadWatermark ==
    /\ pruning = 0 /\ safeEventWatermark > 0
    /\ pruning' = safeEventWatermark
    /\ pruningFor' = Registered
    /\ UNCHANGED <<eventSeq, inserting, events, ackSeq, processed, newest, late>>

\* ... and then deletes.
pruneEvents ==
    /\ pruning # 0
    /\ events' = {s \in events : s > pruning}
    /\ pruning' = 0 /\ pruningFor' = {}
    /\ UNCHANGED <<eventSeq, inserting, ackSeq, processed, newest, late>>

EventNext ==
    \/ \E a \in Appenders : BeginEvent(a) \/ CommitEvent(a) \/ AbortEvent(a)
    \/ \E c \in EventConsumers :
          \/ HandleEvents(c) \/ forgetEventConsumer(c)
          \/ \E throughSeq \in 0 .. MaxEvents : ackEvent(c, throughSeq)
    \/ ReadWatermark \/ pruneEvents

EventSpec == EventInit /\ [][EventNext]_eventVars

-----------------------------------------------------------------------------
(* Properties. *)

\* "A consumer records the highest sequence it has durably processed": no
\* event at or below a cursor is one its consumer has never processed, so
\* resuming with readEvents({afterSeq: cursor}) skips nothing.  It is claimed of
\* the rows that appear in the order of their numbers: one that commits after a
\* higher number may come out below a cursor.
AckMeansHandled ==
    \A c \in Registered : \A s \in events \ late : s <= ackSeq[c] => s \in processed[c]

\* What a prune removes, every consumer it took into account has processed.
PrunesHandled ==
    \A s \in events \ (events' \cup late) : \A c \in pruningFor : s \in processed[c]

\* No consumer misses an event (ackEvents, pruneEventsSafe): neither its own
\* cursor passes one it has not processed, nor does retention remove one that a
\* consumer it took into account has not processed, whatever they acknowledge,
\* forget or register meanwhile.  Late rows are excepted as above.
LogLosesNothing == [][AckMeansHandled' /\ PrunesHandled]_eventVars

\* Numbers: a number is drawn for one INSERT, and no cursor is past the newest row.
EventNumbers ==
    /\ eventSeq \in Nat /\ newest \in 0 .. eventSeq
    /\ inserting \in [Appenders -> 0 .. eventSeq]
    /\ \A a, b \in Appenders : inserting[a] # 0 /\ inserting[a] = inserting[b] => a = b
    /\ \A a \in Appenders : inserting[a] # 0 => inserting[a] # newest
    /\ events \subseteq (1 .. newest)
    /\ ackSeq \in [EventConsumers -> -1 .. newest]
    /\ processed \in [EventConsumers -> SUBSET (1 .. newest)]
    /\ pruning \in 0 .. newest /\ pruningFor \subseteq EventConsumers

\* A consumer that has processed an event has processed those before it.
ProcessedInOrder ==
    \A c \in EventConsumers : \A t \in processed[c], s \in events \ late : s <= t => s \in processed[c]

\* What a prune is about to remove was processed by the consumers it was computed from.
PruningHandled ==
    \A c \in pruningFor, s \in events \ late : s <= pruning => s \in processed[c]

\* Inductive: LogLosesNothing follows from it.
EventIInv == EventNumbers /\ ProcessedInOrder /\ AckMeansHandled /\ PruningHandled

\* "Prune only through safeEventWatermark; never removes an unacked event":
\* no registered consumer is behind an event that is removed.  It does not hold
\* for a consumer that registers between the two statements.
PruneNeverUnacked ==
    [][\A s \in events \ events' : \A c \in Registered : s <= ackSeq[c]]_eventVars

=============================================================================
