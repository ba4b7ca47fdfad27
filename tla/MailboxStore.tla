---------------------------- MODULE MailboxStore ----------------------------
(***************************************************************************)
(* One agent's mailbox in PostgresDistributedControlStore (src/            *)
(* postgres/distributed-state.ts): appendMailbox is idempotent by message  *)
(* id, rows are numbered by a sequence all agents share, and consumers own *)
(* named cursors.  InMemoryMailboxStore (src/control-plane/mailbox.ts)     *)
(* is the case without the overlaps.                                       *)
(***************************************************************************)
EXTENDS Integers, FiniteSets, FiniteSetsExt

CONSTANTS
    Senders,     \* concurrent callers of appendMailbox
    Messages,    \* message ids
    Consumers,   \* named consumers
    MaxSeq       \* bound on the numbers drawn

ASSUME MailboxAssumption == MaxSeq \in Nat

VARIABLES
    lastSeq,     \* synth_mailbox_seq
    call,        \* per sender: its appendMailbox call
    rows,        \* the committed rows: [seq, id]
    replies,     \* history: the MailboxAppendResults returned: [seq, id, inserted]
    cursor,      \* per consumer: ack_seq; no row counts as 0
    handled,     \* history, per consumer: the seqs it has processed
    overtaken    \* history: the seqs committed after a higher one

mailboxVars == <<lastSeq, call, rows, replies, cursor, handled, overtaken>>

NoCall == [pc |-> "idle"]

MailboxInit ==
    /\ lastSeq = 0
    /\ call = [s \in Senders |-> NoCall]
    /\ rows = {} /\ replies = {}
    /\ cursor = [c \in Consumers |-> 0]
    /\ handled = [c \in Consumers |-> {}]
    /\ overtaken = {}

-----------------------------------------------------------------------------
(* appendMailbox; a sender may call it again with an id it sent before. *)

Sent(id) == {r \in rows : r.id = id}

\* The INSERT draws its number, also if it then finds a conflict.
BeginAppend(s, id) ==
    /\ call[s] = NoCall /\ lastSeq < MaxSeq
    /\ lastSeq' = lastSeq + 1
    /\ call' = [call EXCEPT ![s] = [pc |-> "insert", id |-> id, seq |-> lastSeq + 1]]
    /\ UNCHANGED <<rows, replies, cursor, handled, overtaken>>

Reply(s, seq, inserted) ==
    /\ replies' = replies \cup {[seq |-> seq, id |-> call[s].id, inserted |-> inserted]}
    /\ call' = [call EXCEPT ![s] = NoCall]

\* The INSERT commits: the id is new.
Commit(s) ==
    /\ call[s].pc = "insert" /\ Sent(call[s].id) = {}
    /\ rows' = rows \cup {[seq |-> call[s].seq, id |-> call[s].id]}
    /\ overtaken' = overtaken \cup {q \in {call[s].seq} : \E r \in rows : r.seq > q}

CommitInsert(s) ==
    /\ Commit(s)
    /\ Reply(s, call[s].seq, TRUE)
    /\ UNCHANGED <<lastSeq, cursor, handled>>

\* ON CONFLICT DO NOTHING: another row has the id (an INSERT of the same id
\* that is still open is waited for).
ConflictInsert(s) ==
    /\ call[s].pc = "insert" /\ Sent(call[s].id) # {}
    /\ call' = [call EXCEPT ![s].pc = "select"]
    /\ UNCHANGED <<lastSeq, rows, replies, cursor, handled, overtaken>>

\* Mutated: the loser reports its own number as inserted.
SelectExistingOwn(s) ==
    /\ call[s].pc = "select"
    /\ Reply(s, call[s].seq, FALSE)
    /\ UNCHANGED <<lastSeq, rows, cursor, handled, overtaken>>

SelectExisting(s) ==
    /\ call[s].pc = "select"
    /\ \E r \in Sent(call[s].id) : Reply(s, r.seq, FALSE)
    /\ UNCHANGED <<lastSeq, rows, cursor, handled, overtaken>>

\* The connection is lost before the INSERT commits, or after it and before
\* the reply.
LoseConnection(s) ==
    /\ call[s] # NoCall
    /\ call' = [call EXCEPT ![s] = NoCall]
    /\ \/ UNCHANGED <<rows, overtaken>>
       \/ Commit(s)
    /\ UNCHANGED <<lastSeq, replies, cursor, handled>>

-----------------------------------------------------------------------------
(* Consumers. *)

Seqs == {r.seq : r \in rows}

SeqsBetween(after, s) == {r \in Seqs : after < r /\ r < s}

\* readMailbox after getMailboxCursor; the limit is the consumer's choice.
readMailbox(c, limit) == {s \in Seqs : s > cursor[c] /\ Cardinality(SeqsBetween(cursor[c], s)) < limit}

HandleMessages(c) ==
    /\ \E limit \in 1 .. MaxSeq :
          /\ ~(readMailbox(c, limit) \subseteq handled[c])
          /\ handled' = [handled EXCEPT ![c] = @ \cup readMailbox(c, limit)]
    /\ UNCHANGED <<lastSeq, call, rows, replies, cursor, overtaken>>

\* Mutated: the ack is not clamped.
AckedUnclamped(c, throughSeq) == Max({cursor[c], throughSeq})

\* GREATEST(stored, LEAST(throughSeq, max(seq)))
Acked(c, throughSeq) == Max({cursor[c], Min({throughSeq, Max(Seqs \cup {0})})})

\* A consumer acknowledges what it handled, again and late; or, when it has
\* handled all there is, a number beyond it.
ackMailbox(c, throughSeq) ==
    /\ \/ throughSeq \in handled[c]
       \/ throughSeq = MaxSeq /\ Seqs \subseteq handled[c]
    /\ cursor' = [cursor EXCEPT ![c] = Acked(c, throughSeq)]
    /\ UNCHANGED <<lastSeq, call, rows, replies, handled, overtaken>>

\* Steps of one consumer and of one sender that are fair: a consumer keeps reading
\* and acknowledging, and a call that was begun ends.
AckProgress(c) == \E t \in 1 .. MaxSeq : ackMailbox(c, t) /\ cursor' # cursor
CallProgress(s) == CommitInsert(s) \/ ConflictInsert(s) \/ SelectExisting(s)

MailboxNext ==
    \/ \E s \in Senders :
          \/ \E id \in Messages : BeginAppend(s, id)
          \/ CallProgress(s) \/ LoseConnection(s)
    \/ \E c \in Consumers :
          \/ HandleMessages(c)
          \/ \E throughSeq \in 1 .. MaxSeq : ackMailbox(c, throughSeq)

MailboxSpec == MailboxInit /\ [][MailboxNext]_mailboxVars

-----------------------------------------------------------------------------
(* Properties. *)

\* However often and from wherever a message is sent, it is one row, and
\* every reply names that row.
AppendIsIdempotent ==
    /\ \A q, r \in rows : q.id = r.id => q = r
    /\ \A p, q \in replies : p.id = q.id => p.seq = q.seq
    /\ \A p \in replies : [seq |-> p.seq, id |-> p.id] \in rows

\* "An ACK beyond the existing mailbox is clamped rather than skipping future
\* messages" (ackMailbox): a message at or below a cursor is one its consumer has
\* handled.  It is claimed of rows that appear in the order of their numbers: one
\* that commits after a higher number may come out below a cursor.
AckSkipsNothing ==
    \A c \in Consumers : \A s \in Seqs \ overtaken : s <= cursor[c] => s \in handled[c]

\* The mailbox is a log (appendMailbox, ackMailbox): a message is in it once,
\* where every reply says it is, and no cursor passes a message unhandled.
MailboxIsALog == AppendIsIdempotent /\ AckSkipsNothing

\* Calls and numbers: a number is drawn for one call and is in the table only if
\* that call put it there; a call that lost to a row selects that row.
MailboxNumbers ==
    /\ lastSeq \in 0 .. MaxSeq
    /\ call \in [Senders -> {NoCall} \cup [pc : {"insert", "select"}, id : Messages, seq : 1 .. lastSeq]]
    /\ rows \subseteq [seq : 1 .. lastSeq, id : Messages]
    /\ replies \subseteq [seq : 1 .. lastSeq, id : Messages, inserted : BOOLEAN]
    /\ \A s \in Senders : call[s].pc = "insert" => call[s].seq \notin Seqs
    /\ \A s, t \in Senders : call[s] # NoCall /\ call[t] # NoCall /\ call[s].seq = call[t].seq => s = t
    /\ cursor \in [Consumers -> Seqs \cup {0}]
    /\ handled \in [Consumers -> SUBSET Seqs]

\* A consumer that has handled a message has handled those before it.
HandledInOrder ==
    \A c \in Consumers : \A t \in handled[c], s \in Seqs \ overtaken : s <= t => s \in handled[c]

\* Inductive: MailboxIsALog is part of it.
MailboxIInv == MailboxNumbers /\ HandledInOrder /\ MailboxIsALog

\* A message that is in the mailbox, and did not come out below a cursor, is
\* handled by every consumer that keeps calling readMailbox and ackMailbox.
EveryRowHandled ==
    \A c \in Consumers, s \in 1 .. MaxSeq : s \in Seqs \ overtaken ~> s \in handled[c]

=============================================================================
