----------------------------- MODULE MailboxLog -----------------------------
(***************************************************************************)
(* What a durable mailbox promises its senders: messages form one log in   *)
(* the order they were accepted, a consumer takes them off the front, each *)
(* at most once and with none skipped, and nothing happens to a mailbox    *)
(* that has been closed.                                                   *)
(***************************************************************************)
EXTENDS Naturals, Sequences

CONSTANT Messages

VARIABLES
    log,       \* the messages accepted, in order
    delivered, \* the messages consumed, in order
    closed     \* the mailbox accepts and delivers nothing more

Init ==
    /\ log \in Seq(Messages)
    /\ delivered = <<>>
    /\ closed = FALSE

Accept(m) ==
    /\ ~closed
    /\ log' = Append(log, m)
    /\ UNCHANGED <<delivered, closed>>

\* A batch is taken: delivered grows to a longer prefix of the log.
Take ==
    /\ ~closed
    /\ \E n \in Len(delivered) + 1 .. Len(log) : delivered' = SubSeq(log, 1, n)
    /\ UNCHANGED log

Close ==
    /\ ~closed
    /\ closed' = TRUE
    /\ UNCHANGED log

\* The last batch may be taken in the step that closes the mailbox.
Next ==
    \/ \E m \in Messages : Accept(m)
    \/ Take /\ UNCHANGED closed
    \/ Close /\ (Take \/ UNCHANGED delivered)

Spec == Init /\ [][Next]_<<log, delivered, closed>>

=============================================================================
