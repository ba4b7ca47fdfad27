---------------------------- MODULE DurableAgent ----------------------------
(***************************************************************************)
(* durableAgentWorkflow (src/integrations/temporal/src/workflows.ts) with  *)
(* the runTurn activity it drives.                                         *)
(*                                                                         *)
(* Workflow code runs atomically between awaits and is replayed after a    *)
(* worker crash, so its state survives; signals are applied while it is    *)
(* suspended.  pc names the await the workflow is suspended at.  A crash,  *)
(* a missed heartbeat or a provider error is a failed attempt of runTurn.  *)
(***************************************************************************)
EXTENDS Naturals, Sequences, FiniteSetsExt

CONSTANTS
    Messages,        \* messages clients send, each by one sendMessage signal
    Hints,           \* retryAfterMs values a transient failure may carry
    NoHint,          \* ... and "it carries none"
    Overrides,       \* values of state.parkBackoff: [initialMs, maxMs]
    NoOverride,      \* ... and "absent"
    MaximumAttempts, \* retry.maximumAttempts of the runTurn proxy
    MaxParks         \* bound: parkAttempt

ASSUME DurableAgentAssumption ==
    /\ MaximumAttempts \in Nat \ {0}
    /\ MaxParks \in Nat
    /\ Hints \subseteq Nat
    /\ \A o \in Overrides : o.initialMs \in Nat /\ o.maxMs \in Nat

VARIABLES
    pc,           \* "idle" (line 76), "turn" (line 89), "parked", "done"
    status,       \* state.status
    mailbox,      \* state.mailbox
    parkBackoff,  \* state.parkBackoff
    cancelled, wake, parkAttempt,
    given,        \* the messages passed to runTurn; consumedCount is its length
    attempt,      \* the attempt of runTurn that is running
    parkMs,       \* the timeout of the park's condition()
    sent,         \* history: every message accepted, in order
    handled       \* history: the messages of turns that returned "idle"

vars == <<pc, status, mailbox, parkBackoff, cancelled, wake, parkAttempt, given,
          attempt, parkMs, sent, handled>>

Statuses == {"idle", "running", "waiting", "completed", "failed", "cancelled"}

ControlTypeOK ==
    /\ pc \in {"idle", "turn", "parked", "done"}
    /\ status \in Statuses
    /\ mailbox \in Seq(Messages)
    /\ parkBackoff \in Overrides \cup {NoOverride}
    /\ cancelled \in BOOLEAN /\ wake \in BOOLEAN
    /\ parkAttempt \in Nat
    /\ given \in Seq(Messages)
    /\ attempt \in 1 .. MaximumAttempts
    /\ sent \in Seq(Messages)
    /\ handled \in Seq(Messages)

TypeOK == ControlTypeOK /\ parkMs \in Nat

-----------------------------------------------------------------------------
(* Pure helpers of correlation.ts. *)

MAX_PARK_HINT_MS == 60 * 60 * 1000
DEFAULT_PARK_BACKOFF == [initialMs |-> 5000, maxMs |-> 300000]

\* clampParkHintMs: NoHint unless the hint is positive and at most one hour.
clampParkHintMs(hint) ==
    IF hint = NoHint \/ hint <= 0 \/ hint > MAX_PARK_HINT_MS THEN NoHint ELSE hint

\* nextParkBackoffMs: doubling from initialMs, capped; each field of an
\* override that is not positive falls back to the default.
nextParkBackoffMs(k, override) ==
    LET field(f) == IF override # NoOverride /\ override[f] > 0
                    THEN override[f] ELSE DEFAULT_PARK_BACKOFF[f]
        initialMs == field("initialMs")
    IN  Min({initialMs * 2^(IF k = 0 THEN 0 ELSE k - 1),
             Max({initialMs, field("maxMs")})})

-----------------------------------------------------------------------------
Init ==
    /\ pc = "idle" /\ status = "idle"
    /\ mailbox \in {<<>>} \cup {<<m>> : m \in Messages}
    /\ parkBackoff \in Overrides \cup {NoOverride}
    /\ cancelled = FALSE
    /\ wake = (mailbox # <<>>)
    /\ parkAttempt = 0
    /\ given = <<>> /\ attempt = 1 /\ parkMs = 0
    /\ sent = mailbox /\ handled = <<>>

\* The sendMessage handler; a closed workflow takes no signal.
SendMessage(m) ==
    /\ pc # "done"
    /\ \A i \in DOMAIN sent : sent[i] # m
    /\ mailbox' = Append(mailbox, m)
    /\ sent' = Append(sent, m)
    /\ wake' = TRUE
    /\ UNCHANGED <<pc, status, parkBackoff, cancelled, parkAttempt, given, attempt, parkMs, handled>>

\* The cancelAgent handler.
CancelAgent ==
    /\ pc # "done" /\ ~cancelled
    /\ cancelled' = TRUE /\ wake' = TRUE
    /\ UNCHANGED <<pc, status, mailbox, parkBackoff, parkAttempt, given, attempt, parkMs, sent, handled>>

\* Mutated: only a signal ends the wait, not what is left in the mailbox.
StartTurnOnWakeOnly ==
    /\ pc = "idle" /\ ~cancelled
    /\ wake
    /\ wake' = FALSE
    /\ IF mailbox = <<>>
       THEN UNCHANGED <<pc, status, given, attempt>>
       ELSE /\ pc' = "turn" /\ status' = "running"
            /\ given' = mailbox
            /\ attempt' = 1
    /\ UNCHANGED <<mailbox, parkBackoff, cancelled, parkAttempt, parkMs, sent, handled>>

\* Lines 76-93: from the wait at the head of the loop to the call of runTurn.
StartTurn ==
    /\ pc = "idle" /\ ~cancelled
    /\ wake \/ mailbox # <<>>
    /\ wake' = FALSE
    /\ IF mailbox = <<>>
       THEN UNCHANGED <<pc, status, given, attempt>>
       ELSE /\ pc' = "turn" /\ status' = "running"
            /\ given' = mailbox
            /\ attempt' = 1
    /\ UNCHANGED <<mailbox, parkBackoff, cancelled, parkAttempt, parkMs, sent, handled>>

\* The loop is left by a cancel seen at an await that does not run a turn.
LeaveCancelled ==
    /\ pc \in {"idle", "parked"} /\ cancelled
    /\ pc' = "done" /\ status' = "cancelled"
    /\ UNCHANGED <<mailbox, parkBackoff, cancelled, wake, parkAttempt, given, attempt, parkMs, sent, handled>>

\* Back to the loop's condition with state.status = s: it ends the workflow on
\* a terminal status or a cancel, and a cancel overrides the status.
LoopOrEnd(s) ==
    IF cancelled THEN pc' = "done" /\ status' = "cancelled"
    ELSE /\ status' = s
         /\ pc' = IF s \in {"completed", "failed"} THEN "done" ELSE "idle"

Park(ms) ==
    /\ pc' = "parked" /\ status' = "waiting"
    /\ parkMs' = ms

\* Mutated: the whole mailbox is cleared, with what arrived during the turn.
TurnIdleClears ==
    /\ pc = "turn"
    /\ LoopOrEnd("idle")
    /\ parkAttempt' = 0
    /\ mailbox' = <<>>
    /\ handled' = handled \o given
    /\ UNCHANGED <<parkBackoff, cancelled, wake, given, attempt, parkMs, sent>>

\* runTurn returned "idle" (or no state): splice off what this turn was given.
TurnIdle ==
    /\ pc = "turn"
    /\ LoopOrEnd("idle")
    /\ parkAttempt' = 0
    /\ mailbox' = SubSeq(mailbox, Len(given) + 1, Len(mailbox))
    /\ handled' = handled \o given
    /\ UNCHANGED <<parkBackoff, cancelled, wake, given, attempt, parkMs, sent>>

TurnCompleted ==
    /\ pc = "turn"
    /\ LoopOrEnd("completed")
    /\ parkAttempt' = 0
    /\ UNCHANGED <<mailbox, parkBackoff, cancelled, wake, given, attempt, parkMs, sent, handled>>

\* runTurn returned "waiting": park with the blind backoff.
TurnWaiting ==
    /\ pc = "turn"
    /\ parkAttempt < MaxParks
    /\ parkAttempt' = parkAttempt + 1
    /\ Park(nextParkBackoffMs(parkAttempt + 1, parkBackoff))
    /\ UNCHANGED <<mailbox, parkBackoff, cancelled, wake, given, attempt, sent, handled>>

\* A non-retryable failure is not retried and ends the agent.
TurnFailsPermanently ==
    /\ pc = "turn"
    /\ LoopOrEnd("failed")
    /\ UNCHANGED <<mailbox, parkBackoff, cancelled, wake, parkAttempt, given, attempt, parkMs, sent, handled>>

\* A transient failure of an attempt Temporal still retries.
AttemptFails ==
    /\ pc = "turn" /\ attempt < MaximumAttempts
    /\ attempt' = attempt + 1
    /\ UNCHANGED <<pc, status, mailbox, parkBackoff, cancelled, wake, parkAttempt, given, parkMs, sent, handled>>

\* A transient failure of the last attempt: park for the server's hint, which
\* does not count as an attempt, or for the blind backoff.
TurnFailsTransiently(hint) ==
    /\ pc = "turn" /\ attempt = MaximumAttempts
    /\ IF clampParkHintMs(hint) # NoHint
       THEN Park(clampParkHintMs(hint)) /\ UNCHANGED parkAttempt
       ELSE /\ parkAttempt < MaxParks
            /\ parkAttempt' = parkAttempt + 1
            /\ Park(nextParkBackoffMs(parkAttempt + 1, parkBackoff))
    /\ UNCHANGED <<mailbox, parkBackoff, cancelled, wake, given, attempt, sent, handled>>

\* The park's timeout fires.
Unpark ==
    /\ pc = "parked" /\ ~cancelled
    /\ pc' = "idle"
    /\ UNCHANGED <<status, mailbox, parkBackoff, cancelled, wake, parkAttempt, given, attempt, parkMs, sent, handled>>

TurnReturns == TurnIdle \/ TurnCompleted \/ TurnFailsPermanently

TurnEnds ==
    \/ TurnReturns
    \/ TurnWaiting
    \/ AttemptFails
    \/ \E hint \in Hints \cup {NoHint} : TurnFailsTransiently(hint)

\* A closed workflow stays as it is.
Closed == pc = "done" /\ UNCHANGED vars

Next ==
    \/ \E m \in Messages : SendMessage(m)
    \/ CancelAgent
    \/ StartTurn
    \/ LeaveCancelled
    \/ TurnEnds
    \/ Unpark
    \/ Closed

Spec == Init /\ [][Next]_vars

\* Temporal runs every workflow task and fires every timer, and an attempt of
\* runTurn ends, at the latest by its heartbeat or start-to-close timeout.
Fairness ==
    /\ WF_vars(StartTurn)
    /\ WF_vars(LeaveCancelled)
    /\ WF_vars(Unpark)
    /\ WF_vars(TurnEnds)

FairSpec == Spec /\ Fairness

\* An assumption on the provider, not on the code: a turn that is tried again
\* and again is some day answered.
ProviderRecovers == SF_vars(TurnReturns)

-----------------------------------------------------------------------------
(* Properties. *)

\* No message is lost, duplicated or reordered: what idle turns were given,
\* followed by what is still queued, is exactly what was signalled, through
\* signals during turns, parks, retries and cancels (the splice of line 120).
MailboxConserved == handled \o mailbox = sent

\* A turn whose messages stay queued is never run again without a park in
\* between: from a turn straight back to the loop means messages were consumed
\* ("a deferring activity can never busy-loop the workflow").
NoBusyLoop ==
    [][pc = "turn" /\ pc' = "idle" => Len(handled') > Len(handled)]_vars

\* The next turn after a park is given everything the failed turn was given,
\* first and in the same order ("the same turn is retried").
RetryKeepsTurn ==
    [][StartTurn /\ status = "waiting" => given = SubSeq(given', 1, Len(given))]_vars

\* What the workflow's documentation says of the mailbox: a message that
\* arrives while the activity is in flight is processed, not discarded.  A run
\* that ended by completion leaves no message that no turn was ever given.
MidTurnMessagesProcessed ==
    pc = "done" /\ status = "completed" => Len(mailbox) <= Len(given)

\* Every park is a real wait and a bounded one, whatever the hint or the
\* override: positive, and at most one hour or the override's own cap.
ParkIsBounded ==
    pc = "parked" =>
        /\ parkMs > 0
        /\ \/ parkMs <= MAX_PARK_HINT_MS
           \/ parkBackoff # NoOverride /\ parkMs <= Max({parkBackoff.initialMs, parkBackoff.maxMs})

\* A cancel ends the workflow, also while a turn runs or the agent is parked.
CancelEnds == cancelled ~> pc = "done"

\* If the provider recovers, every message is consumed by a turn, unless the
\* workflow ends first.
EveryMessageHandled ==
    ProviderRecovers => \A m \in Messages :
        (\E i \in DOMAIN sent : sent[i] = m) ~>
            (pc = "done" \/ \E i \in DOMAIN handled : handled[i] = m)

\* The agent never stands still (durableAgent's loop): messages are handled, a
\* cancel is honoured, and a park ends.
AgentMakesProgress == EveryMessageHandled /\ CancelEnds /\ []ParkIsBounded

\* The workflow implements the mailbox contract.
Mailbox == INSTANCE MailboxLog
    WITH log <- sent, delivered <- handled, closed <- (pc = "done")

ImplementsMailbox == Mailbox!Spec

-----------------------------------------------------------------------------
\* A turn that runs, and one that waits to be retried, was given a nonempty
\* prefix of the mailbox: signals only append, and only "idle" splices.
GivenStaysQueued ==
    pc = "turn" \/ status = "waiting" =>
        /\ given # <<>> /\ Len(given) <= Len(mailbox)
        /\ given = SubSeq(mailbox, 1, Len(given))

\* Inductive: without the prefix the splice could drop what it was not given.
\* parkMs plays no part in it.
IInv == ControlTypeOK /\ GivenStaysQueued /\ MailboxConserved

=============================================================================
