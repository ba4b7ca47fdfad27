----------------------------- MODULE Supervisor -----------------------------
(***************************************************************************)
(* superviseSessionWorkflow (supervisor/workflows.ts): one workflow per    *)
(* interactive session that probes it on a timer, types redirections into  *)
(* it and escalates when it stays blocked, and the schedule that starts it *)
(* again (schedule.ts).  An action is what runs between two awaits; a      *)
(* signal is handled at any of them.                                       *)
(***************************************************************************)
EXTENDS Integers, Sequences, SequencesExt

CONSTANTS
    Texts,             \* redirections people send, each once
    BlockedThreshold,  \* input.blockedThresholdMs
    MaxEscalations,    \* input.maxEscalations
    MaxClock           \* bound on the clock

VARIABLES
    stage,         \* the await: "wait", "poke", "probe", "escalate"; or "ended"
    redirects,     \* queued redirections, the one being typed first
    wake, paused, stopped,
    blockedSince,  \* state.blockedSince, 0 when undefined
    escalations,   \* state.escalations
    clock,
    sent,          \* redirections signalled so far
    typed,         \* history: redirections a poke was made for
    calm, tense    \* history of this supervisor: when probes found the session not blocked, and blocked

supVars == <<stage, redirects, wake, paused, stopped, blockedSince, escalations, clock, sent, typed, calm, tense>>

Fresh == /\ stage' = "wait" /\ redirects' = <<>> /\ wake' = FALSE /\ paused' = FALSE /\ stopped' = FALSE
         /\ blockedSince' = 0 /\ escalations' = 0 /\ calm' = {} /\ tense' = {}

SupInit ==
    /\ stage = "wait" /\ redirects = <<>> /\ wake = FALSE /\ paused = FALSE /\ stopped = FALSE
    /\ blockedSince = 0 /\ escalations = 0 /\ clock = 1 /\ sent = {} /\ typed = {} /\ calm = {} /\ tense = {}

-----------------------------------------------------------------------------
(* What a probe makes of a session. *)

\* A tmux pane: the two commands' outcomes and the markers on the screen.
Panes == [answers : BOOLEAN, dead : BOOLEAN, captured : BOOLEAN, shows : SUBSET {"working", "blocked"}]

ClassifyTmuxPane(shows) == IF "working" \in shows THEN "working" ELSE IF "blocked" \in shows THEN "blocked" ELSE "idle"

ProbeTmux(pane) ==
    CASE ~pane.answers -> "unknown"
      [] pane.answers /\ pane.dead -> "done"
      [] pane.answers /\ ~pane.dead /\ ~pane.captured -> "unknown"
      [] OTHER -> ClassifyTmuxPane(pane.shows)

\* A herdr state document: a status, or anything else.
ClassifyHerdrState(doc) == IF doc \in {"idle", "working", "blocked", "done"} THEN doc ELSE "unknown"

Statuses == {ProbeTmux(pane) : pane \in Panes} \cup {ClassifyHerdrState(doc) : doc \in {"blocked", "garbage"}}

-----------------------------------------------------------------------------
(* The workflow. *)

Signal == stage # "ended" /\ wake' = TRUE /\ UNCHANGED <<stage, blockedSince, escalations, clock, typed, calm, tense>>

Redirect(text) ==
    /\ Signal /\ text \notin sent
    /\ redirects' = Append(redirects, text) /\ sent' = sent \cup {text}
    /\ UNCHANGED <<paused, stopped>>

PauseOrResume(p) == Signal /\ paused' = p /\ UNCHANGED <<redirects, stopped, sent>>
StopSignal == Signal /\ stopped' = TRUE /\ UNCHANGED <<redirects, paused, sent>>

\* The head of the loop, or its end.
Loop(over) == stage' = IF over THEN "ended" ELSE "wait"

\* After the wait and after every poke: the next redirection, then the probe.
Deliver(queue) ==
    \/ queue # <<>> /\ stage' = "poke"
    \/ queue = <<>> /\ ~paused /\ stage' = "probe"
    \/ queue = <<>> /\ paused /\ Loop(stopped)

WaitEnds ==
    /\ wake' = FALSE
    /\ \/ stopped /\ stage' = "ended"
       \/ ~stopped /\ Deliver(redirects)
    /\ UNCHANGED <<redirects, paused, stopped, blockedSince, escalations, clock, sent, typed, calm, tense>>

Woken == stage = "wait" /\ (wake \/ stopped) /\ WaitEnds
TimerFires == stage = "wait" /\ ~(wake \/ stopped) /\ WaitEnds

PokeReturns ==
    /\ stage = "poke"
    /\ typed' = typed \cup {Head(redirects)} /\ redirects' = Tail(redirects)
    /\ Deliver(Tail(redirects))
    /\ UNCHANGED <<wake, paused, stopped, blockedSince, escalations, clock, sent, calm, tense>>

BlockedSince(status) ==
    IF status # "blocked" THEN 0 ELSE IF blockedSince = 0 THEN clock ELSE blockedSince

Escalates(since) == clock - since >= BlockedThreshold /\ escalations < MaxEscalations

ProbeReturns(status) ==
    LET since == BlockedSince(status)
    IN /\ stage = "probe"
       /\ blockedSince' = since
       /\ stopped' = (stopped \/ status = "done")
       /\ IF status = "blocked"
          THEN tense' = tense \cup {clock} /\ UNCHANGED calm
          ELSE calm' = calm \cup {clock} /\ UNCHANGED tense
       /\ IF status = "blocked" /\ Escalates(since)
          THEN stage' = "escalate" /\ escalations' = escalations + 1
          ELSE Loop(stopped') /\ UNCHANGED escalations
       /\ UNCHANGED <<redirects, wake, paused, clock, sent, typed>>

\* Mutated: the wake flag is cleared at the end of the loop's body.
EscalateReturnsAsleep ==
    /\ stage = "escalate" /\ Loop(stopped) /\ wake' = FALSE
    /\ UNCHANGED <<redirects, paused, stopped, blockedSince, escalations, clock, sent, typed, calm, tense>>

EscalateReturns ==
    /\ stage = "escalate" /\ Loop(stopped)
    /\ UNCHANGED <<redirects, wake, paused, stopped, blockedSince, escalations, clock, sent, typed, calm, tense>>

\* An activity out of attempts fails the workflow; the text may have been typed.
ActivityFails ==
    /\ stage \in {"poke", "probe", "escalate"}
    /\ stage' = "ended"
    /\ typed' \in {typed, IF stage = "poke" THEN typed \cup {Head(redirects)} ELSE typed}
    /\ UNCHANGED <<redirects, wake, paused, stopped, blockedSince, escalations, clock, sent, calm, tense>>

\* The schedule starts a supervisor when none is running (overlap SKIP).
ScheduleTick == stage = "ended" /\ Fresh /\ UNCHANGED <<clock, sent, typed>>

ClockTicks == clock < MaxClock /\ clock' = clock + 1 /\ UNCHANGED <<stage, redirects, wake, paused, stopped, blockedSince, escalations, sent, typed, calm, tense>>

SupSteps == Woken \/ PokeReturns \/ (\E status \in Statuses : ProbeReturns(status)) \/ EscalateReturns \/ ActivityFails
Signals == (\E text \in Texts : Redirect(text)) \/ (\E p \in BOOLEAN : PauseOrResume(p)) \/ StopSignal
SupNext == SupSteps \/ Signals \/ TimerFires \/ ScheduleTick \/ ClockTicks

-----------------------------------------------------------------------------
(* A redirection signalled to a running supervisor is typed without waiting    *)
(* for the check-in timer, at whatever await it arrives, unless the supervisor *)
(* ends first (workflows.ts:46, :66).                                          *)
RedirectIsTyped ==
    \A text \in Texts : text \in ToSet(redirects) ~> (text \in typed \/ stage = "ended")

(* An escalation is earned: for at least the threshold, every probe of this    *)
(* supervisor has found the session blocked, and the cap holds                 *)
(* (workflows.ts:89).                                                          *)
EscalationIsEarned ==
    [][stage' = "escalate" =>
         /\ escalations' <= MaxEscalations
         /\ \E t \in tense' : clock - t >= BlockedThreshold /\ \A c \in calm' : c <= t]_supVars

(* The supervisor neither sleeps on what it is told nor cries wolf            *)
(* (workflows.ts:46-100): redirections are typed, escalations are earned.      *)
SupervisorActsInTime == RedirectIsTyped /\ EscalationIsEarned

=============================================================================
