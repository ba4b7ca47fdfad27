---------------------------- MODULE StackRouter ----------------------------
(***************************************************************************)
(* OpenCodeStackModels (open-code-stack-models.ts): one provider served by *)
(* a stack of accounts, then by fallback routes.  candidateAccounts orders *)
(* the healthy accounts, streamOpenCodeStack tries them in turn and        *)
(* pipeAttempt forwards what an attempt streams.                           *)
(*                                                                         *)
(* One JavaScript process: an action is one event of an attempt, with all  *)
(* that runs until the next await.  Failure classes are three: "quota"     *)
(* stands for those that fail over, "auth" for one that cools the account  *)
(* down and does not, "bad_request" for those that do neither.             *)
(***************************************************************************)
EXTENDS Integers, Sequences, FiniteSets

CONSTANTS
    Streams,      \* calls of streamSimple
    LogicalSession, \* per call: its logicalSessionId, or NoSession
    NoSession,
    Accounts,     \* the accounts, in configuration order
    Fallbacks,    \* config.fallbacks, in order
    FallbackOn,   \* per fallback: the failure classes that go on to the next
    HasModel,     \* accounts and fallbacks that know the requested model
    Strategies,   \* of "ordered", "round-robin" and "sticky-least-loaded"
    MaxCooldown,  \* cooldowns last 0 .. MaxCooldown
    MaxTime       \* bound on the clock

Classes == {"quota", "auth", "bad_request"}
LogicalSessions == {LogicalSession[s] : s \in Streams} \ {NoSession}
AccountSet == {Accounts[i] : i \in DOMAIN Accounts}
FallbackSet == {Fallbacks[i] : i \in DOMAIN Fallbacks}
Everywhere == AccountSet \cup FallbackSet

\* Accounts and fallbacks are objects of their own.
ASSUME StackAssumption ==
    /\ Accounts \in Seq(AccountSet) /\ Fallbacks \in Seq(FallbackSet)
    /\ \A i, j \in DOMAIN Accounts : Accounts[i] = Accounts[j] => i = j
    /\ AccountSet \cap FallbackSet = {}

VARIABLES
    strategy,   \* config.openCodeGo.strategy, fixed
    time,
    coolUntil,  \* cooldownUntil of accounts and fallbacks, 0 when undefined
    usedAt,     \* lastUsedAt of each account, 0 when undefined
    flying,     \* health.inFlight of each account
    cursor,     \* roundRobinCursor
    stickyOn,   \* stickySessions: per session its account, or NoSession
    phase,      \* per call: "new", "open" (an attempt streams) or "over"
    left,       \* per call: the current attempt's route, then those that may follow
    committed,  \* per call: pipeAttempt's committed
    visible,    \* history, per call: routes whose semantic output was pushed to outer
    terminals,  \* history, per call: done and error events pushed to outer
    cutOff      \* history: calls with a committed attempt that ended without done or error

stackVars == <<strategy, time, coolUntil, usedAt, flying, cursor, stickyOn, phase, left, committed, visible, terminals, cutOff>>

StackInit ==
    /\ strategy \in Strategies /\ time = 1 /\ coolUntil = [x \in Everywhere |-> 0] /\ usedAt = [a \in AccountSet |-> 0]
    /\ flying = [a \in AccountSet |-> 0] /\ cursor = 0
    /\ stickyOn = [k \in LogicalSessions |-> NoSession]
    /\ phase = [s \in Streams |-> "new"] /\ left = [s \in Streams |-> <<>>]
    /\ committed = [s \in Streams |-> FALSE] /\ visible = [s \in Streams |-> {}]
    /\ terminals = [s \in Streams |-> 0] /\ cutOff = {}

-----------------------------------------------------------------------------
(* candidateAccounts *)

Healthy == {a \in AccountSet : coolUntil[a] <= time}
StickyFor(s) == IF LogicalSession[s] = NoSession THEN NoSession ELSE stickyOn[LogicalSession[s]]
Remaining(s) == Healthy \ {StickyFor(s)}
Order(a) == CHOOSE i \in DOMAIN Accounts : Accounts[i] = a

LessLoaded(a, b) ==
    \/ flying[a] < flying[b]
    \/ flying[a] = flying[b] /\ usedAt[a] < usedAt[b]
    \/ flying[a] = flying[b] /\ usedAt[a] = usedAt[b] /\ Order(a) < Order(b)

\* Where a comes in the remaining accounts when they are rotated by the cursor.
Rotated(s, a) ==
    LET n == Cardinality(Remaining(s))
        place == Cardinality({b \in Remaining(s) : Order(b) < Order(a)})
    IN (place + n - (cursor % n)) % n

Sooner(s, a, b) ==
    \/ a = StickyFor(s) /\ b # a
    \/ /\ {a, b} \subseteq Remaining(s)
       /\ CASE strategy = "ordered" -> Order(a) < Order(b)
            [] strategy = "round-robin" -> Rotated(s, a) < Rotated(s, b)
            [] OTHER -> LessLoaded(a, b)

\* The healthy accounts in the order they are tried: there is one such list.
CandidateAccounts(s) ==
    {q \in [1 .. Cardinality(Healthy) -> Healthy] : \A i, j \in DOMAIN q : i < j => Sooner(s, q[i], q[j])}

-----------------------------------------------------------------------------
(* streamOpenCodeStack *)

IsAccount(x) == x \in AccountSet
Eligible(x) == x \in HasModel /\ (IsAccount(x) \/ coolUntil[x] <= time)

\* The attempt starts on x, and those in q may follow; load is health.inFlight
\* once the attempt before has left it.
StartOn(s, x, q, load) ==
    /\ phase' = [phase EXCEPT ![s] = "open"] /\ left' = [left EXCEPT ![s] = <<x>> \o q]
    /\ flying' = IF IsAccount(x) THEN [load EXCEPT ![x] = @ + 1] ELSE load
    /\ usedAt' = IF IsAccount(x) THEN [usedAt EXCEPT ![x] = time] ELSE usedAt
    /\ UNCHANGED terminals

\* The next attempt starts on the first eligible route of q, or the call ends
\* with an error.
Attempt(s, q, load) ==
    /\ committed' = [committed EXCEPT ![s] = FALSE]
    /\ \/ \E i \in DOMAIN q :
             /\ Eligible(q[i]) /\ \A j \in 1 .. i - 1 : ~Eligible(q[j])
             /\ StartOn(s, q[i], SubSeq(q, i + 1, Len(q)), load)
       \/ /\ \A i \in DOMAIN q : ~Eligible(q[i])
          /\ phase' = [phase EXCEPT ![s] = "over"] /\ left' = [left EXCEPT ![s] = <<>>]
          /\ terminals' = [terminals EXCEPT ![s] = @ + 1]
          /\ flying' = load /\ UNCHANGED usedAt

StreamSimple(s) ==
    /\ phase[s] = "new"
    /\ cursor' = IF strategy = "round-robin" /\ Healthy # {} THEN cursor + 1 ELSE cursor
    /\ \E q \in CandidateAccounts(s) : Attempt(s, q \o Fallbacks, flying)
    /\ UNCHANGED <<strategy, time, coolUntil, stickyOn, visible, cutOff>>

Here(s) == Head(left[s])

Landed(s) == IF IsAccount(Here(s)) THEN [flying EXCEPT ![Here(s)] = IF @ > 0 THEN @ - 1 ELSE 0] ELSE flying

\* The call returns after n more terminal events.
Over(s, n) ==
    /\ phase' = [phase EXCEPT ![s] = "over"] /\ left' = [left EXCEPT ![s] = <<>>]
    /\ committed' = [committed EXCEPT ![s] = FALSE]
    /\ terminals' = [terminals EXCEPT ![s] = @ + n] /\ flying' = Landed(s)
    /\ UNCHANGED usedAt

\* A text, thinking or tool event commits the attempt.
SemanticEvent(s) ==
    /\ phase[s] = "open" /\ ~committed[s]
    /\ committed' = [committed EXCEPT ![s] = TRUE]
    /\ visible' = [visible EXCEPT ![s] = @ \cup {Here(s)}]
    /\ UNCHANGED <<strategy, time, coolUntil, usedAt, flying, cursor, stickyOn, phase, left, terminals, cutOff>>

\* markAccountSuccess or markFallbackSuccess.
DoneEvent(s) ==
    /\ phase[s] = "open"
    /\ visible' = [visible EXCEPT ![s] = @ \cup {Here(s)}]
    /\ coolUntil' = [coolUntil EXCEPT ![Here(s)] = 0]
    /\ stickyOn' = IF IsAccount(Here(s)) /\ LogicalSession[s] # NoSession
                   THEN [stickyOn EXCEPT ![LogicalSession[s]] = Here(s)] ELSE stickyOn
    /\ Over(s, 1)
    /\ UNCHANGED <<strategy, time, cursor, cutOff>>

\* markAccountFailure or markFallbackFailure: a cooldown of 0 clears an account's.
Delays(class) == (IF class = "bad_request" THEN 0 ELSE 1) .. MaxCooldown
MarkFailure(s, d) ==
    /\ coolUntil' = [coolUntil EXCEPT ![Here(s)] = IF d = 0 /\ IsAccount(Here(s)) THEN 0 ELSE time + d]
    /\ UNCHANGED <<strategy, time, cursor, stickyOn, visible>>

ShouldFallback(s, class) == class \in IF IsAccount(Here(s)) THEN {"quota"} ELSE FallbackOn[Here(s)]

FailOver(s, class) ==
    IF ShouldFallback(s, class) THEN Attempt(s, Tail(left[s]), Landed(s)) ELSE Over(s, 1)

\* Mutated: an error after semantic output is retried like one before it.
ErrorEventRetried(s, class, d) ==
    /\ phase[s] = "open" /\ MarkFailure(s, d) /\ FailOver(s, class) /\ UNCHANGED cutOff

\* An error event: final once the attempt is committed.
ErrorEvent(s, class, d) ==
    /\ phase[s] = "open" /\ MarkFailure(s, d)
    /\ IF committed[s] THEN Over(s, 1) ELSE FailOver(s, class)
    /\ UNCHANGED cutOff

\* The stream throws, or ends without a terminal event: pipeAttempt forgets
\* that it was committed.
CutOff(s, class, d) ==
    /\ phase[s] = "open" /\ MarkFailure(s, d) /\ FailOver(s, class)
    /\ cutOff' = IF committed[s] THEN cutOff \cup {s} ELSE cutOff

TimePasses ==
    /\ time < MaxTime /\ time' = time + 1
    /\ UNCHANGED <<strategy, coolUntil, usedAt, flying, cursor, stickyOn, phase, left, committed, visible, terminals, cutOff>>

StackNext ==
    \/ \E s \in Streams : StreamSimple(s) \/ SemanticEvent(s) \/ DoneEvent(s)
    \/ \E s \in Streams, class \in Classes : \E d \in Delays(class) : ErrorEvent(s, class, d) \/ CutOff(s, class, d)
    \/ TimePasses

StackSpec == StackInit /\ [][StackNext]_stackVars

-----------------------------------------------------------------------------

\* The caller's stream ends with exactly one done or error event, whatever the
\* order in which accounts and fallbacks fail.
EndsOnce == \A s \in Streams : terminals[s] = IF phase[s] = "over" THEN 1 ELSE 0

\* health.inFlight, by which candidateAccounts balances load, counts the attempts
\* that stream on the account now: none is lost or left behind by a failover.
InFlightExact ==
    \A a \in AccountSet :
        flying[a] = Cardinality({s \in Streams : phase[s] = "open" /\ Here(s) = a})

\* The package README's safe failover rule: "Once semantic output is visible, the
\* request is committed and is not silently replayed."
SafeFailover ==
    \A s \in Streams :
        visible[s] # {} /\ phase[s] = "open" => visible[s] = {Here(s)}

\* The rule as pipeAttempt keeps it: for calls whose committed attempts all end
\* with a done or an error event.
CommittedNotReplayed ==
    \A s \in Streams \ cutOff :
        visible[s] # {} /\ phase[s] = "open" => visible[s] = {Here(s)}

\* A failover leaves nothing behind (streamOpenCodeStack, pipeAttempt): committed
\* output is not replayed on another account, the caller's stream ends once, and
\* no account stays counted as busy.
FailoverIsClean == CommittedNotReplayed /\ EndsOnce /\ InFlightExact

\* The inductive invariant: what a caller has seen is of the attempt that is
\* committed, if there is one, and finitely many attempts are open.
StackTypes ==
    /\ phase \in [Streams -> {"new", "open", "over"}] /\ left \in [Streams -> Seq(Everywhere)]
    /\ DOMAIN committed = Streams /\ DOMAIN visible = Streams /\ terminals \in [Streams -> Nat]
    /\ flying \in [AccountSet -> Nat]
StreamOpen == {s \in Streams : phase[s] = "open"}
SeenIsCommitted(s) ==
    /\ phase[s] = "open" => left[s] # <<>>
    /\ phase[s] = "new" => visible[s] = {}
    /\ phase[s] = "open" /\ s \notin cutOff => visible[s] = IF committed[s] THEN {Here(s)} ELSE {}
StackIInv ==
    StackTypes /\ IsFiniteSet(StreamOpen) /\ (\A s \in Streams : SeenIsCommitted(s)) /\ EndsOnce /\ InFlightExact

=============================================================================
