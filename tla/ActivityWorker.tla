---------------------------- MODULE ActivityWorker ----------------------------
(***************************************************************************)
(* A failed turn, from the gateway's reply to what the workflow does about *)
(* it: runTurn reads the reply (integrations/temporal/src/                 *)
(* gateway-run-turn.ts, src/inference/gateway/retry-hint.ts), the          *)
(* interceptors around the attempt (activity-interceptors.ts) trace it and *)
(* remember why it failed, the worker processes (worker.ts) drain and die, *)
(* the server retries, and the workflow classifies the failure that is     *)
(* left (correlation.ts).  The effects of a turn are TurnReceipts'.        *)
(*                                                                         *)
(* The server hands the attempts of an activity to whichever process       *)
(* polls; the map of failures is per process and bounded.  The trace sink  *)
(* may throw.  A failure is a chain of causes, outermost first; the        *)
(* message of a cause is <<activity, attempt>>, the failure it tells of.   *)
(***************************************************************************)
EXTENDS Integers, Sequences

CONSTANTS
    Hosts,          \* worker processes
    Jobs,           \* runTurn activities: workflow, run, type and activity id
    Inputs,         \* a function: the RunTurnInput of each
    Replies,        \* a function: what the gateway may answer each
    MaxTries,       \* the retry policy's maximumAttempts
    MaxRemembered,  \* MAX_LAST_FAILURE_ENTRIES
    MaxMishaps,     \* bound: sinks that throw and processes that die
    EpochSeconds, EpochMs,  \* above these a reset is epoch seconds, epoch milliseconds
    WorkerNow       \* the worker's clock, in milliseconds

Headers == {"retryAfter", "reset", "date"}

\* No process is nowhere; times are integers, and every reply has its headers.
ASSUME WorkerAssumption ==
    /\ "nowhere" \notin Hosts /\ {EpochSeconds, EpochMs, WorkerNow} \subseteq Int
    /\ \A j \in Jobs : \A reply \in Replies[j] : \A name \in Headers : reply.headers[name].value \in Int

VARIABLES
    knowsMax,       \* options.maxAttempts is set
    host,           \* per process "ready", "draining" or "stopped"
    lastFailure,    \* per process the map, oldest entry first: <<activity, message>>
    job,            \* per activity: its attempt, at the server and in its process
    unended,        \* history: the attempts whose start span has no end or error span
    final,          \* history: activities that ran, or failed for good
    mishap,         \* history: activities with an attempt whose sink threw or whose process died
    mishaps

workerVars == <<knowsMax, host, lastFailure, job, unended, final, mishap, mishaps>>

Nowhere == "nowhere"
NoReason == <<Nowhere, 0>>
NoReply == [status |-> 0]
NoHintMs == -1
Unstarted == [at |-> "pending", attempt |-> 0, on |-> Nowhere, reason |-> NoReason, error |-> << >>,
              reply |-> NoReply, tags |-> {}, verdict |-> <<"none", 0>>]

Mishap(js) == mishaps < MaxMishaps /\ mishaps' = mishaps + 1 /\ mishap' = mishap \cup js
NoMishap == UNCHANGED <<mishaps, mishap>>

-----------------------------------------------------------------------------
(* retry-hint.ts.  A header is [form, value]; form "none" if it is absent.     *)

referenceNow(headers) == IF headers.date.form = "date" THEN headers.date.value ELSE WorkerNow

ResetMs(headers) ==
    LET value == headers.reset.value
    IN  IF value > EpochMs THEN value - referenceNow(headers)
        ELSE IF value > EpochSeconds THEN value * 1000 - referenceNow(headers)
        ELSE value * 1000

parseRetryHintMs(headers) ==
    CASE headers.retryAfter.form = "seconds" -> headers.retryAfter.value * 1000
      [] headers.retryAfter.form = "date" -> headers.retryAfter.value - referenceNow(headers)
      [] headers.retryAfter.form \in {"none", "junk"} /\ headers.reset.form = "number" -> ResetMs(headers)
      [] OTHER -> NoHintMs

-----------------------------------------------------------------------------
(* The body, gateway-run-turn.ts.  An input is [agent, kinds, rung, scored]:   *)
(* the kinds of its messages, "" for an untyped one.  A reply is [status,      *)
(* headers, events]: events the classes of a reply that parses, else "junk".   *)

PERMANENT_HTTP_STATUSES == {400, 401, 402, 403, 404, 422}

Cause(message, nonRetryable, hint) == [message |-> message, nonRetryable |-> nonRetryable, hint |-> hint]
Plain(message) == <<Cause(message, FALSE, NoHintMs)>>

toTemporalError(reply, message) ==
    CASE reply.status \in PERMANENT_HTTP_STATUSES -> <<Cause(message, TRUE, NoHintMs)>>
      [] reply.status \in {429, 503} -> <<Cause(message, FALSE, parseRetryHintMs(reply.headers))>>
      [] OTHER -> Plain(message)

\* assertRungAllowedForScored: only the sandbox rung is isolated; no rung runs no effect.
RungAllowed(input) == input.scored => input.rung # "synthetic"

\* parseClassifications: one class for each message, in order.
Classified(input, reply) == reply.events # <<"junk">> /\ Len(reply.events) = Len(input.kinds)

\* What an attempt throws on this reply; << >> if it returns.
TurnError(input, reply, message) ==
    CASE ~RungAllowed(input) -> Plain(message)
      [] RungAllowed(input) /\ reply.status # 200 -> toTemporalError(reply, message)
      [] RungAllowed(input) /\ reply.status = 200 /\ ~Classified(input, reply) -> Plain(message)
      [] OTHER -> << >>

-----------------------------------------------------------------------------
(* correlation.ts.                                                             *)

MAX_PARK_HINT == 60 * 60 * 1000

rootCauseMessage(error) == error[Len(error)].message

\* Mutated: only the failure itself is looked at.
isNonRetryableFailureOutermost(error) == error[1].nonRetryable

isNonRetryableFailure(error) == \E i \in DOMAIN error : error[i].nonRetryable

retryAfterMsFromError(error) ==
    LET hinted == {i \in DOMAIN error : error[i].hint # NoHintMs}
    IN  IF hinted = {} THEN NoHintMs ELSE error[CHOOSE i \in hinted : \A k \in hinted : i <= k].hint

agentIdFromArgs(input) == input.agent
messageKindFromArgs(input) == IF input.kinds = << >> THEN "" ELSE input.kinds[Len(input.kinds)]
rungFromArgs(input) == input.rung

\* The fields that are there.
compactCorrelation(input) ==
    {field \in {<<"agentId", agentIdFromArgs(input)>>, <<"messageKind", messageKindFromArgs(input)>>,
                <<"rung", rungFromArgs(input)>>} : field[2] # ""}

-----------------------------------------------------------------------------
(* lastFailure: an activity has at most one entry.                             *)

Without(map, j) ==
    IF \A i \in DOMAIN map : map[i][1] # j THEN map
    ELSE LET own == CHOOSE i \in DOMAIN map : map[i][1] = j
         IN  [i \in 1 .. Len(map) - 1 |-> IF i < own THEN map[i] ELSE map[i + 1]]
Remembered(map, j) ==
    IF \A i \in DOMAIN map : map[i][1] # j THEN NoReason ELSE map[CHOOSE i \in DOMAIN map : map[i][1] = j][2]

\* rememberFailure: the entry moves to the end, and the oldest is evicted.
rememberFailure(map, j, message) ==
    LET longer == Append(Without(map, j), <<j, message>>)
    IN  IF Len(longer) > MaxRemembered THEN Tail(longer) ELSE longer

-----------------------------------------------------------------------------
WorkerInit ==
    /\ knowsMax \in BOOLEAN /\ host = [h \in Hosts |-> "ready"] /\ lastFailure = [h \in Hosts |-> << >>]
    /\ job = [j \in Jobs |-> Unstarted]
    /\ unended = {} /\ final = {} /\ mishap = {} /\ mishaps = 0

On(j) == job[j].on
Attempt(j) == <<j, job[j].attempt>>
InFlightAt(h) == {j \in Jobs : On(j) = h}

\* Mutated: the newest failure of the process is the reason, whoever's it is.
DispatchAnyReason(j, h) ==
    /\ job[j].at = "pending" /\ host[h] = "ready"
    /\ LET n == job[j].attempt + 1 IN
       job' = [job EXCEPT ![j] = [Unstarted EXCEPT !.at = "start", !.attempt = n, !.on = h,
                   !.reason = IF n > 1 /\ lastFailure[h] # << >> THEN lastFailure[h][Len(lastFailure[h])][2] ELSE NoReason]]
    /\ NoMishap /\ UNCHANGED <<knowsMax, host, lastFailure, unended, final>>

\* A process that polls gets the attempt; the factory looks up why it is a retry.
Dispatch(j, h) ==
    /\ job[j].at = "pending" /\ host[h] = "ready"
    /\ LET n == job[j].attempt + 1 IN
       job' = [job EXCEPT ![j] = [Unstarted EXCEPT !.at = "start", !.attempt = n, !.on = h,
                   !.reason = IF n > 1 THEN Remembered(lastFailure[h], j) ELSE NoReason]]
    /\ NoMishap /\ UNCHANGED <<knowsMax, host, lastFailure, unended, final>>

\* What the server makes of a failed attempt.
Failing(j, error) ==
    [job[j] EXCEPT !.on = Nowhere, !.error = error,
                   !.at = IF error[1].nonRetryable \/ job[j].attempt = MaxTries THEN "failed" ELSE "pending"]

\* execute up to the body: a sink that throws fails the attempt, outside the try.
Start(j) ==
    /\ job[j].at = "start"
    /\ \/ /\ NoMishap /\ unended' = unended \cup {Attempt(j)}
          /\ job' = [job EXCEPT ![j] = [@ EXCEPT !.at = "body", !.tags = compactCorrelation(Inputs[j])]]
       \/ /\ Mishap({j}) /\ UNCHANGED unended
          /\ job' = [job EXCEPT ![j] = Failing(j, Plain(Attempt(j)))]
    /\ UNCHANGED <<knowsMax, host, lastFailure, final>>

\* The catch, up to the error span.
Caught(j, error, reply) ==
    LET message == rootCauseMessage(error)
    IN  /\ job' = [job EXCEPT ![j] = [@ EXCEPT !.at = "error", !.reason = message, !.error = error, !.reply = reply]]
        /\ lastFailure' = [lastFailure EXCEPT ![On(j)] =
               IF knowsMax /\ job[j].attempt >= MaxTries THEN Without(@, j) ELSE rememberFailure(@, j, message)]

\* next(input): the turn returns or throws.
RunTurn(j, reply) ==
    LET error == TurnError(Inputs[j], reply, Attempt(j))
    IN  /\ job[j].at = "body"
        /\ IF error = << >>
           THEN job' = [job EXCEPT ![j] = [@ EXCEPT !.at = "end", !.reply = reply]] /\ UNCHANGED lastFailure
           ELSE Caught(j, error, reply)
        /\ final' = IF error = << >> \/ isNonRetryableFailure(error) THEN final \cup {j} ELSE final
        /\ NoMishap /\ UNCHANGED <<knowsMax, host, unended>>

\* The end span: a sink that throws turns the success into a failure.
EmitEnd(j) ==
    /\ job[j].at = "end"
    /\ \/ /\ NoMishap /\ unended' = unended \ {Attempt(j)}
          /\ job' = [job EXCEPT ![j] = [@ EXCEPT !.at = "done", !.on = Nowhere]]
          /\ lastFailure' = [lastFailure EXCEPT ![On(j)] = Without(@, j)]
       \/ Mishap({j}) /\ Caught(j, Plain(Attempt(j)), job[j].reply) /\ UNCHANGED unended
    /\ UNCHANGED <<knowsMax, host, final>>

\* The error span, and the failure is thrown again; a sink that throws replaces it.
EmitError(j) ==
    /\ job[j].at = "error"
    /\ \/ /\ NoMishap /\ unended' = unended \ {Attempt(j)}
          /\ job' = [job EXCEPT ![j] = Failing(j, job[j].error)]
       \/ /\ Mishap({j}) /\ UNCHANGED unended
          /\ job' = [job EXCEPT ![j] = Failing(j, Plain(Attempt(j)))]
    /\ UNCHANGED <<knowsMax, host, lastFailure, final>>

\* What the workflow does about a failure.
VerdictOn(error) ==
    LET raw == retryAfterMsFromError(error)
    IN  CASE isNonRetryableFailure(error) -> <<"fails", 0>>
          [] ~isNonRetryableFailure(error) /\ raw > 0 /\ raw <= MAX_PARK_HINT -> <<"waits", raw>>
          [] ~isNonRetryableFailure(error) /\ raw > MAX_PARK_HINT -> <<"quota exhausted", 0>>
          [] OTHER -> <<"backs off", 0>>

\* Its catch: it gets an ActivityFailure around the last attempt's failure.
WorkflowCatches(j) ==
    /\ job[j].at = "failed"
    /\ job' = [job EXCEPT ![j] = [@ EXCEPT !.at = "caught", !.verdict = VerdictOn(Plain(Attempt(j)) \o job[j].error)]]
    /\ NoMishap /\ UNCHANGED <<knowsMax, host, lastFailure, unended, final>>

-----------------------------------------------------------------------------
(* runTemporalWorker.                                                          *)

\* SIGTERM: /healthz answers 503 and the worker polls no more.
Drain(h) ==
    /\ host[h] = "ready" /\ host' = [host EXCEPT ![h] = "draining"]
    /\ NoMishap /\ UNCHANGED <<knowsMax, lastFailure, job, unended, final>>

\* runUntil returns when nothing is in flight.
Drained(h) ==
    /\ host[h] = "draining" /\ InFlightAt(h) = {} /\ host' = [host EXCEPT ![h] = "stopped"]
    /\ NoMishap /\ UNCHANGED <<knowsMax, lastFailure, job, unended, final>>

\* The process dies, or its grace time ends: the server times its attempts out.
Dies(h) ==
    /\ host[h] # "stopped" /\ Mishap(InFlightAt(h)) /\ host' = [host EXCEPT ![h] = "stopped"]
    /\ job' = [j \in Jobs |-> IF On(j) = h THEN Failing(j, Plain(Attempt(j))) ELSE job[j]]
    /\ UNCHANGED <<knowsMax, lastFailure, unended, final>>

\* The next process starts with an empty map.
StartWorker(h) ==
    /\ host[h] = "stopped" /\ host' = [host EXCEPT ![h] = "ready"]
    /\ lastFailure' = [lastFailure EXCEPT ![h] = << >>]
    /\ NoMishap /\ UNCHANGED <<knowsMax, job, unended, final>>

WorkerNext ==
    \/ \E j \in Jobs : \/ \E h \in Hosts : Dispatch(j, h)
                       \/ Start(j) \/ EmitEnd(j) \/ EmitError(j) \/ WorkflowCatches(j)
                       \/ \E reply \in Replies[j] : RunTurn(j, reply)
    \/ \E h \in Hosts : Drain(h) \/ Drained(h) \/ Dies(h) \/ StartWorker(h)

WorkerSpec == WorkerInit /\ [][WorkerNext]_workerVars

-----------------------------------------------------------------------------
\* The retry reason an attempt reports is a failure of an earlier attempt of the
\* same activity, whatever other activities fail in the same process
\* (failureKey, rememberFailure); and unless a sink threw or a process died
\* under it, an activity that ran or failed for good has no further attempt and
\* every attempt that is over has ended its span (execute of
\* createSynthActivityInterceptors).
AttemptsAreAccounted ==
    \A j \in Jobs :
        /\ job[j].reason # NoReason => /\ job[j].reason[1] = j
                                       /\ job[j].at \in {"start", "body"} => job[j].reason[2] < job[j].attempt
        /\ j \notin mishap =>
              /\ j \in final => job[j].at \notin {"pending", "start", "body"}
              /\ \A n \in 1 .. MaxTries : <<j, n>> \in unended => n = job[j].attempt /\ On(j) # Nowhere

\* What a reply calls for.
Befits(verdict, reply) ==
    LET hint == parseRetryHintMs(reply.headers)
        hinted == reply.status \in {429, 503} /\ hint > 0 /\ hint <= MAX_PARK_HINT
    IN  /\ verdict[1] = "fails" <=> reply.status \in PERMANENT_HTTP_STATUSES
        /\ verdict[1] = "waits" <=> hinted
        /\ hinted => verdict[2] = hint

\* What the workflow does about a turn that failed is what the gateway's last
\* reply calls for, through the engine's error, Temporal's failure and the
\* activity failure around it: it ends the agent exactly for a permanent
\* status, and waits exactly the time a 429 or 503 gave, if that is usable
\* (PERMANENT_HTTP_STATUSES, toTemporalError, the catch of durableAgentWorkflow).
VerdictFollowsReply ==
    \A j \in Jobs : job[j].at = "caught" /\ j \notin mishap /\ RungAllowed(Inputs[j]) => Befits(job[j].verdict, job[j].reply)

-----------------------------------------------------------------------------
(* The invariants that make these two inductive.                               *)

InProcess == {"start", "body", "end", "error"}
Failures == Jobs \X Nat
Causes == [message : Failures, nonRetryable : BOOLEAN, hint : Int]
Errors == {error \in Seq(Causes) : Len(error) <= 1}
AnyReply == {NoReply} \cup (UNION {Replies[j] : j \in Jobs})
AnyTags == {compactCorrelation(Inputs[j]) : j \in Jobs} \cup {{}}
Verdicts == {"none", "fails", "waits", "quota exhausted", "backs off"} \X Int

JobRecords ==
    [at : InProcess \cup {"pending", "failed", "done", "caught"}, attempt : Nat, on : Hosts \cup {Nowhere},
     reason : Failures \cup {NoReason}, error : Errors, reply : AnyReply, tags : AnyTags, verdict : Verdicts]

WorkerTypes == lastFailure \in [Hosts -> Seq(Jobs \X Failures)] /\ job \in [Jobs -> JobRecords] /\ unended \subseteq Failures

\* A remembered failure is of an attempt before this one, or of this one once it
\* has failed.
Recalled(j) ==
    \A h \in Hosts : \A i \in DOMAIN lastFailure[h] : lastFailure[h][i][1] = j =>
        /\ lastFailure[h][i][2][1] = j /\ lastFailure[h][i][2][2] <= job[j].attempt
        /\ job[j].at \in {"start", "body", "end"} => lastFailure[h][i][2][2] < job[j].attempt

\* An attempt is in a process until it is over, has an open span only there, and
\* reports a failure of its own activity.
AttemptKept(j) ==
    /\ job[j].at \in InProcess <=> On(j) # Nowhere
    /\ job[j].reason # NoReason => /\ job[j].reason[1] = j
                                   /\ job[j].at \in {"start", "body"} => job[j].reason[2] < job[j].attempt
    /\ j \notin mishap =>
          /\ j \in final => job[j].at \notin {"pending", "start", "body"}
          /\ j \in final /\ job[j].at = "error" => job[j].error[1].nonRetryable
          /\ \A span \in unended : span[1] = j => span[2] = job[j].attempt /\ On(j) # Nowhere

\* Unless something went wrong around it, a failure is the one its reply calls
\* for, and so is what the workflow does about it.
FailureKept(j) ==
    j \notin mishap =>
        /\ job[j].at \in {"error", "failed"} =>
              /\ job[j].reply \in Replies[j] /\ job[j].error # << >>
              /\ job[j].error = TurnError(Inputs[j], job[j].reply, Attempt(j))
        /\ job[j].at = "caught" /\ RungAllowed(Inputs[j]) => Befits(job[j].verdict, job[j].reply)

WorkerIInv == WorkerTypes /\ \A j \in Jobs : Recalled(j) /\ AttemptKept(j) /\ FailureKept(j)
=============================================================================
