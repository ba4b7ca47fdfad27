---------------------------- MODULE TurnReceipts ----------------------------
(***************************************************************************)
(* The runTurn activity of one agent (integrations/temporal/src/           *)
(* gateway-run-turn.ts) and its effect receipts (receipt-store.ts).        *)
(*                                                                         *)
(* A turn is an activity; an activity is tried up to MaxAttempts times, on *)
(* any worker; when the attempts are used up the workflow parks and        *)
(* schedules the same turn as a new activity.  The receipts of an attempt  *)
(* live in a store in the worker, which copies them to Temporal with every *)
(* heartbeat; the next attempt of the SAME activity is seeded with them.   *)
(*                                                                         *)
(* The broker's calls on the store are one step here: the store is a Map   *)
(* of one process.  EffectBroker models them apart, for a shared database. *)
(***************************************************************************)
EXTENDS Naturals, Sequences

CONSTANTS
    Workers,           \* worker processes; each runs one attempt of the agent at a time
    Tools,             \* the tool names of the turn's configuration
    Calls,             \* the tool calls a model reply may hold: [tool, arg]
    MaxCalls,          \* bound on the calls of one reply
    MaxTurns,          \* bound on the turns
    MaxActivities,     \* bound on the activities, parks included
    MaxAttempts,       \* maximumAttempts of the retry policy
    Rung,              \* "synthetic", or "sandbox": cached in the worker
    PromptHeartbeats,  \* a heartbeat is recorded at once, not throttled
    Overtaken          \* a slow attempt can be timed out while it still runs

ASSUME TurnAssumption ==
    /\ MaxCalls \in Nat /\ MaxTurns \in Nat \ {0} /\ MaxActivities \in Nat \ {0}
    /\ MaxAttempts \in Nat \ {0}
    /\ PromptHeartbeats \in BOOLEAN /\ Overtaken \in BOOLEAN

VARIABLES
    turn, activity, attempt,   \* what Temporal has scheduled
    schedule,                  \* "scheduled", "running" or "ended"
    details,                   \* the recorded heartbeat details
    run,                       \* per worker: the attempt it runs
    store,                     \* per worker: its TemporalActivityStateStore
    cached,                    \* per worker: sandboxRungs has this agent's rung
    executed,                  \* history: the effects that were carried out
    observed                   \* history: the observations that report a committed effect

vars == <<turn, activity, attempt, schedule, details, run, store, cached, executed, observed>>

server == <<turn, activity, attempt, schedule>>

-----------------------------------------------------------------------------

Executions == [turn : 1 .. MaxTurns, activity : 1 .. MaxActivities, attempt : 1 .. MaxAttempts,
               call : Calls, index : 1 .. MaxCalls]
NoExecution == [activity |-> 0]

Ids == Tools \X (1 .. MaxCalls)
Receipts == [status : {"missing", "started", "committed", "failed"}, by : Executions \cup {NoExecution}]
Missing == [status |-> "missing", by |-> NoExecution]
NoReceipts == [id \in Ids |-> Missing]

Idle == [pc |-> "idle", turn |-> 0, activity |-> 0, attempt |-> 0, reply |-> <<>>, index |-> 0]

\* What the model may answer: tool calls, at most MaxCalls.
CallLists == UNION {[1 .. n -> Calls] : n \in 0 .. MaxCalls}

Runs == [pc : {"idle", "model", "calls", "claimed", "performed"},
         turn : 0 .. MaxTurns, activity : 0 .. MaxActivities, attempt : 0 .. MaxAttempts,
         reply : CallLists, index : 0 .. MaxCalls + 1]

TypeOK ==
    /\ turn \in 1 .. MaxTurns /\ activity \in 1 .. MaxActivities /\ attempt \in 1 .. MaxAttempts
    /\ schedule \in {"scheduled", "running", "ended"}
    /\ details \in [Ids -> Receipts]
    /\ run \in [Workers -> Runs]
    /\ \A w \in Workers : run[w].pc # "idle" =>
          /\ run[w].turn # 0 /\ run[w].activity # 0 /\ run[w].attempt # 0
          /\ run[w].index \in 1 .. Len(run[w].reply) + 1
          /\ run[w].pc = "model" => run[w].index = 1
    /\ store \in [Workers -> [Ids -> Receipts]]
    /\ cached \in [Workers -> BOOLEAN]
    /\ executed \subseteq Executions

Init ==
    /\ turn = 1 /\ activity = 1 /\ attempt = 1 /\ schedule = "scheduled"
    /\ details = NoReceipts
    /\ run = [w \in Workers |-> Idle]
    /\ store = [w \in Workers |-> NoReceipts]
    /\ cached = [w \in Workers |-> FALSE]
    /\ executed = {} /\ observed = {}

-----------------------------------------------------------------------------
(* Temporal. *)

IsCurrent(w) ==
    /\ schedule = "running" /\ run[w].pc # "idle"
    /\ run[w].activity = activity /\ run[w].attempt = attempt

\* A heartbeat with receipts s.  One of an attempt that was timed out is
\* refused; an unrecorded one is sent again by a later Record.
Heartbeat(w, s) ==
    details' = IF PromptHeartbeats /\ IsCurrent(w) THEN s ELSE details

\* Temporal records the last heartbeat of the current attempt.
Record(w) ==
    /\ IsCurrent(w) /\ details # store[w]
    /\ details' = store[w]
    /\ UNCHANGED <<server, run, store, cached, executed, observed>>

\* The attempt is over without a result: retry it with the details, or, after
\* the last one, park and schedule the turn as a new activity without details.
RetryOrPark(recorded) ==
    /\ schedule' = "scheduled"
    /\ IF attempt < MaxAttempts
       THEN attempt' = attempt + 1 /\ details' = recorded /\ UNCHANGED <<turn, activity>>
       ELSE /\ activity < MaxActivities
            /\ activity' = activity + 1 /\ attempt' = 1 /\ details' = NoReceipts
            /\ UNCHANGED turn

\* heartbeatTimeout or startToCloseTimeout: the worker died or, if Overtaken,
\* only was too slow.
Timeout ==
    /\ schedule = "running"
    /\ Overtaken \/ \A w \in Workers : ~IsCurrent(w)
    /\ RetryOrPark(details)
    /\ UNCHANGED <<run, store, cached, executed, observed>>

-----------------------------------------------------------------------------
(* The attempt. *)

\* Mutated: the heartbeat details are not read.
RungStoreUnseeded(w) == NoReceipts

\* defaultRungFactory, sandboxRung: the broker of a cached rung keeps the
\* store it was built with, whatever the details of this attempt are.
RungStore(w) == IF Rung = "sandbox" /\ cached[w] THEN store[w] ELSE details

\* runTurn up to the model request, with the engine's first heartbeat.
StartAttempt(w) ==
    /\ schedule = "scheduled" /\ run[w].pc = "idle"
    /\ schedule' = "running"
    /\ run' = [run EXCEPT ![w] = [pc |-> "model", turn |-> turn, activity |-> activity,
                                  attempt |-> attempt, reply |-> <<>>, index |-> 1]]
    /\ store' = [store EXCEPT ![w] = RungStore(w)]
    /\ cached' = [cached EXCEPT ![w] = Rung = "sandbox"]
    /\ details' = IF PromptHeartbeats THEN RungStore(w) ELSE details
    /\ UNCHANGED <<turn, activity, attempt, executed, observed>>

\* The model answers, not necessarily as it did in an earlier attempt.
ModelReply(w) ==
    /\ run[w].pc = "model"
    /\ \E reply \in CallLists :
          run' = [run EXCEPT ![w].pc = "calls", ![w].reply = reply]
    /\ UNCHANGED <<server, details, store, cached, executed, observed>>

HasCall(w) == run[w].pc = "calls" /\ run[w].index <= Len(run[w].reply)
Call(w) == run[w].reply[run[w].index]

\* buildToEffect: `${agentId}:${call.name}:${index}`.
EffectId(w) == <<Call(w).tool, run[w].index>>

NextCall(w) == run' = [run EXCEPT ![w].pc = "calls", ![w].index = @ + 1]

\* What the turn is told of the call it is at.
Observe(w, execution) ==
    observed' = observed \cup {[turn |-> run[w].turn, by |-> execution]}

\* toEffect has no mapping for the tool.
RefuseCall(w) ==
    /\ HasCall(w) /\ Call(w).tool \notin Tools
    /\ NextCall(w)
    /\ UNCHANGED <<server, details, store, cached, executed, observed>>

\* The broker finds a receipt: the result, or "outcome uncertain".
ReplayReceipt(w) ==
    /\ HasCall(w) /\ Call(w).tool \in Tools
    /\ store[w][EffectId(w)].status # "missing"
    /\ NextCall(w)
    /\ IF store[w][EffectId(w)].status = "committed"
       THEN Observe(w, store[w][EffectId(w)].by)
       ELSE UNCHANGED observed
    /\ UNCHANGED <<server, details, store, cached, executed>>

PutReceipt(w, receipt) ==
    /\ store' = [store EXCEPT ![w][EffectId(w)] = receipt]
    /\ Heartbeat(w, store'[w])

\* Mutated: the effect runs without a claim.
ClaimEffectUnclaimed(w) ==
    /\ HasCall(w) /\ Call(w).tool \in Tools
    /\ store[w][EffectId(w)].status = "missing"
    /\ run' = [run EXCEPT ![w].pc = "claimed"]
    /\ UNCHANGED <<server, details, store, cached, executed, observed>>

ClaimEffect(w) ==
    /\ HasCall(w) /\ Call(w).tool \in Tools
    /\ store[w][EffectId(w)].status = "missing"
    /\ PutReceipt(w, [status |-> "started", by |-> NoExecution])
    /\ run' = [run EXCEPT ![w].pc = "claimed"]
    /\ UNCHANGED <<server, cached, executed, observed>>

Execution(w) ==
    [turn |-> run[w].turn, activity |-> run[w].activity, attempt |-> run[w].attempt,
     call |-> Call(w), index |-> run[w].index]

\* The executor carries out the effect.
Perform(w) ==
    /\ run[w].pc = "claimed"
    /\ executed' = executed \cup {Execution(w)}
    /\ run' = [run EXCEPT ![w].pc = "performed"]
    /\ UNCHANGED <<server, details, store, cached, observed>>

CommitEffect(w) ==
    /\ run[w].pc = "performed"
    /\ PutReceipt(w, [status |-> "committed", by |-> Execution(w)])
    /\ Observe(w, Execution(w))
    /\ NextCall(w)
    /\ UNCHANGED <<server, cached, executed>>

\* The executor returns an error, having done something or nothing.
EffectFails(w) ==
    /\ run[w].pc \in {"claimed", "performed"}
    /\ PutReceipt(w, [status |-> "failed", by |-> NoExecution])
    /\ NextCall(w)
    /\ UNCHANGED <<server, cached, executed, observed>>

\* The model request fails, or the executor throws: the receipt stays
\* "started" and the attempt fails.  The worker sends the last heartbeat
\* before it reports the failure.
FailAttempt(w) ==
    /\ run[w].pc \in {"model", "claimed", "performed"}
    /\ run' = [run EXCEPT ![w] = Idle]
    /\ IF IsCurrent(w) THEN RetryOrPark(store[w]) ELSE UNCHANGED <<server, details>>
    /\ UNCHANGED <<store, cached, executed, observed>>

\* runTurn returns.  The workflow takes the messages off its mailbox and the
\* next turn is a new activity; the answer of an overtaken attempt is refused.
CompleteAttempt(w) ==
    /\ run[w].pc = "calls" /\ run[w].index > Len(run[w].reply)
    /\ run' = [run EXCEPT ![w] = Idle]
    /\ IF ~IsCurrent(w) THEN UNCHANGED <<server, details>>
       ELSE IF turn < MaxTurns /\ activity < MaxActivities
       THEN /\ turn' = turn + 1 /\ activity' = activity + 1 /\ attempt' = 1
            /\ schedule' = "scheduled" /\ details' = NoReceipts
       ELSE schedule' = "ended" /\ UNCHANGED <<turn, activity, attempt, details>>
    /\ UNCHANGED <<store, cached, executed, observed>>

\* The worker process dies, and comes back empty.
Crash(w) ==
    /\ run[w].pc # "idle" \/ cached[w]
    /\ run' = [run EXCEPT ![w] = Idle]
    /\ store' = [store EXCEPT ![w] = NoReceipts]
    /\ cached' = [cached EXCEPT ![w] = FALSE]
    /\ UNCHANGED <<server, details, executed, observed>>

Next ==
    \/ Timeout
    \/ \E w \in Workers :
          \/ Record(w) \/ StartAttempt(w) \/ ModelReply(w)
          \/ RefuseCall(w) \/ ReplayReceipt(w) \/ ClaimEffect(w) \/ Perform(w) \/ CommitEffect(w)
          \/ EffectFails(w) \/ FailAttempt(w) \/ CompleteAttempt(w) \/ Crash(w)

Spec == Init /\ [][Next]_vars

-----------------------------------------------------------------------------
(* Properties. *)

\* "The retry starts with the committed receipts and does not re-execute a
\* committed effect", and a started one is not replayed blindly: whatever
\* attempts an activity needs, on whatever workers, an effect id is carried
\* out at most once for it.
OncePerActivity ==
    \A x, y \in executed :
        x.activity = y.activity /\ x.call.tool = y.call.tool /\ x.index = y.index => x = y

\* A turn is never answered with the result of an earlier turn's call.
ObservedInItsTurn == \A o \in observed : o.by.turn = o.turn

\* "Each heartbeat must carry the rung's receipt details, or it would erase
\* the receipts the broker persisted": as long as an activity lasts, Temporal
\* does not lose a committed receipt it has recorded.
ReceiptsNotErased ==
    [][activity' = activity =>
          \A id \in Ids : details[id].status = "committed" => details'[id] = details[id]]_vars

-----------------------------------------------------------------------------
(* The inductive invariant of OncePerActivity: for the synthetic rung, with  *)
(* heartbeats that are recorded at once and no overtaken attempt.            *)

IdOf(x) == <<x.call.tool, x.index>>

\* Only the attempt that Temporal believes to be running runs.
OneAttempt ==
    \A w \in Workers : run[w].pc # "idle" =>
        IsCurrent(w) /\ \A v \in Workers : run[v].pc # "idle" => v = w

\* Its receipts are the recorded ones.
StoreRecorded == \A w \in Workers : run[w].pc # "idle" => store[w] = details

\* A claimed effect has a recorded receipt, and has not been carried out.
ClaimIsFresh ==
    \A w \in Workers : run[w].pc \in {"claimed", "performed"} =>
        /\ run[w].index <= Len(run[w].reply) /\ Call(w).tool \in Tools
        /\ details[EffectId(w)].status = "started"
        /\ run[w].pc = "claimed" =>
              \A x \in executed : x.activity = activity => IdOf(x) # EffectId(w)

\* What this activity carried out has a recorded receipt.
ExecutedHasReceipt ==
    \A x \in executed :
        /\ x.activity <= activity /\ x.call.tool \in Tools
        /\ x.activity = activity => details[IdOf(x)].status # "missing"

IInv ==
    /\ TypeOK
    /\ OneAttempt
    /\ StoreRecorded
    /\ ClaimIsFresh
    /\ ExecutedHasReceipt
    /\ OncePerActivity

-----------------------------------------------------------------------------
(* The inductive invariant of ReceiptsNotErased: for the synthetic rung,     *)
(* whenever heartbeats are recorded and whether or not attempts are          *)
(* overtaken.                                                                *)

\* No attempt runs that Temporal has not scheduled, and no two workers run the same.
AttemptsInOrder ==
    /\ \A w \in Workers : run[w].pc # "idle" =>
          \/ run[w].activity < activity
          \/ run[w].activity = activity /\ run[w].attempt < attempt
          \/ run[w].activity = activity /\ run[w].attempt = attempt /\ schedule # "scheduled"
    /\ \A w, v \in Workers :
          /\ run[w].pc # "idle" /\ run[v].pc # "idle"
          /\ run[w].activity = run[v].activity /\ run[w].attempt = run[v].attempt
          => w = v

\* An effect that is under way has a receipt that says so, on its worker.
ClaimIsStarted ==
    \A w \in Workers : run[w].pc \in {"claimed", "performed"} =>
        /\ run[w].index <= Len(run[w].reply) /\ Call(w).tool \in Tools
        /\ store[w][EffectId(w)].status = "started"

\* What is recorded as committed, the current attempt has as committed.
RecordedIsKept ==
    \A w \in Workers : IsCurrent(w) =>
        \A id \in Ids : details[id].status = "committed" => store[w][id] = details[id]

KeptInv == TypeOK /\ AttemptsInOrder /\ ClaimIsStarted /\ RecordedIsKept

=============================================================================
