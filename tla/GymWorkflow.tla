---------------------------- MODULE GymWorkflow ----------------------------
(***************************************************************************)
(* gymAttemptWorkflow (gym-workflows.ts) and its activities                *)
(* (gym-activities.ts): an attempt at a task, one activity per turn.  The  *)
(* agent's edits live in a pod that a worker process keeps between turns   *)
(* (integrations/gym/sandbox.ts); a checkpoint (checkpoint.ts) lets a cold *)
(* worker restore them.                                                    *)
(*                                                                         *)
(* A turn's edits are reduced to one mark, which says which execution of   *)
(* which turn made them.  A pod, a patch and a checkpoint are sets of      *)
(* marks.                                                                  *)
(***************************************************************************)
EXTENDS Integers, FiniteSets

CONSTANTS
    Workers,      \* worker processes polling the task queue
    MaxTurns,     \* input.maxTurns
    MaxAttempts,  \* maximumAttempts of the activities
    MaxFaults,    \* bound: failed attempts and worker crashes
    Nowhere       \* no worker, no pod, no checkpoint

Marks == (0 .. MaxTurns - 1) \X (0 .. MaxFaults) \X (1 .. MaxAttempts)   \* turn, parks, attempt

ASSUME GymAssumption ==
    /\ MaxTurns \in Nat \ {0} /\ MaxAttempts \in Nat \ {0} /\ MaxFaults \in Nat
    /\ Nowhere \notin Workers /\ \A edits \in SUBSET Marks : edits # Nowhere

VARIABLES
    gymStage,    \* the workflow's await: "prepare", "turn", "park", "score"; or "over"
    turn, parks, attempt,  \* the turn, its park count, and the activity's attempt
    lastPatch,   \* last.patch
    at,          \* the worker that runs the attempt, or Nowhere
    step,        \* where it is in gymRunTurn
    patch,       \* what it harvested
    pod,         \* per worker: the edits in the pod of its cached runner, or Nowhere
    receipts,    \* per worker: effect ids in the runner's receipt store
    checkpoint,  \* the edits behind the pointer, or Nowhere
    faults,
    replayed,    \* history: a receipt of another execution has answered an effect
    home,        \* history: the worker that ran the last finished turn
    strayed      \* history: a turn went to another worker that still had a pod, or
                 \* found no readable checkpoint

gymVars == <<gymStage, turn, parks, attempt, lastPatch, at, step, patch, pod, receipts, checkpoint, faults, replayed, home, strayed>>

GymInit ==
    /\ gymStage = "prepare" /\ turn = 0 /\ parks = 0 /\ attempt = 1 /\ lastPatch = {}
    /\ at = Nowhere /\ step = "none" /\ patch = {}
    /\ pod = [w \in Workers |-> Nowhere] /\ receipts = [w \in Workers |-> {}]
    /\ checkpoint = Nowhere /\ faults = 0 /\ replayed = FALSE /\ home = Nowhere /\ strayed = FALSE

Mark == <<turn, parks, attempt>>
EffectId == <<turn, attempt>>     \* turnScopedEffectId

-----------------------------------------------------------------------------
(* gymRunTurn. *)

\* Mutated: a cold worker starts from the bugged source.
LoadedNothing == {}

Loaded == IF checkpoint = Nowhere THEN {} ELSE checkpoint

\* A runner whose workspace starts from the given edits.
BuildSandboxRunner(w, edits) == pod' = [pod EXCEPT ![w] = edits]

\* A worker polls the activity; a cold one builds its runner from the checkpoint.
StartTurn(w) ==
    /\ gymStage = "turn" /\ at = Nowhere
    /\ at' = w /\ step' = "model"
    /\ \/ pod[w] # Nowhere /\ UNCHANGED pod /\ strayed' = (strayed \/ home \notin {w, Nowhere})
       \/ pod[w] = Nowhere /\ BuildSandboxRunner(w, Loaded) /\ UNCHANGED strayed
       \/ pod[w] = Nowhere /\ BuildSandboxRunner(w, {}) /\ strayed' = TRUE   \* load returns undefined
    /\ UNCHANGED <<gymStage, turn, parks, attempt, lastPatch, patch, receipts, checkpoint, faults, replayed, home>>

\* The engine asks the model and carries out its calls; the runner's broker
\* answers a known effect id from its receipt.
Effects ==
    /\ step = "model"
    /\ step' = "harvest"
    /\ IF EffectId \in receipts[at]
       THEN replayed' = TRUE /\ UNCHANGED <<pod, receipts>>
       ELSE /\ pod' = [pod EXCEPT ![at] = @ \cup {Mark}]
            /\ receipts' = [receipts EXCEPT ![at] = @ \cup {EffectId}]
            /\ UNCHANGED replayed
    /\ UNCHANGED <<gymStage, turn, parks, attempt, lastPatch, at, patch, checkpoint, faults, home, strayed>>

HarvestPatch ==
    /\ step = "harvest"
    /\ patch' = pod[at] /\ step' = "save"
    /\ UNCHANGED <<gymStage, turn, parks, attempt, lastPatch, at, pod, receipts, checkpoint, faults, replayed, home, strayed>>

\* The record goes to the blob store; the rename of the pointer makes it current.
Save(edits) == checkpoint' = edits

\* checkpointWorkspace, then checkpoint.save.
SaveCheckpoint ==
    /\ step = "save"
    /\ Save(pod[at]) /\ step' = "return"
    /\ UNCHANGED <<gymStage, turn, parks, attempt, lastPatch, at, patch, pod, receipts, faults, replayed, home, strayed>>

-----------------------------------------------------------------------------
(* runTurnWithPark and gymAttemptWorkflow. *)

\* gymPrepareActivity gives a checkout, or fails the workflow.
PrepareReturns ==
    /\ gymStage = "prepare" /\ gymStage' \in {"turn", "over"}
    /\ UNCHANGED <<turn, parks, attempt, lastPatch, at, step, patch, pod, receipts, checkpoint, faults, replayed, home, strayed>>

Fault == faults < MaxFaults /\ faults' = faults + 1

Idle == at' = Nowhere /\ step' = "none" /\ patch' = {}

\* The turn's result reaches the workflow: the next turn, or scoring when the
\* model finished, the turns are used up or the deadline has passed.
TurnReturns ==
    /\ step = "return"
    /\ lastPatch' = patch /\ home' = at /\ Idle
    /\ \/ turn + 1 < MaxTurns /\ turn' = turn + 1 /\ parks' = 0 /\ attempt' = 1 /\ UNCHANGED gymStage
       \/ gymStage' = "score" /\ attempt' = 1 /\ UNCHANGED <<turn, parks>>
    /\ UNCHANGED <<pod, receipts, checkpoint, faults, replayed, strayed>>

\* The attempt fails: Temporal tries again; out of attempts, the workflow parks
\* or, if the failure is not retryable, has the attempt scored as errored.
AttemptOver ==
    /\ Idle
    /\ \/ attempt < MaxAttempts /\ attempt' = attempt + 1 /\ UNCHANGED gymStage
       \/ attempt = MaxAttempts /\ gymStage' = "park" /\ UNCHANGED attempt
       \/ gymStage' = "score" /\ attempt' = 1
    /\ UNCHANGED <<turn, parks, lastPatch, checkpoint, replayed, home, strayed>>

TurnThrows == at # Nowhere /\ Fault /\ AttemptOver /\ UNCHANGED <<pod, receipts>>

Gone(w) == /\ pod' = [pod EXCEPT ![w] = Nowhere]
           /\ receipts' = [receipts EXCEPT ![w] = {}]

\* A worker process dies and is started again, with or without the attempt.
Crash(w) ==
    /\ gymStage # "over" /\ Fault /\ Gone(w)
    /\ IF at = w THEN AttemptOver
       ELSE UNCHANGED <<gymStage, turn, parks, attempt, lastPatch, at, step, patch, checkpoint, replayed, home, strayed>>

\* After the sleep the same turn is a new activity.
Unpark ==
    /\ gymStage = "park"
    /\ gymStage' = "turn" /\ parks' = parks + 1 /\ attempt' = 1
    /\ UNCHANGED <<turn, lastPatch, at, step, patch, pod, receipts, checkpoint, faults, replayed, home, strayed>>

\* gymScoreActivity, on any worker, which then closes the runner it has.
Score(w) ==
    /\ gymStage = "score"
    /\ gymStage' = "over" /\ Gone(w)
    /\ UNCHANGED <<turn, parks, attempt, lastPatch, at, step, patch, checkpoint, faults, replayed, home, strayed>>

GymNext ==
    \/ \E w \in Workers : StartTurn(w) \/ Crash(w) \/ Score(w)
    \/ PrepareReturns \/ Effects \/ HarvestPatch \/ SaveCheckpoint \/ TurnReturns \/ TurnThrows \/ Unpark

GymSpec == GymInit /\ [][GymNext]_gymVars

-----------------------------------------------------------------------------
(* Edits that a finished turn reported are in the workspace of every later     *)
(* turn, over crashes, retries and parks, unless the task queue has given a    *)
(* turn to another worker that still had a pod or a checkpoint could not be    *)
(* read (gym-activities.ts:194-207, :267).                                     *)
CommittedEditsSurvive == at # Nowhere /\ ~strayed => lastPatch \subseteq pod[at]

GymTypeOK ==
    /\ gymStage \in {"prepare", "turn", "park", "score", "over"}
    /\ turn \in 0 .. MaxTurns - 1 /\ attempt \in 1 .. MaxAttempts /\ parks \in Nat /\ faults \in 0 .. MaxFaults
    /\ parks + (IF gymStage = "park" THEN 1 ELSE 0) <= faults /\ strayed \in BOOLEAN
    /\ at \in Workers \cup {Nowhere} /\ home \in Workers \cup {Nowhere}
    /\ pod \in [Workers -> (SUBSET Marks) \cup {Nowhere}]
    /\ checkpoint \in (SUBSET Marks) \cup {Nowhere}

\* A running attempt has a pod, and what it has harvested and saved is what is there.
RunningHasPod ==
    /\ at # Nowhere => gymStage = "turn" /\ pod[at] # Nowhere
    /\ step # "none" => at # Nowhere
    /\ step \in {"save", "return"} => patch = pod[at]
    /\ step = "return" => checkpoint = pod[at]

\* The edits of the last finished turn are in the checkpoint, in the pod of the
\* worker that ran it for as long as that is there, and in the pod in use.
EditsKept ==
    /\ home = Nowhere => lastPatch = {}
    /\ lastPatch \subseteq Loaded
    /\ home # Nowhere => pod[home] = Nowhere \/ lastPatch \subseteq pod[home]
    /\ at # Nowhere => lastPatch \subseteq pod[at]

GymIInv == GymTypeOK /\ RunningHasPod /\ (~strayed => EditsKept)

(* An effect's id names one call: no receipt of one execution answers another *)
(* (gym-activities.ts:85).                                                     *)
EffectIdNamesOneCall == ~replayed

=============================================================================
