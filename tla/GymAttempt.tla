----------------------------- MODULE GymAttempt -----------------------------
(***************************************************************************)
(* runGymAttempt (src/gym/attempt.ts): the loop of model turns and tool    *)
(* calls over a checkout, with a checkpoint after every turn, and the      *)
(* retrying gateway turn (turn.ts) and tools (tools.ts) it is given.  A    *)
(* retried attempt starts again on a fresh checkout.                       *)
(*                                                                         *)
(* An edit is a number.  The transcript is reduced to the edits it tells   *)
(* the model were made.                                                    *)
(***************************************************************************)
EXTENDS Integers, FiniteSets, Sequences

CONSTANTS
    TurnLimit,      \* maxTurns
    MaxReasks,      \* maxReasks
    MaxTries,       \* retry.maxAttempts
    MaxCalls,       \* bound: tool calls in a reply
    MaxRestarts     \* bound: crashes of the attempt

VARIABLES
    loop,       \* where runGymAttempt is
    turnIndex, attemptNo, tries,
    reply,      \* tool calls of the turn that are still to be executed
    files,      \* the edits in the checkout
    told,       \* the edits the transcript reports as made
    unsure,     \* history: edits whose tool call threw after it had written
    saved,      \* the checkpoint, or <<>>
    outcome,    \* the record's outcome, "none" while there is none
    timedOut,
    fresh, restarts

attemptVars == <<loop, turnIndex, attemptNo, tries, reply, files, told, unsure, saved, outcome, timedOut, fresh, restarts>>

AttemptInit ==
    /\ loop = "restore" /\ turnIndex = 0 /\ attemptNo = 0 /\ tries = 1 /\ reply = <<>>
    /\ files = {} /\ told = {} /\ unsure = {} /\ saved = <<>>
    /\ outcome = "none" /\ timedOut = FALSE /\ fresh = 1 /\ restarts = 0

Tools == {"edit", "look", "finish"}
Replies == UNION {[1..n -> Tools] : n \in 0..MaxCalls}

-----------------------------------------------------------------------------
(* Restore: apply the saved patch, take over its transcript and turn. *)
RestoreCheckpoint ==
    /\ loop = "restore"
    /\ loop' = "head"
    /\ \/ UNCHANGED <<turnIndex, files, told, unsure>>   \* none, or none that can be read
       \/ /\ saved # <<>> /\ turnIndex' = saved[1].turnIndex
            /\ files' = saved[1].patch /\ told' = saved[1].told
            /\ unsure' = unsure \cap saved[1].patch
    /\ UNCHANGED <<attemptNo, tries, reply, saved, outcome, timedOut, fresh, restarts>>

\* The loop's condition and the deadline before a turn.
TurnHead ==
    /\ loop = "head"
    /\ \/ turnIndex < TurnLimit /\ loop' = "model" /\ attemptNo' = 0 /\ tries' = 1 /\ UNCHANGED timedOut
       \/ turnIndex < TurnLimit /\ loop' = "score" /\ timedOut' = TRUE /\ UNCHANGED <<attemptNo, tries>>
       \/ turnIndex >= TurnLimit /\ loop' = "score" /\ UNCHANGED <<attemptNo, tries, timedOut>>
    /\ UNCHANGED <<turnIndex, reply, files, told, unsure, saved, outcome, fresh, restarts>>

\* gatewayGymTurn gets a reply that parses.
TurnReplies ==
    /\ loop = "model"
    /\ reply' \in Replies /\ loop' = "tools"
    /\ UNCHANGED <<turnIndex, attemptNo, tries, files, told, unsure, saved, outcome, timedOut, fresh, restarts>>

\* callOnce throws: an error that may pass is tried again within the turn.
TurnRetries ==
    /\ loop = "model" /\ tries < MaxTries /\ tries' = tries + 1
    /\ UNCHANGED <<loop, turnIndex, attemptNo, reply, files, told, unsure, saved, outcome, timedOut, fresh, restarts>>

\* classifyFailure.
FailureKinds == {"transient", "malformed", "fatal"}

\* The turn throws: a malformed reply is re-asked, all else ends the attempt.
ReplyThrows(kind) ==
    /\ loop = "model"
    /\ IF kind = "malformed" /\ attemptNo < MaxReasks
       THEN attemptNo' = attemptNo + 1 /\ tries' = 1 /\ UNCHANGED <<loop, outcome>>
       ELSE loop' = "score" /\ outcome' = "errored" /\ UNCHANGED <<attemptNo, tries>>
    /\ UNCHANGED <<turnIndex, reply, files, told, unsure, saved, timedOut, fresh, restarts>>

-----------------------------------------------------------------------------
(* tools.execute on the next call. *)

Rest == reply' = Tail(reply) /\ UNCHANGED <<loop, turnIndex, attemptNo, tries, saved, outcome, timedOut, restarts>>

\* write_file or replace_in_file writes and says so.
EditMade == /\ files' = files \cup {fresh} /\ told' = told \cup {fresh} /\ fresh' = fresh + 1
            /\ UNCHANGED unsure

\* It is refused (protected path, missing argument, ambiguous text), or throws,
\* before or after the write took effect; the observation says it failed.
EditRefused == UNCHANGED <<files, told, unsure, fresh>>
EditThrows == /\ files' = files \cup {fresh} /\ unsure' = unsure \cup {fresh} /\ fresh' = fresh + 1
              /\ UNCHANGED told

ExecuteTool ==
    /\ loop = "tools" /\ reply # <<>> /\ Head(reply) # "finish" /\ Rest
    /\ \/ Head(reply) = "edit" /\ (EditMade \/ EditRefused \/ EditThrows)
       \/ Head(reply) = "look" /\ UNCHANGED <<files, told, unsure, fresh>>

\* `finish` leaves the loop without a checkpoint.
ToolsDone ==
    /\ loop = "tools"
    /\ \/ reply = <<>> /\ loop' = "save" /\ UNCHANGED reply
       \/ reply # <<>> /\ Head(reply) = "finish" /\ loop' = "score" /\ reply' = <<>>
    /\ UNCHANGED <<turnIndex, attemptNo, tries, files, told, unsure, saved, outcome, timedOut, fresh, restarts>>

\* Mutated: the checkpoint holds the transcript and not the harvested patch.
CheckpointNoPatch == [turnIndex |-> turnIndex + 1, patch |-> {}, told |-> told]

Checkpoint == [turnIndex |-> turnIndex + 1, patch |-> files, told |-> told]

\* harvestPatch and checkpoint.save; a failure is swallowed.
SaveTurn ==
    /\ loop = "save"
    /\ saved' \in {<<Checkpoint>>, saved}
    /\ \/ loop' = "head" /\ turnIndex' = turnIndex + 1 /\ UNCHANGED timedOut
       \/ loop' = "score" /\ timedOut' = TRUE /\ UNCHANGED turnIndex
    /\ UNCHANGED <<attemptNo, tries, reply, files, told, unsure, outcome, fresh, restarts>>

\* An unedited checkout fails; a patch is scored, or the scorer throws; a
\* missed deadline overrides the score.
ScoreAttempt ==
    /\ loop = "score"
    /\ loop' = "done"
    /\ outcome' \in IF outcome = "errored" THEN {"errored"}
                    ELSE IF timedOut THEN {"timed-out", "errored"}
                    ELSE IF files = {} THEN {"failed", "errored"}
                    ELSE {"passed", "failed", "tampered", "errored"}
    /\ UNCHANGED <<turnIndex, attemptNo, tries, reply, files, told, unsure, saved, timedOut, fresh, restarts>>

\* The process dies, or the restore throws; the attempt is run again.
AttemptRestarts ==
    /\ restarts < MaxRestarts /\ loop # "done"
    /\ loop' = "restore" /\ turnIndex' = 0 /\ reply' = <<>> /\ files' = {} /\ told' = {}
    /\ outcome' = "none" /\ timedOut' = FALSE /\ restarts' = restarts + 1
    /\ UNCHANGED <<attemptNo, tries, unsure, saved, fresh>>

AttemptNext ==
    \/ RestoreCheckpoint \/ TurnHead \/ TurnReplies \/ ExecuteTool \/ ToolsDone
    \/ SaveTurn \/ ScoreAttempt \/ AttemptRestarts
    \/ TurnRetries \/ \E kind \in FailureKinds : ReplyThrows(kind)

AttemptSpec == AttemptInit /\ [][AttemptNext]_attemptVars

-----------------------------------------------------------------------------
(* Whenever the model is asked, the checkout holds every edit its transcript   *)
(* reports, and no other but those whose tool call failed after it had         *)
(* written: over crashes, failed saves and restored checkpoints the two are    *)
(* never of different turns (attempt.ts:209-216, :278-282).                    *)
TranscriptMatchesCheckout == loop = "model" => told \subseteq files /\ files \subseteq told \cup unsure

\* The inductive form: it holds of the checkout at every step of the loop, and of
\* the checkpoint, which a later run of the attempt may take over.
Reported(patch, transcript) == transcript \subseteq patch /\ patch \subseteq transcript \cup unsure
AttemptIInv ==
    /\ Reported(files, told)
    /\ saved # <<>> => Reported(saved[1].patch, saved[1].told)

=============================================================================
