---------------------------- MODULE WorkflowProofs ----------------------------
(***************************************************************************)
(* Proofs about the workflows.  The three parts of a gym attempt, for      *)
(* every number of workers, turns, cases, retries and faults: the          *)
(* transcript of a restored attempt matches its checkout, edits of         *)
(* finished turns survive, and the verdict of the scorer is what the       *)
(* worker computed.  The graph interpreter, for every graph: a node's      *)
(* handler runs once for each time the graph reaches the node.             *)
(***************************************************************************)
EXTENDS GymAttempt, GymWorkflow, GymScoring, GraphWorkflow,
        FiniteSetTheorems, SequenceTheorems, WellFoundedInduction, TLAPS

-----------------------------------------------------------------------------
(* The attempt's loop.                                                        *)

\* The attempt starts with an empty checkout, transcript and checkpoint.
LEMMA AttemptStarts == AttemptInit => AttemptIInv
  BY Zenon DEF AttemptInit, AttemptIInv, Reported

\* Every step keeps transcript and checkout together, in memory and in the checkpoint.
LEMMA AttemptKeeps ==
  AttemptIInv /\ [AttemptNext]_attemptVars => AttemptIInv'
<1> SUFFICES ASSUME AttemptIInv, [AttemptNext]_attemptVars PROVE AttemptIInv'
  BY Zenon
<1> USE DEF AttemptIInv, Reported
<1>1. CASE RestoreCheckpoint
  BY Zenon, <1>1 DEF RestoreCheckpoint
<1>2. CASE TurnHead
  BY Zenon, <1>2 DEF TurnHead
<1>3. CASE TurnReplies
  BY Zenon, <1>3 DEF TurnReplies
<1>4. CASE ExecuteTool
  <2>1. saved' = saved
    BY Zenon, <1>4 DEF ExecuteTool, Rest
  <2>2. CASE EditMade
    BY Zenon, <2>1, <2>2 DEF EditMade
  <2>3. CASE EditThrows
    BY Zenon, <2>1, <2>3 DEF EditThrows
  <2>4. CASE UNCHANGED <<files, told, unsure, fresh>>
    BY Zenon, <2>1, <2>4
  <2> QED
    BY Zenon, <1>4, <2>2, <2>3, <2>4 DEF ExecuteTool, EditRefused
<1>5. CASE ToolsDone
  BY Zenon, <1>5 DEF ToolsDone
<1>6. CASE SaveTurn
  <2>1. UNCHANGED <<files, told, unsure>>
    BY Zenon, <1>6 DEF SaveTurn
  <2>2. CASE saved' = <<Checkpoint>>
    <3>1. saved'[1].patch = files /\ saved'[1].told = told
      BY Zenon, <2>2 DEF Checkpoint
    <3> QED
      BY Zenon, <2>1, <3>1
  <2>3. CASE saved' = saved
    BY Zenon, <2>1, <2>3
  <2> QED
    BY Zenon, <1>6, <2>2, <2>3 DEF SaveTurn
<1>7. CASE ScoreAttempt
  BY Zenon, <1>7 DEF ScoreAttempt
<1>8. CASE AttemptRestarts
  BY Zenon, <1>8 DEF AttemptRestarts
<1>9. CASE TurnRetries
  BY Zenon, <1>9 DEF TurnRetries
<1>10. ASSUME NEW kind \in FailureKinds, ReplyThrows(kind) PROVE AttemptIInv'
  BY Zenon, <1>10 DEF ReplyThrows
<1>11. CASE UNCHANGED attemptVars
  BY Zenon, <1>11 DEF attemptVars
<1> QED
  BY Zenon, <1>1, <1>2, <1>3, <1>4, <1>5, <1>6, <1>7, <1>8, <1>9, <1>10, <1>11 DEF AttemptNext

\* Whenever runGymAttempt asks the model, after any crashes, failed saves and
\* restored checkpoints, the checkout holds every edit that the transcript reports
\* and no other but those whose tool call failed after it had written.
THEOREM TranscriptNeverDiverges == AttemptSpec => []TranscriptMatchesCheckout
<1>1. AttemptIInv => TranscriptMatchesCheckout
  BY Zenon DEF AttemptIInv, TranscriptMatchesCheckout, Reported
<1> QED
  BY AttemptStarts, AttemptKeeps, <1>1, PTL DEF AttemptSpec

-----------------------------------------------------------------------------
(* The workflow, its workers and their pods.                                  *)

\* The workflow starts with no pod and no checkpoint, and no edits to keep.
LEMMA GymStarts == GymInit => GymIInv
<1> SUFFICES ASSUME GymInit PROVE GymIInv
  BY Zenon
<1> USE GymAssumption DEF GymInit
<1>1. GymTypeOK
  <2>1. strayed \in BOOLEAN
    BY Zenon
  <2> QED
    BY <2>1 DEF GymTypeOK
<1>2. RunningHasPod
  BY Zenon DEF RunningHasPod
<1>3. EditsKept
  BY Zenon DEF EditsKept, Loaded
<1> QED
  BY Zenon, <1>1, <1>2, <1>3 DEF GymIInv

\* Types, the counters within the bounds of a mark included.
LEMMA GymTypes ==
  ASSUME GymTypeOK, RunningHasPod, [GymNext]_gymVars PROVE GymTypeOK'
<1> USE GymAssumption DEF GymTypeOK
<1>1. ASSUME NEW w \in Workers, StartTurn(w) PROVE GymTypeOK'
  <2>1. Loaded \in SUBSET Marks
    BY Zenon DEF Loaded
  <2>2. strayed' \in BOOLEAN
    BY <1>1, Zenon DEF StartTurn
  <2> QED
    BY Zenon, <1>1, <2>1, <2>2 DEF StartTurn, BuildSandboxRunner
<1>2. ASSUME AttemptOver, Fault, gymStage = "turn" PROVE
        /\ gymStage' \in {"turn", "park", "score"} /\ at' = Nowhere
        /\ attempt' \in 1 .. MaxAttempts /\ faults' \in 0 .. MaxFaults
        /\ parks' + (IF gymStage' = "park" THEN 1 ELSE 0) <= faults'
  BY <1>2 DEF AttemptOver, Fault, Idle
<1>3. ASSUME NEW w \in Workers, Crash(w) PROVE GymTypeOK'
  <2>1. pod' \in [Workers -> (SUBSET Marks) \cup {Nowhere}]
    BY Zenon, <1>3 DEF Crash, Gone
  <2>2. CASE at = w
    BY Zenon, <1>2, <1>3, <2>1, <2>2 DEF Crash, AttemptOver, RunningHasPod
  <2>3. CASE at # w
    BY <1>3, <2>1, <2>3 DEF Crash, Fault
  <2> QED
    BY Zenon, <2>2, <2>3
<1>4. ASSUME NEW w \in Workers, Score(w) PROVE GymTypeOK'
  BY Zenon, <1>4 DEF Score, Gone
<1>5. CASE PrepareReturns
  BY Zenon, <1>5 DEF PrepareReturns
<1>6. CASE Effects
  <2>1. Mark \in Marks
    BY DEF Mark, Marks
  <2>2. at \in Workers /\ pod[at] \in SUBSET Marks
    BY Zenon, <1>6 DEF Effects, RunningHasPod
  <2> QED
    BY <1>6, <2>1, <2>2 DEF Effects
<1>7. CASE HarvestPatch
  BY Zenon, <1>7 DEF HarvestPatch
<1>8. CASE SaveCheckpoint
  BY Zenon, <1>8 DEF SaveCheckpoint, Save, RunningHasPod
<1>9. CASE TurnReturns
  BY <1>9 DEF TurnReturns, Idle
<1>10. CASE TurnThrows
  BY Zenon, <1>2, <1>10 DEF TurnThrows, AttemptOver, RunningHasPod
<1>11. CASE Unpark
  BY <1>11 DEF Unpark
<1>12. CASE UNCHANGED gymVars
  BY Zenon, <1>12 DEF gymVars
<1> QED
  BY ZenonT(30), <1>1, <1>3, <1>4, <1>5, <1>6, <1>7, <1>8, <1>9, <1>10, <1>11, <1>12 DEF GymNext

\* An attempt that runs has a pod until it ends, whatever the other workers do.
LEMMA PodStays ==
  ASSUME GymTypeOK, RunningHasPod, [GymNext]_gymVars PROVE RunningHasPod'
<1> USE GymAssumption DEF GymTypeOK, RunningHasPod
<1>0. Loaded \in SUBSET Marks /\ Loaded # Nowhere
  BY Zenon DEF Loaded
<1>1. ASSUME NEW w \in Workers, StartTurn(w) PROVE RunningHasPod'
  BY Zenon, <1>0, <1>1 DEF StartTurn, BuildSandboxRunner
<1>2. ASSUME Idle PROVE RunningHasPod'
  BY Zenon, <1>2 DEF Idle
<1>3. ASSUME NEW w \in Workers, Crash(w) PROVE RunningHasPod'
  <2>1. CASE at = w
    BY Zenon, <1>2, <1>3, <2>1 DEF Crash, AttemptOver
  <2>2. CASE at # w
    BY Zenon, <1>3, <2>2 DEF Crash, Gone
  <2> QED
    BY Zenon, <2>1, <2>2
<1>4. ASSUME NEW w \in Workers, Score(w) PROVE RunningHasPod'
  <2>1. at = Nowhere /\ step = "none"
    BY Zenon, <1>4 DEF Score
  <2>2. at' = at /\ step' = step
    BY Zenon, <1>4 DEF Score
  <2> QED
    BY Zenon, <2>1, <2>2
<1>5. CASE PrepareReturns
  BY Zenon, <1>5 DEF PrepareReturns
<1>6. CASE Effects
  <2>1. Mark \in Marks
    BY DEF Mark, Marks
  <2>2. at \in Workers /\ pod[at] \in SUBSET Marks
    BY Zenon, <1>6 DEF Effects
  <2>3. pod[at] \cup {Mark} # Nowhere
    BY Zenon, <2>1, <2>2
  <2> QED
    BY Zenon, <1>6, <2>2, <2>3 DEF Effects
<1>7. CASE HarvestPatch
  BY Zenon, <1>7 DEF HarvestPatch
<1>8. CASE SaveCheckpoint
  BY Zenon, <1>8 DEF SaveCheckpoint, Save
<1>9. CASE TurnReturns
  BY Zenon, <1>2, <1>9 DEF TurnReturns
<1>10. CASE TurnThrows
  BY Zenon, <1>2, <1>10 DEF TurnThrows, AttemptOver
<1>11. CASE Unpark
  BY Zenon, <1>11 DEF Unpark
<1>12. CASE UNCHANGED gymVars
  BY Zenon, <1>12 DEF gymVars
<1> QED
  BY ZenonT(30), <1>1, <1>3, <1>4, <1>5, <1>6, <1>7, <1>8, <1>9, <1>10, <1>11, <1>12 DEF GymNext

\* While no turn has strayed, the last finished turn's edits stay in the
\* checkpoint, in the pod of the worker that ran it, and in the pod in use.
LEMMA EditsStay ==
  ASSUME GymTypeOK, RunningHasPod, ~strayed => EditsKept, [GymNext]_gymVars, ~strayed'
  PROVE  EditsKept'
<1> USE GymAssumption DEF GymTypeOK, RunningHasPod, EditsKept, Loaded
<1>0. ~strayed /\ EditsKept
  <2>1. strayed => strayed'
    BY Zenon DEF GymNext, gymVars, StartTurn, Crash, Score, PrepareReturns, Effects, HarvestPatch, SaveCheckpoint,
                 TurnReturns, TurnThrows, AttemptOver, Unpark
  <2> QED
    BY Zenon, <2>1
<1>1. ASSUME NEW w \in Workers, StartTurn(w) PROVE EditsKept'
  <2>1. CASE pod[w] # Nowhere
    <3>1. home \in {w, Nowhere} /\ UNCHANGED pod
      BY <1>1, <2>1, Zenon DEF StartTurn
    <3> QED
      BY Zenon, <1>0, <1>1, <2>1, <3>1 DEF StartTurn
  <2>2. CASE pod[w] = Nowhere
    <3>1. BuildSandboxRunner(w, Loaded)
      BY <1>1, <2>2, Zenon DEF StartTurn
    <3> QED
      BY Zenon, <1>0, <1>1, <2>2, <3>1 DEF StartTurn, BuildSandboxRunner
  <2> QED
    BY Zenon, <2>1, <2>2
<1>2. ASSUME NEW w \in Workers, Gone(w), AttemptOver \/ (at # w /\ UNCHANGED at), UNCHANGED <<lastPatch, checkpoint, home>>
      PROVE  EditsKept'
  BY Zenon, <1>0, <1>2 DEF Gone, AttemptOver, Idle
<1>3. ASSUME NEW w \in Workers, Crash(w) PROVE EditsKept'
  BY Zenon, <1>2, <1>3 DEF Crash, AttemptOver
<1>4. ASSUME NEW w \in Workers, Score(w) PROVE EditsKept'
  BY Zenon, <1>2, <1>4 DEF Score
<1>5. CASE PrepareReturns
  BY Zenon, <1>0, <1>5 DEF PrepareReturns
<1>6. CASE Effects
  BY <1>0, <1>6 DEF Effects
<1>7. CASE HarvestPatch
  BY Zenon, <1>0, <1>7 DEF HarvestPatch
<1>8. CASE SaveCheckpoint
  BY Zenon, <1>0, <1>8 DEF SaveCheckpoint, Save
<1>9. CASE TurnReturns
  BY Zenon, <1>0, <1>9 DEF TurnReturns, Idle
<1>10. CASE TurnThrows
  BY Zenon, <1>0, <1>10 DEF TurnThrows, AttemptOver, Idle
<1>11. CASE Unpark
  BY Zenon, <1>0, <1>11 DEF Unpark
<1>12. CASE UNCHANGED gymVars
  BY Zenon, <1>0, <1>12 DEF gymVars
<1> QED
  BY ZenonT(30), <1>1, <1>3, <1>4, <1>5, <1>6, <1>7, <1>8, <1>9, <1>10, <1>11, <1>12 DEF GymNext

\* What a finished turn of gymAttemptWorkflow reported is in the workspace of every
\* later turn, over any number of worker crashes, retries and parks, unless the task
\* queue gave a turn to another worker that still had a pod or a checkpoint could not
\* be read.
THEOREM CommittedEditsAlwaysSurvive == GymSpec => []CommittedEditsSurvive
<1>1. GymIInv /\ [GymNext]_gymVars => GymIInv'
  BY Zenon, GymTypes, PodStays, EditsStay DEF GymIInv
<1>2. GymIInv => CommittedEditsSurvive
  BY Zenon DEF GymIInv, EditsKept, CommittedEditsSurvive
<1> QED
  BY GymStarts, <1>1, <1>2, PTL DEF GymSpec

-----------------------------------------------------------------------------
(* The scorer and its worker.                                                 *)

\* Taking the first message off a pipe, and putting one on.
LEMMA Taken ==
  ASSUME NEW S, NEW s \in Seq(S), s # <<>>
  PROVE  /\ Tail(s) \in Seq(S) /\ 1 \in DOMAIN s /\ Head(s) = s[1] /\ s[1] \in S
         /\ \A i \in DOMAIN Tail(s) : i \in Nat \ {0} /\ i + 1 \in DOMAIN s /\ Tail(s)[i] = s[i + 1]
  BY HeadTailProperties, LenProperties

LEMMA Appended ==
  ASSUME NEW S, NEW s \in Seq(S), NEW e \in S
  PROVE  /\ Append(s, e) \in Seq(S)
         /\ \A i \in DOMAIN Append(s, e) :
               \/ i \in DOMAIN s /\ Append(s, e)[i] = s[i]
               \/ i = Len(s) + 1 /\ i \notin DOMAIN s /\ Append(s, e)[i] = e
  BY AppendProperties, LenProperties

\* The scorer starts with nothing asked, answered or decided.
LEMMA ScoringStarts == ScoringInit => ScoringIInv
<1> SUFFICES ASSUME ScoringInit PROVE ScoringIInv
  BY Zenon
<1> USE ScoringAssumption DEF ScoringInit, Cases
<1>1. ScoringTypeOK
  BY DEF ScoringTypeOK
<1>2. AskedInOrder
  BY DEF AskedInOrder
<1>3. AnsweredOnce
  BY DEF AnsweredOnce
<1> QED
  BY <1>1, <1>2, <1>3 DEF ScoringIInv, Decided, ResultsAreTrue

\* A case gets its result: what was asked before stays as it was, and the case waited
\* for is settled with an error or with the value that was computed for it.
LEMMA ResolveKeeps ==
  ASSUME ScoringIInv, NEW result \in {"ok", "no", "error"}, phase = "wait", Resolve(result),
         UNCHANGED <<inbox, computed, verdict>>,
         protocol' = protocol \/ (protocol # <<>> /\ protocol' = Tail(protocol)),
         result # "error" =>
            /\ \A i \in DOMAIN inbox : inbox[i] # Len(caseResults) + 1
            /\ result = "ok" => computed[Len(caseResults) + 1] = "right"
            /\ result = "no" => computed[Len(caseResults) + 1] = "wrong"
  PROVE  ScoringIInv'
<1> DEFINE n == Len(caseResults)
<1> USE ScoringAssumption DEF ScoringIInv, Cases
<1>1. /\ caseResults' \in Seq({"ok", "no", "error"}) /\ Len(caseResults') = n + 1 /\ n \in Nat
      /\ DOMAIN caseResults' = 1 .. n + 1 /\ DOMAIN caseResults = 1 .. n
      /\ \A c \in 1 .. n : caseResults'[c] = caseResults[c]
      /\ caseResults'[n + 1] = result
  BY DEF Resolve, ScoringTypeOK
<1>2. /\ protocol' \in Seq(Answers)
      /\ \A i \in DOMAIN protocol' : \E j \in DOMAIN protocol : protocol'[i] = protocol[j]
  <2>1. protocol \in Seq(Answers)
    BY Zenon DEF ScoringTypeOK
  <2>2. CASE protocol' = protocol
    BY Zenon, <2>1, <2>2
  <2>3. CASE protocol # <<>> /\ protocol' = Tail(protocol)
    BY <2>1, <2>3, Taken
  <2> QED
    BY Zenon, <2>2, <2>3
<1>3. /\ pending = {n + 1} /\ n < NumCases /\ pending' = {} /\ phase' = "case"
      /\ UNCHANGED <<inbox, computed, verdict>> /\ verdict = "none"
  BY Zenon DEF AskedInOrder, Resolve, Decided
<1> HIDE DEF n
<1>4. ScoringTypeOK'
  BY <1>1, <1>2, <1>3 DEF ScoringTypeOK
<1>5. AskedInOrder'
  <2>1. \A i \in DOMAIN inbox : inbox[i] \in 1 .. n \cup {n + 1}
    BY Zenon, <1>3 DEF AskedInOrder, n
  <2>2. \A i \in DOMAIN protocol : protocol[i].id \in 1 .. n \cup {n + 1}
    BY Zenon, <1>3 DEF AskedInOrder, n
  <2>3. ASSUME NEW i \in DOMAIN protocol' PROVE protocol'[i].id \in 1 .. n + 1
    <3>1. PICK j \in DOMAIN protocol : protocol'[i] = protocol[j]
      BY Zenon, <1>2
    <3>2. protocol[j].id \in 1 .. n \cup {n + 1}
      BY Zenon, <2>2
    <3> QED
      BY <1>1, <3>1, <3>2
  <2>4. Len(caseResults') = n + 1 /\ 1 .. n \cup {n + 1} = 1 .. n + 1
    BY <1>1
  <2>5. phase' = "case" /\ pending' = {} /\ UNCHANGED inbox
    BY Zenon, <1>3
  <2> QED
    BY Zenon, <2>1, <2>3, <2>4, <2>5 DEF AskedInOrder
<1>6. AnsweredOnce'
  <2>1. ASSUME NEW i \in DOMAIN inbox, inbox[i] \in DOMAIN caseResults' PROVE caseResults'[inbox[i]] = "error"
    BY <1>1, <2>1 DEF AnsweredOnce, n
  <2>2. ASSUME NEW j \in DOMAIN protocol'
        PROVE  /\ \A i \in DOMAIN inbox : inbox[i] # protocol'[j].id
               /\ protocol'[j].value = computed[protocol'[j].id]
    BY <1>2 DEF AnsweredOnce
  <2> QED
    BY <1>3, <2>1, <2>2 DEF AnsweredOnce
<1>7. ResultsAreTrue'
  BY <1>1, <1>3 DEF ResultsAreTrue, n
<1> QED
  BY Zenon, <1>3, <1>4, <1>5, <1>6, <1>7 DEF Decided

\* The verifier sends the next case, or gives up on it when the worker is gone.
LEMMA SendKeeps == ASSUME ScoringIInv, SendCase PROVE ScoringIInv'
<1> DEFINE n == Len(caseResults)
<1> USE ScoringAssumption DEF ScoringIInv, Cases
<1>0. /\ phase = "case" /\ pending = {} /\ verdict = "none" /\ n \in Nat /\ n < NumCases /\ DOMAIN caseResults = 1 .. n
      /\ UNCHANGED <<protocol, verdict, computed>>
  BY DEF SendCase, AskedInOrder, Decided, ScoringTypeOK
<1>1. CASE workerDead
  <2>1. caseResults' = Append(caseResults, "error") /\ UNCHANGED <<phase, inbox, pending>>
    BY Zenon, <1>1 DEF SendCase
  <2>2. /\ caseResults' \in Seq({"ok", "no", "error"}) /\ Len(caseResults') = n + 1 /\ DOMAIN caseResults' = 1 .. n + 1
        /\ \A c \in 1 .. n : caseResults'[c] = caseResults[c]
        /\ caseResults'[n + 1] = "error"
    BY <1>0, <2>1 DEF ScoringTypeOK
  <2> HIDE DEF n
  <2>3. ScoringTypeOK'
    BY <1>0, <2>1, <2>2 DEF ScoringTypeOK
  <2>4. AskedInOrder'
    BY <1>0, <2>1, <2>2 DEF AskedInOrder, n
  <2>5. AnsweredOnce'
    BY <1>0, <2>1, <2>2 DEF AnsweredOnce
  <2>6. ResultsAreTrue'
    BY <1>0, <2>1, <2>2 DEF ResultsAreTrue
  <2> QED
    BY Zenon, <1>0, <2>3, <2>4, <2>5, <2>6 DEF Decided
<1>2. CASE ~workerDead
  <2>1. pending' = {n + 1} /\ inbox' = Append(inbox, n + 1) /\ phase' = "wait" /\ UNCHANGED caseResults
    BY Zenon, <1>2 DEF SendCase
  <2>2. inbox \in Seq(Cases) /\ n + 1 \in Cases
    BY <1>0 DEF ScoringTypeOK
  <2>3. /\ inbox' \in Seq(Cases)
        /\ \A i \in DOMAIN inbox' : \/ i \in DOMAIN inbox /\ inbox'[i] = inbox[i]
                                    \/ i = Len(inbox) + 1 /\ i \notin DOMAIN inbox /\ inbox'[i] = n + 1
    BY <2>1, <2>2, Appended
  <2>4. n = Len(caseResults)
    BY Zenon
  <2> HIDE DEF n
  <2>5. /\ \A i \in DOMAIN inbox : inbox[i] \in 1 .. n
        /\ \A j \in DOMAIN protocol : protocol[j].id \in 1 .. n
    BY Zenon, <1>0, <2>4 DEF AskedInOrder
  <2>6. ScoringTypeOK'
    BY Zenon, <1>0, <2>1, <2>3 DEF ScoringTypeOK
  <2>7. AskedInOrder'
    BY Zenon, <1>0, <2>1, <2>3, <2>4, <2>5 DEF AskedInOrder
  <2>8. AnsweredOnce'
    <3>1. ASSUME NEW i \in DOMAIN inbox', NEW j \in DOMAIN inbox', inbox'[i] = inbox'[j] PROVE i = j
      <4>1. CASE i \in DOMAIN inbox /\ inbox'[i] = inbox[i] /\ j \in DOMAIN inbox /\ inbox'[j] = inbox[j]
        BY Zenon, <3>1, <4>1 DEF AnsweredOnce
      <4>2. CASE i \in DOMAIN inbox /\ inbox'[i] = inbox[i] /\ inbox'[j] = n + 1
        <5>1. inbox[i] \in 1 .. n /\ inbox[i] = n + 1
          BY Zenon, <2>5, <3>1, <4>2
        <5> QED
          BY <1>0, <5>1
      <4>3. CASE inbox'[i] = n + 1 /\ j \in DOMAIN inbox /\ inbox'[j] = inbox[j]
        <5>1. inbox[j] \in 1 .. n /\ inbox[j] = n + 1
          BY Zenon, <2>5, <3>1, <4>3
        <5> QED
          BY <1>0, <5>1
      <4>4. CASE i = Len(inbox) + 1 /\ j = Len(inbox) + 1
        BY Zenon, <4>4
      <4> QED
        BY Zenon, <2>3, <4>1, <4>2, <4>3, <4>4
    <3>2. ASSUME NEW i \in DOMAIN inbox', NEW j \in DOMAIN protocol PROVE inbox'[i] # protocol[j].id
      <4>1. CASE i \in DOMAIN inbox /\ inbox'[i] = inbox[i]
        BY Zenon, <4>1 DEF AnsweredOnce
      <4>2. CASE inbox'[i] = n + 1
        BY <1>0, <2>5, <4>2
      <4> QED
        BY Zenon, <2>3, <4>1, <4>2
    <3>3. ASSUME NEW i \in DOMAIN inbox', inbox'[i] \in DOMAIN caseResults PROVE caseResults[inbox'[i]] = "error"
      <4>1. n + 1 \notin DOMAIN caseResults
        BY <1>0
      <4>2. i \in DOMAIN inbox /\ inbox'[i] = inbox[i]
        BY Zenon, <2>3, <3>3, <4>1
      <4> QED
        BY Zenon, <3>3, <4>2 DEF AnsweredOnce
    <3> QED
      BY Zenon, <1>0, <2>1, <3>1, <3>2, <3>3 DEF AnsweredOnce
  <2>9. ResultsAreTrue'
    BY Zenon, <1>0, <2>1 DEF ResultsAreTrue
  <2> QED
    BY Zenon, <1>0, <2>6, <2>7, <2>8, <2>9 DEF Decided
<1> QED
  BY Zenon, <1>1, <1>2

\* The worker answers its oldest request: no result listed so far rests on the value
\* it computed for that case before.
LEMMA WorkerAnswerKeeps ==
  ASSUME ScoringIInv, NEW v \in ScoreValues, WorkerAnswers(v) PROVE ScoringIInv'
<1> DEFINE h == Head(inbox)
           answer == [id |-> h, value |-> v]
<1> USE ScoringAssumption DEF ScoringIInv
<1>0. UNCHANGED <<phase, pending, caseResults, verdict>>
  BY Zenon DEF WorkerAnswers
<1>1. /\ inbox' \in Seq(Cases) /\ h \in Cases /\ 1 \in DOMAIN inbox /\ h = inbox[1]
      /\ \A i \in DOMAIN inbox' : i \in Nat \ {0} /\ i + 1 \in DOMAIN inbox /\ inbox'[i] = inbox[i + 1]
  BY Taken DEF WorkerAnswers, ScoringTypeOK
<1>2. /\ protocol' \in Seq(Answers)
      /\ \A j \in DOMAIN protocol' : \/ j \in DOMAIN protocol /\ protocol'[j] = protocol[j]
                                     \/ protocol'[j] = answer
  <2>1. answer \in Answers
    BY Zenon, <1>1 DEF Answers
  <2> HIDE DEF answer
  <2>2. protocol' = Append(protocol, answer)
    BY Zenon DEF WorkerAnswers, answer
  <2> QED
    BY <2>1, <2>2, Appended DEF ScoringTypeOK
<1>3. computed' = [computed EXCEPT ![h] = v] /\ computed \in [Cases -> ScoreValues \cup {"none"}]
  BY Zenon DEF WorkerAnswers, ScoringTypeOK
<1>4. answer.id = h /\ answer.value = v
  BY Zenon
<1> HIDE DEF h, answer
<1>5. ScoringTypeOK'
  BY Zenon, <1>0, <1>1, <1>2, <1>3 DEF ScoringTypeOK
<1>6. AskedInOrder'
  <2>1. phase \notin {"vet", "clone", "pod"}
    BY <1>1 DEF AskedInOrder
  <2>2. h \in 1 .. Len(caseResults) \cup pending
    BY Zenon, <1>1 DEF AskedInOrder
  <2> QED
    BY Zenon, <1>0, <1>1, <1>2, <1>4, <2>1, <2>2 DEF AskedInOrder
<1>7. AnsweredOnce'
  <2>1. ASSUME NEW i \in DOMAIN inbox' PROVE inbox'[i] # h
    BY <1>1 DEF AnsweredOnce
  <2>2. ASSUME NEW i \in DOMAIN inbox', NEW j \in DOMAIN inbox', inbox'[i] = inbox'[j] PROVE i = j
    BY <1>1, <2>2 DEF AnsweredOnce
  <2>3. ASSUME NEW i \in DOMAIN inbox', NEW j \in DOMAIN protocol' PROVE inbox'[i] # protocol'[j].id
    BY <1>1, <1>2, <1>4, <2>1 DEF AnsweredOnce
  <2>4. ASSUME NEW i \in DOMAIN inbox', inbox'[i] \in DOMAIN caseResults PROVE caseResults[inbox'[i]] = "error"
    BY <1>1, <2>4 DEF AnsweredOnce
  <2>5. ASSUME NEW j \in DOMAIN protocol' PROVE protocol'[j].value = computed'[protocol'[j].id]
    <3>1. CASE protocol'[j] = answer
      BY Zenon, <1>1, <1>3, <1>4, <3>1
    <3>2. CASE j \in DOMAIN protocol /\ protocol'[j] = protocol[j]
      <4>1. protocol[j].id # h /\ protocol[j].value = computed[protocol[j].id]
        BY Zenon, <1>1, <3>2 DEF AnsweredOnce
      <4>2. protocol[j].id \in Cases
        <5>1. protocol[j] \in Answers
          BY <3>2 DEF ScoringTypeOK
        <5> QED
          BY Zenon, <5>1 DEF Answers
      <4> QED
        BY Zenon, <1>3, <3>2, <4>1, <4>2
    <3> QED
      BY Zenon, <1>2, <3>1, <3>2
  <2> QED
    BY Zenon, <1>0, <2>2, <2>3, <2>4, <2>5 DEF AnsweredOnce
<1>8. ResultsAreTrue'
  <2>1. ASSUME NEW c \in DOMAIN caseResults, caseResults[c] # "error" PROVE c # h /\ c \in Cases
    BY <1>1, <2>1 DEF AnsweredOnce, ScoringTypeOK, Cases
  <2> QED
    BY Zenon, <1>0, <1>3, <2>1 DEF ResultsAreTrue
<1> QED
  BY Zenon, <1>0, <1>5, <1>6, <1>7, <1>8 DEF Decided

\* An answer is used only for the case that is waited for.
LEMMA MessageKeeps == ASSUME ScoringIInv, MessageArrives PROVE ScoringIInv'
<1> DEFINE m == Head(protocol)
<1> USE ScoringAssumption DEF ScoringIInv
<1>1. /\ protocol' = Tail(protocol) /\ protocol' \in Seq(Answers)
      /\ m \in Answers /\ 1 \in DOMAIN protocol /\ m = protocol[1]
      /\ \A i \in DOMAIN protocol' : \E j \in DOMAIN protocol : protocol'[i] = protocol[j]
  <2>1. protocol \in Seq(Answers) /\ protocol # <<>> /\ protocol' = Tail(protocol)
    BY Zenon DEF MessageArrives, ScoringTypeOK
  <2> QED
    BY <2>1, Taken
<1>2. UNCHANGED <<inbox, computed, verdict>> /\ protocol # <<>>
  BY Zenon DEF MessageArrives
<1>3. CASE m.id \in pending
  <2>1. phase = "wait" /\ m.id = Len(caseResults) + 1
    BY Zenon, <1>3 DEF AskedInOrder
  <2>2. m.value \in ScoreValues /\ m.value = computed[m.id] /\ \A i \in DOMAIN inbox : inbox[i] # m.id
    BY <1>1 DEF AnsweredOnce, Answers
  <2>3. Resolve(Judged(m.value))
    BY Zenon, <1>3 DEF MessageArrives
  <2>4. /\ Judged(m.value) \in {"ok", "no", "error"}
        /\ Judged(m.value) = "ok" => m.value = "right"
        /\ Judged(m.value) = "no" => m.value = "wrong"
    BY Zenon, <2>2 DEF Judged, ScoreValues
  <2> HIDE DEF m
  <2> QED
    BY Zenon, <1>1, <1>2, <2>1, <2>2, <2>3, <2>4, ResolveKeeps
<1>4. CASE m.id \notin pending
  <2>1. UNCHANGED <<caseResults, pending, phase>>
    BY Zenon, <1>4 DEF MessageArrives
  <2>2. ScoringTypeOK'
    BY Zenon, <1>1, <1>2, <2>1 DEF ScoringTypeOK
  <2>3. AskedInOrder'
    <3>1. phase \notin {"vet", "clone", "pod"}
      BY Zenon, <1>2 DEF AskedInOrder
    <3>2. ASSUME NEW i \in DOMAIN protocol' PROVE protocol'[i].id \in 1 .. Len(caseResults) \cup pending
      BY Zenon, <1>1 DEF AskedInOrder
    <3> QED
      BY Zenon, <1>2, <2>1, <3>1, <3>2 DEF AskedInOrder
  <2>4. AnsweredOnce'
    <3>1. ASSUME NEW j \in DOMAIN protocol'
          PROVE  /\ \A i \in DOMAIN inbox : inbox[i] # protocol'[j].id
                 /\ protocol'[j].value = computed[protocol'[j].id]
      BY <1>1 DEF AnsweredOnce
    <3> QED
      BY Zenon, <1>2, <2>1, <3>1 DEF AnsweredOnce
  <2> QED
    BY Zenon, <1>2, <2>1, <2>2, <2>3, <2>4 DEF Decided, ResultsAreTrue
<1> QED
  BY Zenon, <1>3, <1>4

\* A verdict taken from a full list of results, with nothing asked any more.
LEMMA DecideKeeps ==
  ASSUME ScoringIInv, NEW v \in {"tampered", "errored", "timed-out", "passed", "failed"},
         phase \in {"clone", "case", "pod"}, Decide(v),
         UNCHANGED <<inbox, protocol, pending, caseResults, computed>>,
         v \in {"passed", "failed"} => Len(caseResults) = NumCases /\ v = Outcome(caseResults)
  PROVE  ScoringIInv'
<1> USE DEF ScoringIInv, Decide
<1>1. ScoringTypeOK'
  BY Zenon DEF ScoringTypeOK
<1>2. AskedInOrder'
  BY Zenon DEF AskedInOrder
<1>3. AnsweredOnce'
  BY Zenon DEF AnsweredOnce
<1>4. Decided'
  BY Zenon DEF Decided, Outcome
<1>5. ResultsAreTrue'
  BY Zenon DEF ResultsAreTrue
<1> QED
  BY Zenon, <1>1, <1>2, <1>3, <1>4, <1>5

\* The batch worker in a pod answers every case at once.
LEMMA PodKeeps == ASSUME ScoringIInv, PodScore PROVE ScoringIInv'
<1> USE ScoringAssumption DEF ScoringIInv, Cases
<1>1. UNCHANGED <<inbox, protocol, pending>> /\ inbox = <<>> /\ protocol = <<>> /\ pending = {} /\ phase = "pod"
  BY Zenon DEF PodScore, AskedInOrder
<1>2. ASSUME NEW v \in {"errored", "timed-out"}, Decide(v), UNCHANGED <<caseResults, computed>> PROVE ScoringIInv'
  BY Zenon, <1>1, <1>2, DecideKeeps
<1>3. ASSUME NEW vs \in [Cases -> ScoreValues], computed' = vs, caseResults' = [c \in Cases |-> Judged(vs[c])],
             Decide(Outcome(caseResults'))
      PROVE  ScoringIInv'
  <2>1. \A c \in Cases : /\ Judged(vs[c]) \in {"ok", "no", "error"}
                         /\ Judged(vs[c]) = "ok" => vs[c] = "right"
                         /\ Judged(vs[c]) = "no" => vs[c] = "wrong"
    BY Zenon DEF Judged, ScoreValues
  <2>2. caseResults' \in Seq({"ok", "no", "error"}) /\ Len(caseResults') = NumCases
    BY <1>3, <2>1
  <2>3. Outcome(caseResults') \in {"passed", "failed", "errored"} /\ phase' = "clean" /\ verdict' = Outcome(caseResults')
    BY Zenon, <1>3 DEF Outcome, Decide
  <2>4. ScoringTypeOK'
    BY <1>1, <1>3, <2>2, <2>3 DEF ScoringTypeOK
  <2>5. AskedInOrder' /\ AnsweredOnce'
    BY <1>1, <2>3 DEF AskedInOrder, AnsweredOnce
  <2>6. Decided'
    BY Zenon, <2>2, <2>3 DEF Decided, Outcome
  <2>7. ResultsAreTrue'
    BY Zenon, <1>3, <2>1 DEF ResultsAreTrue
  <2> QED
    BY Zenon, <2>4, <2>5, <2>6, <2>7
<1> QED
  BY Zenon, <1>2, <1>3 DEF PodScore

\* Every step of the verifier and the worker keeps the invariant.
LEMMA ScoringKeeps == ScoringIInv /\ [ScoringNext]_scoringVars => ScoringIInv'
<1> SUFFICES ASSUME ScoringIInv, [ScoringNext]_scoringVars PROVE ScoringIInv'
  BY Zenon
<1> USE ScoringAssumption
<1>1. ASSUME UNCHANGED <<inbox, protocol, pending, caseResults, computed>>,
             \/ UNCHANGED <<phase, verdict>>
             \/ phase = "vet" /\ phase' = "done" /\ verdict' \in {"tampered", "errored"}
             \/ phase = "vet" /\ phase' = "clone" /\ UNCHANGED verdict
             \/ phase = "clone" /\ phase' \in {"pod", "case"} /\ UNCHANGED verdict
             \/ phase = "clean" /\ phase' = "done" /\ UNCHANGED verdict
      PROVE  ScoringIInv'
  <2> USE DEF ScoringIInv
  <2>1. ScoringTypeOK'
    BY Zenon, <1>1 DEF ScoringTypeOK
  <2>2. AskedInOrder'
    BY Zenon, <1>1 DEF AskedInOrder
  <2>3. AnsweredOnce' /\ ResultsAreTrue'
    BY Zenon, <1>1 DEF AnsweredOnce, ResultsAreTrue
  <2>4. Decided'
    BY Zenon, <1>1 DEF Decided, Outcome
  <2> QED
    BY Zenon, <2>1, <2>2, <2>3, <2>4
<1>2. CASE Vet
  BY Zenon, <1>1, <1>2 DEF Vet
<1>3. CASE CloneAndSpawn
  <2>1. ASSUME NEW v \in {"errored", "tampered"}, Decide(v) PROVE ScoringIInv'
    BY Zenon, <1>3, <2>1, DecideKeeps DEF CloneAndSpawn
  <2> QED
    BY Zenon, <1>1, <1>3, <2>1 DEF CloneAndSpawn
<1>4. CASE SendCase
  BY Zenon, <1>4, SendKeeps
<1>5. CASE WorkerExits
  BY Zenon, <1>1, <1>5 DEF WorkerExits
<1>6. CASE MessageArrives
  BY Zenon, <1>6, MessageKeeps
<1>7. CASE ExitSeen
  <2>1. CASE pending # {}
    <3>1. phase = "wait"
      BY Zenon, <2>1 DEF ScoringIInv, AskedInOrder
    <3> QED
      BY Zenon, <1>7, <2>1, <3>1, ResolveKeeps DEF ExitSeen
  <2>2. CASE pending = {}
    BY Zenon, <1>1, <1>7, <2>2 DEF ExitSeen
  <2> QED
    BY Zenon, <2>1, <2>2
<1>8. CASE CaseTimesOut
  BY Zenon, <1>8, ResolveKeeps DEF CaseTimesOut
<1>9. CASE JudgeCases
  <2>1. Outcome(caseResults) \in {"passed", "failed", "errored"}
    BY Zenon DEF Outcome
  <2> QED
    BY Zenon, <1>9, <2>1, DecideKeeps DEF JudgeCases
<1>10. CASE PodScore
  BY Zenon, <1>10, PodKeeps
<1>11. CASE CleanUp
  BY Zenon, <1>1, <1>11 DEF CleanUp
<1>12. ASSUME NEW v \in ScoreValues, WorkerAnswers(v) PROVE ScoringIInv'
  BY Zenon, <1>12, WorkerAnswerKeeps
<1>13. CASE UNCHANGED scoringVars
  BY Zenon, <1>1, <1>13 DEF scoringVars
<1> QED
  BY ZenonT(30), <1>2, <1>3, <1>4, <1>5, <1>6, <1>7, <1>8, <1>9, <1>10, <1>11, <1>12, <1>13 DEF ScoringNext

\* For any number of cases, however late answers are, whichever cases time out and
\* whenever the worker dies, isolatedScoreGymPatch passes a patch only when the worker
\* computed the expected value of every case, fails it only when every case was
\* answered and one of them wrongly, and lists for a case only that case's result.
THEOREM ScoreIsAlwaysTrue == ScoringSpec => []VerdictIsTrue
<1>1. ScoringIInv => VerdictIsTrue
  <2> SUFFICES ASSUME ScoringIInv PROVE VerdictIsTrue
    BY Zenon
  <2> USE ScoringAssumption DEF ScoringIInv
  <2>1. ASSUME verdict \in {"passed", "failed"}
        PROVE  DOMAIN caseResults = Cases /\ verdict = Outcome(caseResults)
               /\ \A c \in Cases : caseResults[c] \in {"ok", "no", "error"}
    BY <2>1 DEF Decided, ScoringTypeOK, Cases
  <2>2. verdict = "passed" => \A c \in Cases : computed[c] = "right"
    BY Zenon, <2>1 DEF Outcome, ResultsAreTrue
  <2>3. ASSUME verdict = "failed"
        PROVE  /\ \A c \in Cases : computed[c] \in {"right", "wrong"}
               /\ \E c \in Cases : computed[c] = "wrong"
    BY Zenon, <2>1, <2>3 DEF Outcome, ResultsAreTrue
  <2> QED
    BY Zenon, <2>2, <2>3 DEF VerdictIsTrue, ResultsAreTrue
<1> QED
  BY ScoringStarts, ScoringKeeps, <1>1, PTL DEF ScoringSpec

-----------------------------------------------------------------------------
(* The graph interpreter.                                                     *)

\* A path and the one below it.
LEMMA PathFacts ==
  ASSUME NEW p \in Paths
  PROVE  /\ NodeOf(p) \in Nodes
         /\ \A i \in Int, n \in Nodes : Sub(p, i, n) \in Paths /\ NodeOf(Sub(p, i, n)) = n
<1>1. p \in Seq(Int \X Nodes) /\ p # << >> /\ Len(p) \in Nat /\ Len(p) # 0
  BY Zenon, EmptySeq, LenProperties DEF Paths
<1>2. p[Len(p)] \in Int \X Nodes
  BY <1>1, ElementOfSeq
<1>3. NodeOf(p) \in Nodes
  BY Zenon, <1>2 DEF NodeOf
<1>4. ASSUME NEW i \in Int, NEW n \in Nodes
      PROVE  Sub(p, i, n) \in Paths /\ NodeOf(Sub(p, i, n)) = n
  <2>1. <<i, n>> \in Int \X Nodes
    BY Zenon
  <2>2. /\ Append(p, <<i, n>>) \in Seq(Int \X Nodes) /\ Append(p, <<i, n>>) # << >>
        /\ Len(Append(p, <<i, n>>)) = Len(p) + 1 /\ Append(p, <<i, n>>)[Len(p) + 1] = <<i, n>>
    BY <1>1, <2>1, AppendProperties
  <2> QED
    BY <2>2 DEF Sub, Paths, NodeOf
<1> QED
  BY Zenon, <1>3, <1>4

\* The steps of a sequence that are made are fewer than its steps, unless all are made.
LEMMA NextOfSequence ==
  ASSUME NEW p \in Paths, NEW made \in SUBSET SubPaths(p), made # SubPaths(p), Kind[NodeOf(p)] # "loop"
  PROVE  Cardinality(made) + 1 \in DOMAIN Steps[NodeOf(p)]
<1> DEFINE n == NodeOf(p)
           f == [i \in DOMAIN Steps[n] |-> Sub(p, i, Steps[n][i])]
<1>1. n \in Nodes /\ Steps[n] \in Seq(Nodes)
  BY Zenon, PathFacts, GraphAssumption
<1>2. DOMAIN Steps[n] = 1 .. Len(Steps[n]) /\ Len(Steps[n]) \in Nat
  BY Zenon, <1>1, LenProperties
<1>3. SubPaths(p) = {f[i] : i \in DOMAIN Steps[n]}
  BY Zenon DEF SubPaths, Positions, StepAt
<1>4. f \in Surjection(1 .. Len(Steps[n]), SubPaths(p))
  BY Zenon, <1>2, <1>3 DEF Surjection
<1>5. IsFiniteSet(1 .. Len(Steps[n])) /\ Cardinality(1 .. Len(Steps[n])) = Len(Steps[n])
  BY <1>2, FS_Interval
<1> HIDE DEF f
<1>6. IsFiniteSet(SubPaths(p)) /\ Cardinality(SubPaths(p)) <= Len(Steps[n])
  BY <1>4, <1>5, FS_Surjection
<1>7. IsFiniteSet(made) /\ Cardinality(made) <= Cardinality(SubPaths(p)) /\ Cardinality(made) # Cardinality(SubPaths(p))
  BY Zenon, <1>6, FS_Subset
<1>8. Cardinality(made) \in Nat /\ Cardinality(SubPaths(p)) \in Nat
  BY Zenon, <1>6, <1>7, FS_CardinalityType
<1> QED
  BY <1>2, <1>6, <1>7, <1>8

\* The iteration a loop is at: one it may make, or the number of all.
LEMMA IterationIs ==
  ASSUME NEW p \in Paths, Kind[NodeOf(p)] = "loop"
  PROVE  Iteration(p) \in 0 .. MaxIterations[NodeOf(p)]
<1> DEFINE n == NodeOf(p)
           max == MaxIterations[n]
           Left(i) == i < max => Sub(p, i, StepAt(n, i)) \notin journal
           D == {i \in 0 .. max : Left(i)}
           R == {q \in Nat \X Nat : q[1] < q[2]}
<1>1. max \in Nat
  BY Zenon, PathFacts, GraphAssumption
<1>2. PICK x \in D : \A y \in D : ~(<<y, x>> \in R)
  <2>1. IsWellFoundedOn(R, Nat)
    BY Zenon, NatLessThanWellFounded DEF OpToRel
  <2>2. D \subseteq Nat /\ D # {}
    BY <1>1
  <2> HIDE DEF R, D
  <2> QED
    BY Zenon, <2>1, <2>2, WFMin
<1>3. \A y \in 0 .. x - 1 : y \notin D
  <2> SUFFICES ASSUME NEW y \in 0 .. x - 1, y \in D
               PROVE  FALSE
    BY Zenon
  <2>1. <<y, x>> \in R
    BY <1>1
  <2> HIDE DEF R, D
  <2> QED
    BY Zenon, <1>2, <2>1
<1>4. \A y \in 0 .. x - 1 : Sub(p, y, StepAt(n, y)) \in journal
  BY <1>1, <1>3
<1> QED
  BY Zenon, <1>4 DEF Iteration

\* The calls a call makes are its own, and none of them is under way.
LEMMA NextCallsAreNew ==
  ASSUME NEW p \in Paths
  PROVE  NextCalls(p) \subseteq SubPaths(p) \ calls /\ NextCalls(p) \subseteq Paths
<1> DEFINE n == NodeOf(p)
           made == SubPaths(p) \cap (calls \cup back)
           waiting == SubPaths(p) \cap calls # {}
<1>1. n \in Nodes /\ Steps[n] \in Seq(Nodes)
  BY Zenon, PathFacts, GraphAssumption
<1>2. SubPaths(p) \subseteq Paths
  <2> SUFFICES ASSUME NEW i \in Positions(n)
               PROVE  Sub(p, i, StepAt(n, i)) \in Paths
    BY Zenon DEF SubPaths
  <2>1. i \in Int /\ StepAt(n, i) \in Nodes
    <3>1. CASE Kind[n] = "loop"
      <4>1. MaxIterations[n] \in Nat /\ Len(Steps[n]) = 1
        BY Zenon, <1>1, <3>1, GraphAssumption
      <4>2. 1 \in DOMAIN Steps[n]
        BY <1>1, <4>1, LenProperties
      <4> QED
        BY <1>1, <3>1, <4>1, <4>2, ElementOfSeq DEF Positions, StepAt
    <3>2. CASE Kind[n] # "loop"
      <4>1. DOMAIN Steps[n] = 1 .. Len(Steps[n]) /\ Len(Steps[n]) \in Nat
        BY Zenon, <1>1, LenProperties
      <4>2. i \in 1 .. Len(Steps[n])
        BY Zenon, <3>2, <4>1 DEF Positions
      <4> QED
        BY <1>1, <3>2, <4>1, <4>2, ElementOfSeq DEF StepAt
    <3> QED
      BY ZenonT(30), <3>1, <3>2
  <2> QED
    BY Zenon, <2>1, PathFacts
<1>3. NextCalls(p) \subseteq SubPaths(p) \ calls
  <2>1. CASE Kind[n] = "leaf"
    BY Zenon, <2>1 DEF NextCalls
  <2>2. CASE Kind[n] = "sequence"
    <3>1. CASE waiting \/ made = SubPaths(p)
      BY Zenon, <2>2, <3>1 DEF NextCalls
    <3>2. CASE ~waiting /\ made # SubPaths(p)
      <4> DEFINE i == Cardinality(made) + 1
      <4>1. i \in DOMAIN Steps[n]
        BY Zenon, <2>2, <3>2, NextOfSequence
      <4>2. NextCalls(p) = {Sub(p, i, Steps[n][i])}
        BY Zenon, <2>2, <3>2 DEF NextCalls
      <4> HIDE DEF i
      <4>3. Sub(p, i, Steps[n][i]) \in SubPaths(p)
        BY Zenon, <2>2, <4>1 DEF SubPaths, Positions, StepAt
      <4> QED
        BY Zenon, <3>2, <4>2, <4>3
    <3> QED
      BY Zenon, <3>1, <3>2
  <2>3. CASE Kind[n] = "fanout"
    BY Zenon, <2>3 DEF NextCalls
  <2>4. CASE Kind[n] = "branch"
    <3>1. CASE made # {} \/ Chosen(n) = 0
      BY Zenon, <2>4, <3>1 DEF NextCalls
    <3>2. CASE made = {} /\ Chosen(n) # 0
      <4>1. Chosen(n) \in DOMAIN Steps[n]
        <5>1. Len(Steps[n]) \in {1, 2} /\ DOMAIN Steps[n] = 1 .. Len(Steps[n])
          BY Zenon, <1>1, <2>4, GraphAssumption, LenProperties
        <5> QED
          BY <3>2, <5>1 DEF Chosen
      <4>2. NextCalls(p) = {Sub(p, Chosen(n), Steps[n][Chosen(n)])}
        BY Zenon, <2>4, <3>2 DEF NextCalls
      <4>3. Sub(p, Chosen(n), Steps[n][Chosen(n)]) \in SubPaths(p)
        BY Zenon, <2>4, <4>1 DEF SubPaths, Positions, StepAt
      <4> QED
        BY Zenon, <3>2, <4>2, <4>3
    <3> QED
      BY Zenon, <3>1, <3>2
  <2>5. CASE Kind[n] \notin {"leaf", "sequence", "fanout", "branch"}
    <3>1. CASE waiting \/ LoopEnds(p)
      BY Zenon, <2>5, <3>1 DEF NextCalls
    <3>2. CASE ~waiting /\ ~LoopEnds(p)
      <4>1. Kind[n] = "loop"
        BY ZenonT(30), <1>1, <2>5, GraphAssumption
      <4>2. Iteration(p) \in Positions(n)
        <5>1. MaxIterations[n] \in Nat
          BY Zenon, <1>1, <4>1, GraphAssumption
        <5> QED
          BY <3>2, <4>1, <5>1, IterationIs DEF LoopEnds, Positions
      <4>3. NextCalls(p) = {Sub(p, Iteration(p), Steps[n][1])}
        BY Zenon, <2>5, <3>2 DEF NextCalls
      <4>4. Sub(p, Iteration(p), Steps[n][1]) \in SubPaths(p)
        BY Zenon, <4>1, <4>2 DEF SubPaths, StepAt
      <4> QED
        BY Zenon, <3>2, <4>3, <4>4
    <3> QED
      BY Zenon, <3>1, <3>2
  <2> QED
    BY Zenon, <2>1, <2>2, <2>3, <2>4, <2>5
<1> QED
  BY Zenon, <1>2, <1>3

\* Counting once more.
LEMMA TimesIsNumber ==
  ASSUME NEW f, f \in [DOMAIN f -> Nat]
  PROVE  \A p : Times(f, p) \in Nat
  BY DEF Times

LEMMA CountIsFunction ==
  ASSUME NEW f, f \in [DOMAIN f -> Nat], NEW S
  PROVE  Count(f, S) \in [DOMAIN Count(f, S) -> Nat]
  BY DEF Count, Times

LEMMA CountDomain ==
  ASSUME NEW f, NEW S
  PROVE  DOMAIN Count(f, S) = DOMAIN f \cup S
  BY DEF Count

LEMMA CountAdds ==
  ASSUME NEW f, f \in [DOMAIN f -> Nat], NEW S
  PROVE  \A p : Times(Count(f, S), p) = Times(f, p) + (IF p \in S THEN 1 ELSE 0)
  BY DEF Count, Times

LEMMA CountedTimes ==
  ASSUME NEW f, NEW S, NEW p \in DOMAIN Count(f, S)
  PROVE  Count(f, S)[p] = Times(f, p) + (IF p \in S THEN 1 ELSE 0)
  BY DEF Count, Times

\* A handler is called for an occurrence that is neither under way nor journaled,
\* and an occurrence leaves the calls when it is journaled or counted as dropped.
LEMMA GraphKeeps == GraphIInv /\ [GraphNext]_graphVars => GraphIInv'
<1> SUFFICES ASSUME GraphIInv, [GraphNext]_graphVars
             PROVE  GraphIInv'
  BY Zenon
<1>t. /\ calls \subseteq Paths /\ started \in [DOMAIN started -> Nat] /\ dropped \in [DOMAIN dropped -> Nat]
      /\ \A q \in DOMAIN started : Kind[NodeOf(q)] = "leaf" /\ StartedForGood(q)
  BY Zenon DEF GraphIInv
<1>n. \A q : Times(dropped, q) \in Nat /\ Times(started, q) \in Nat
  BY Zenon, <1>t, TimesIsNumber
<1>s. ASSUME UNCHANGED <<started, dropped>>, calls' \subseteq Paths, calls \cup journal \subseteq calls' \cup journal'
      PROVE  GraphIInv'
  <2>1. ASSUME NEW q \in DOMAIN started
        PROVE  StartedForGood(q)'
    <3>1. StartedForGood(q) /\ started[q] \in Nat
      BY Zenon, <1>t
    <3> QED
      BY <1>s, <1>n, <3>1 DEF StartedForGood, Times
  <2> QED
    BY Zenon, <1>s, <1>t, <2>1 DEF GraphIInv
<1>1. ASSUME NEW p \in calls, ExecuteGraph(p)
      PROVE  GraphIInv'
  <2> DEFINE made == NextCalls(p)
             S == Leaves(made \ Cached(made))
  <2>1. calls' = calls \cup (made \ Cached(made)) /\ started' = Count(started, S) /\ UNCHANGED <<journal, dropped>>
    BY Zenon, <1>1 DEF ExecuteGraph
  <2>2. made \subseteq SubPaths(p) \ calls /\ made \subseteq Paths
    BY Zenon, <1>t, NextCallsAreNew
  <2>3. \A q \in S : q \notin calls /\ q \notin journal /\ q \in calls' /\ Kind[NodeOf(q)] = "leaf"
    BY Zenon, <2>1, <2>2 DEF Leaves, Cached
  <2>4. calls' \subseteq Paths
    BY Zenon, <1>t, <2>1, <2>2
  <2> HIDE DEF S, made
  <2>5. /\ started' \in [DOMAIN started' -> Nat] /\ DOMAIN started' = DOMAIN started \cup S
        /\ \A q \in DOMAIN started' : started'[q] = Times(started, q) + (IF q \in S THEN 1 ELSE 0)
    <3>1. started \in [DOMAIN started -> Nat]
      BY Zenon, <1>t
    <3>2. Count(started, S) \in [DOMAIN Count(started, S) -> Nat]
      BY Zenon, <3>1, CountIsFunction
    <3>3. started' = Count(started, S)
      BY Zenon, <2>1
    <3>4. DOMAIN started' = DOMAIN started \cup S
      BY Zenon, <3>3, CountDomain
    <3>5. \A q \in DOMAIN started' : started'[q] = Times(started, q) + (IF q \in S THEN 1 ELSE 0)
      <4>1. \A q \in DOMAIN Count(started, S) : Count(started, S)[q] = Times(started, q) + (IF q \in S THEN 1 ELSE 0)
        BY Zenon, CountedTimes
      <4> QED
        BY <3>3, <4>1
    <3>6. started' \in [DOMAIN started' -> Nat]
      BY Zenon, <3>2, <3>3
    <3> QED
      BY Zenon, <3>4, <3>5, <3>6
  <2>6. ASSUME NEW q \in DOMAIN started'
        PROVE  Kind[NodeOf(q)] = "leaf" /\ StartedForGood(q)'
    <3>1. started'[q] = Times(started, q) + (IF q \in S THEN 1 ELSE 0)
      BY Zenon, <2>5
    <3>2. q \notin S => q \in DOMAIN started
      BY Zenon, <2>5
    <3>3. Times(started, q) <= Times(dropped, q) + (IF q \in calls \cup journal THEN 1 ELSE 0)
      BY <1>t, <1>n DEF Times, StartedForGood
    <3>4. Times(dropped, q)' = Times(dropped, q)
      BY Zenon, <2>1 DEF Times
    <3>5. CASE q \in S
      BY SMTT(20), <1>n, <2>1, <2>3, <3>1, <3>3, <3>4, <3>5 DEF StartedForGood
    <3>6. CASE q \notin S
      BY <1>n, <1>t, <2>1, <3>1, <3>2, <3>3, <3>4, <3>6 DEF StartedForGood
    <3> QED
      BY Zenon, <1>t, <2>3, <3>2, <3>5, <3>6
  <2> QED
    BY Zenon, <1>t, <2>1, <2>4, <2>5, <2>6 DEF GraphIInv
<1>2. ASSUME NEW p \in calls, NEW value, Complete(p, value)
      PROVE  GraphIInv'
  <2>1. UNCHANGED <<started, dropped>> /\ journal' = journal \cup {p} /\ (calls' = calls \/ calls' = calls \ {p})
    BY Zenon, <1>2 DEF Complete, OnNode
  <2> QED
    BY Zenon, <1>s, <1>t, <2>1
<1>3. ASSUME NEW p \in calls, HandlerReturns(p) \/ StepReturns(p)
      PROVE  GraphIInv'
  BY Zenon, <1>2, <1>3 DEF HandlerReturns, StepReturns
<1>4. ASSUME NEW p \in calls, HandlerFails(p)
      PROVE  GraphIInv'
  BY Zenon, <1>4, <1>s, <1>t DEF HandlerFails
<1>5. CASE Settle
  <2>1. CASE stop = "continue"
    <3> DEFINE S == Leaves(calls) \ journal
    <3>1. calls' = {RootPath} \ journal /\ dropped' = Count(dropped, S) /\ UNCHANGED <<journal, started>>
      BY Zenon, <1>5, <2>1 DEF Settle
    <3>2. RootPath \in Paths
      BY GraphAssumption DEF RootPath, Paths
    <3>3. \A q \in DOMAIN started : q \in calls /\ q \notin journal => q \in S
      BY Zenon, <1>t DEF Leaves
    <3> HIDE DEF S
    <3>4. /\ dropped' \in [DOMAIN dropped' -> Nat]
          /\ \A q : Times(dropped', q) = Times(dropped, q) + (IF q \in S THEN 1 ELSE 0)
      <4>t. dropped \in [DOMAIN dropped -> Nat]
        BY Zenon, <1>t
      <4>1. Count(dropped, S) \in [DOMAIN Count(dropped, S) -> Nat]
        BY Zenon, <4>t, CountIsFunction
      <4>2. \A q : Times(Count(dropped, S), q) = Times(dropped, q) + (IF q \in S THEN 1 ELSE 0)
        BY Zenon, <4>t, CountAdds
      <4>3. dropped' = Count(dropped, S)
        BY Zenon, <3>1
      <4> QED
        BY Zenon, <4>1, <4>2, <4>3
    <3>5. ASSUME NEW q \in DOMAIN started
          PROVE  StartedForGood(q)'
      <4>1. StartedForGood(q) /\ started[q] \in Nat
        BY Zenon, <1>t
      <4>2. Times(dropped, q)' = Times(dropped, q) + (IF q \in S THEN 1 ELSE 0)
        BY Zenon, <3>4 DEF Times
      <4> QED
        BY <1>n, <3>1, <3>3, <4>1, <4>2 DEF StartedForGood
    <3> QED
      BY Zenon, <1>t, <3>1, <3>2, <3>4, <3>5 DEF GraphIInv
  <2>2. CASE stop # "continue"
    BY Zenon, <1>5, <2>2, <1>s, <1>t DEF Settle
  <2> QED
    BY Zenon, <2>1, <2>2
<1>6. CASE CancelGraph
  BY Zenon, <1>6, <1>s, <1>t DEF CancelGraph
<1>7. CASE UNCHANGED graphVars
  BY Zenon, <1>7, <1>s, <1>t DEF graphVars
<1> QED
  BY Zenon, <1>1, <1>3, <1>4, <1>5, <1>6, <1>7 DEF GraphNext, GraphStep

\* The handler of a node's occurrence is called once, and again only after a run
\* that had called it was continued as new before it completed, for every graph
\* and every threshold (executeGraph, runGraphWorkflow).
THEOREM NodesRunOnce == GraphSpec => []NodeRunsOnce
<1>1. GraphInit => GraphIInv
  <2> SUFFICES ASSUME GraphInit PROVE GraphIInv
    BY Zenon
  <2>1. RootPath \in Paths
    BY GraphAssumption DEF RootPath, Paths
  <2>2. DOMAIN << >> = {} /\ << >> \in [{} -> Nat]
    OBVIOUS
  <2> QED
    BY Zenon, <2>1, <2>2 DEF GraphInit, GraphIInv
<1>2. GraphIInv => NodeRunsOnce
  <2> SUFFICES ASSUME GraphIInv, NEW p \in DOMAIN started
               PROVE  started[p] <= 1 + Times(dropped, p)
    BY Zenon DEF NodeRunsOnce
  <2>1. StartedForGood(p) /\ started[p] \in Nat /\ dropped \in [DOMAIN dropped -> Nat]
    BY Zenon DEF GraphIInv
  <2>2. Times(dropped, p) \in Nat
    BY Zenon, <2>1, TimesIsNumber
  <2> QED
    BY <2>1, <2>2 DEF StartedForGood
<1> QED
  BY <1>1, <1>2, GraphKeeps, PTL DEF GraphSpec
=============================================================================
