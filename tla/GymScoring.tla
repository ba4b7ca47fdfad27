----------------------------- MODULE GymScoring -----------------------------
(***************************************************************************)
(* isolatedScoreGymPatch (src/gym/scoring.ts): the verifier applies a      *)
(* patch to a clone, and asks a worker process for the value of each       *)
(* held-out case, one request at a time over a pipe, with a timeout per    *)
(* case.  With a cluster configured the same worker runs once in a pod and *)
(* answers all cases in a file (sandbox-worker.ts).                        *)
(*                                                                         *)
(* A value is "right", "wrong" (undefined included) or "threw".            *)
(***************************************************************************)
EXTENDS Integers, Sequences, FiniteSets

CONSTANT NumCases   \* options.cases.length

ASSUME ScoringAssumption == NumCases \in Nat

VARIABLES
    phase,      \* where the verifier is
    subject,    \* what the patch is, and where the worker is to run
    worker,     \* "none", "running", "exited", "killed"
    workerDead, \* the verifier has seen the exit
    inbox,      \* requests in the worker's stdin
    protocol,   \* answers in the pipe
    pending,    \* ids with a resolver in `responses`
    caseResults,    \* one entry per finished case: "ok", "no", "error"
    verdict,
    computed    \* history: what the worker computed for each case

scoringVars == <<phase, subject, worker, workerDead, inbox, protocol, pending, caseResults, verdict, computed>>

Cases == 1..NumCases
ScoreValues == {"right", "wrong", "threw"}

\* A patch touches protected paths (patchTargetPaths, isTampering), does not
\* apply, leaves a link that escapes the checkout, or is none of these.
PatchKinds == {"tampering", "unappliable", "escaping", "clean"}
Escaping == subject.patch = "escaping"   \* findEscapingSymlink

\* The cases given and sandboxScorerConfig: none, host worker, pod, or neither allowed.
Settings == {"no cases", "host", "pod", "refused"}

ScoringInit ==
    /\ phase = "vet" /\ subject \in [patch : PatchKinds, setting : Settings]
    /\ worker = "none" /\ workerDead = FALSE /\ inbox = <<>> /\ protocol = <<>> /\ pending = {}
    /\ caseResults = <<>> /\ verdict = "none" /\ computed = [c \in Cases |-> "none"]

Decide(v) == verdict' = v /\ phase' = "clean"

\* The checks before anything is created.
Vet ==
    /\ phase = "vet"
    /\ IF subject.patch = "tampering" THEN verdict' = "tampered" /\ phase' = "done"
       ELSE IF subject.setting \in {"no cases", "refused"} THEN verdict' = "errored" /\ phase' = "done"
       ELSE phase' = "clone" /\ UNCHANGED verdict
    /\ UNCHANGED <<subject, worker, workerDead, inbox, protocol, pending, caseResults, computed>>

\* Clone, apply, look for escaping links; then spawn the worker.  Any of it may throw.
CloneAndSpawn ==
    /\ phase = "clone"
    /\ \/ Decide("errored") /\ UNCHANGED worker
       \/ Escaping /\ Decide("tampered") /\ UNCHANGED worker
       \/ /\ subject.patch = "clean" /\ phase' = (IF subject.setting = "pod" THEN "pod" ELSE "case")
          /\ worker' = "running" /\ UNCHANGED verdict
    /\ UNCHANGED <<subject, workerDead, inbox, protocol, pending, caseResults, computed>>

-----------------------------------------------------------------------------
(* The host path: one request at a time. *)

Judged(v) == CASE v = "right" -> "ok" [] v = "wrong" -> "no" [] v = "threw" -> "error"

SendCase ==
    /\ phase = "case" /\ Len(caseResults) < NumCases
    /\ IF workerDead
       THEN caseResults' = Append(caseResults, "error") /\ UNCHANGED <<phase, inbox, pending>>
       ELSE LET id == Len(caseResults) + 1 IN
            /\ pending' = {id} /\ inbox' = Append(inbox, id) /\ phase' = "wait"
            /\ UNCHANGED caseResults
    /\ UNCHANGED <<subject, worker, workerDead, protocol, verdict, computed>>

\* WORKER_SOURCE: requests in order, the answer under the request's id.
WorkerAnswers(v) ==
    /\ worker = "running" /\ inbox # <<>>
    /\ computed' = [computed EXCEPT ![Head(inbox)] = v]
    /\ protocol' = Append(protocol, [id |-> Head(inbox), value |-> v]) /\ inbox' = Tail(inbox)
    /\ UNCHANGED <<phase, subject, worker, workerDead, pending, caseResults, verdict>>

\* The code under test ends the process.
WorkerExits ==
    /\ worker = "running" /\ phase \in {"case", "wait"}
    /\ worker' = "exited"
    /\ UNCHANGED <<phase, subject, workerDead, inbox, protocol, pending, caseResults, verdict, computed>>

Resolve(result) == /\ caseResults' = Append(caseResults, result) /\ pending' = {} /\ phase' = "case"

\* Mutated: an answer settles whatever case is waiting.
MessageSettlesWaiting ==
    /\ protocol # <<>> /\ protocol' = Tail(protocol)
    /\ IF pending # {} THEN Resolve(Judged(Head(protocol).value))
       ELSE UNCHANGED <<caseResults, pending, phase>>
    /\ UNCHANGED <<subject, worker, workerDead, inbox, verdict, computed>>

\* A line on the protocol pipe: an answer nobody waits for any more is dropped.
MessageArrives ==
    /\ protocol # <<>> /\ protocol' = Tail(protocol)
    /\ IF Head(protocol).id \in pending THEN Resolve(Judged(Head(protocol).value))
       ELSE UNCHANGED <<caseResults, pending, phase>>
    /\ UNCHANGED <<subject, worker, workerDead, inbox, verdict, computed>>

\* The exit event, which may overtake answers still in the pipe.
ExitSeen ==
    /\ worker = "exited" /\ ~workerDead /\ workerDead' = TRUE
    /\ IF pending # {} THEN Resolve("error") ELSE UNCHANGED <<caseResults, pending, phase>>
    /\ UNCHANGED <<subject, worker, inbox, protocol, verdict, computed>>

CaseTimesOut ==
    /\ phase = "wait" /\ Resolve("error")
    /\ UNCHANGED <<subject, worker, workerDead, inbox, protocol, verdict, computed>>

Outcome(rs) ==
    IF \A i \in DOMAIN rs : rs[i] = "ok" THEN "passed"
    ELSE IF \E i \in DOMAIN rs : rs[i] = "error" THEN "errored" ELSE "failed"

JudgeCases ==
    /\ phase = "case" /\ Len(caseResults) = NumCases
    /\ Decide(Outcome(caseResults))
    /\ UNCHANGED <<subject, worker, workerDead, inbox, protocol, pending, caseResults, computed>>

-----------------------------------------------------------------------------
(* scoreInSandbox: the batch worker writes its results file only at the end,  *)
(* so an exec that times out or exits early leaves none.                      *)
PodScore ==
    /\ phase = "pod"
    /\ \/ \E vs \in [Cases -> ScoreValues] :
            /\ computed' = vs /\ caseResults' = [c \in Cases |-> Judged(vs[c])]
            /\ Decide(Outcome(caseResults'))
       \/ \E v \in {"errored", "timed-out"} : Decide(v) /\ UNCHANGED <<caseResults, computed>>
    /\ UNCHANGED <<subject, worker, workerDead, inbox, protocol, pending>>

\* The finally blocks: the child or the pod, and the work directory.
CleanUp ==
    /\ phase = "clean"
    /\ phase' = "done" /\ worker' = (IF worker = "none" THEN "none" ELSE "killed")
    /\ UNCHANGED <<subject, workerDead, inbox, protocol, pending, caseResults, verdict, computed>>

ScoringNext ==
    \/ Vet \/ CloneAndSpawn \/ SendCase \/ WorkerExits \/ MessageArrives \/ ExitSeen
    \/ CaseTimesOut \/ JudgeCases \/ PodScore \/ CleanUp
    \/ \E v \in ScoreValues : WorkerAnswers(v)

ScoringSpec == ScoringInit /\ [][ScoringNext]_scoringVars

-----------------------------------------------------------------------------
(* A pass means that the worker computed the expected value of every case, and *)
(* a failure that it answered every case and got one wrong, however late the   *)
(* answers are, whichever cases timed out and whenever the worker died; the    *)
(* result listed for a case is never another case's (scoring.ts:473-535).      *)
VerdictIsTrue ==
    /\ \A c \in DOMAIN caseResults :
          /\ caseResults[c] = "ok" => computed[c] = "right"
          /\ caseResults[c] = "no" => computed[c] = "wrong"
    /\ verdict = "passed" => \A c \in Cases : computed[c] = "right"
    /\ verdict = "failed" => /\ \A c \in Cases : computed[c] \in {"right", "wrong"}
                             /\ \E c \in Cases : computed[c] = "wrong"

Answers == [id : Cases, value : ScoreValues]

ScoringTypeOK ==
    /\ phase \in {"vet", "clone", "case", "wait", "pod", "clean", "done"}
    /\ inbox \in Seq(Cases) /\ protocol \in Seq(Answers)
    /\ caseResults \in Seq({"ok", "no", "error"}) /\ Len(caseResults) <= NumCases
    /\ computed \in [Cases -> ScoreValues \cup {"none"}]
    /\ verdict \in {"none", "tampered", "errored", "timed-out", "passed", "failed"}

\* The verifier waits for the first case without a result, and has asked for none after it.
AskedInOrder ==
    /\ pending = IF phase = "wait" THEN {Len(caseResults) + 1} ELSE {}
    /\ phase = "wait" => Len(caseResults) < NumCases
    /\ phase \in {"vet", "clone", "pod"} => inbox = <<>> /\ protocol = <<>> /\ caseResults = <<>>
    /\ \A i \in DOMAIN inbox : inbox[i] \in 1..Len(caseResults) \cup pending
    /\ \A i \in DOMAIN protocol : protocol[i].id \in 1..Len(caseResults) \cup pending

\* A request is answered once, and a case whose request is still unread has no
\* result but an error; an answer in the pipe is what was computed.
AnsweredOnce ==
    /\ \A i, j \in DOMAIN inbox : inbox[i] = inbox[j] => i = j
    /\ \A i \in DOMAIN inbox, j \in DOMAIN protocol : inbox[i] # protocol[j].id
    /\ \A i \in DOMAIN inbox : inbox[i] \in DOMAIN caseResults => caseResults[inbox[i]] = "error"
    /\ \A j \in DOMAIN protocol : protocol[j].value = computed[protocol[j].id]

\* A verdict is final, and a pass or a failure is that of a full list of results.
Decided ==
    /\ verdict # "none" => phase \in {"clean", "done"}
    /\ verdict \in {"passed", "failed"} => Len(caseResults) = NumCases /\ verdict = Outcome(caseResults)

ResultsAreTrue ==
    \A c \in DOMAIN caseResults :
       /\ caseResults[c] = "ok" => computed[c] = "right"
       /\ caseResults[c] = "no" => computed[c] = "wrong"

ScoringIInv == ScoringTypeOK /\ AskedInOrder /\ AnsweredOnce /\ Decided /\ ResultsAreTrue

=============================================================================
