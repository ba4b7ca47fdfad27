---------------------------- MODULE EffectBroker ----------------------------
(***************************************************************************)
(* ExecutionBroker.execute (src/execution/broker.ts) over a shared         *)
(* receipt store with an atomic claimEffect (PostgresPersistence; the      *)
(* local store is the same without the interleavings).                     *)
(*                                                                         *)
(* Calls run concurrently, in one process or several, and interleave at    *)
(* every await.  An executor may throw, and a worker may die, before or    *)
(* after the external action was performed.                                *)
(***************************************************************************)
EXTENDS Naturals, Sequences

CONSTANTS
    Calls,       \* invocations of execute()
    Effects,     \* effect ids
    Executors,   \* the broker's executors: a sequence of [fidelity, class]
    NoClass,     \* an executor without a resourceClassId
    Policies     \* [minFidelity, allowed, preferred, allowEscalation] of a call

ASSUME BrokerAssumption ==
    /\ Len(Executors) \in Nat /\ DOMAIN Executors = 1 .. Len(Executors)
    /\ \A i \in DOMAIN Executors : Executors[i].fidelity \in Nat

VARIABLES
    pc, effect, policy,   \* per call: where it is, its effect, its policy
    tried,                \* per call: the executors the loop is done with
    final,                \* per call: the variable "final"
    answer,               \* per call: what it returned
    receipt,              \* per effect: the DurableEffectRecord
    performed,            \* per effect: <<call, executor>> of every external action
    reconciler            \* per effect: what a reconciliation is about to write

vars == <<pc, effect, policy, tried, final, answer, receipt, performed, reconciler>>

Results == [ok : BOOLEAN, by : 0 .. Len(Executors)]
NoResult == [ok |-> FALSE, by |-> 0]
Receipts == [status : {"missing", "started", "committed", "failed"}, result : Results]
Started == [status |-> "started", result |-> NoResult]

TypeOK ==
    /\ pc \in [Calls -> {"idle", "check", "claim", "lost", "run", "performed", "put", "uncertain", "done"}]
    /\ effect \in [Calls -> Effects]
    /\ policy \in [Calls -> Policies]
    /\ tried \in [Calls -> SUBSET DOMAIN Executors]
    /\ final \in [Calls -> Results]
    /\ answer \in [Calls -> [kind : {"none", "result", "uncertain", "threw"}, result : Results]]
    /\ receipt \in [Effects -> Receipts]
    /\ performed \in [Effects -> SUBSET (Calls \X DOMAIN Executors)]
    /\ reconciler \in [Effects -> {"none", "pending", "committed"}]

Init ==
    /\ pc = [c \in Calls |-> "idle"]
    /\ effect \in [Calls -> Effects]
    /\ policy \in [Calls -> Policies]
    /\ tried = [c \in Calls |-> {}]
    /\ final = [c \in Calls |-> NoResult]
    /\ answer = [c \in Calls |-> [kind |-> "none", result |-> NoResult]]
    /\ receipt = [e \in Effects |-> [status |-> "missing", result |-> NoResult]]
    /\ performed = [e \in Effects |-> {}]
    /\ reconciler = [e \in Effects |-> "none"]

-----------------------------------------------------------------------------
(* The store. *)

\* Mutated: a committed receipt is not protected.
canReplaceEffectFailedOnly(existing, next) ==
    existing.status = "failed" => next.status # "started"

\* canReplaceEffect, and the WHERE clause of PostgresPersistence.putEffect.
canReplaceEffect(existing, next) ==
    /\ existing.status = "committed" => next.status = "committed"
    /\ existing.status = "failed" => next.status # "started"

putEffect(e, r) ==
    receipt' = IF canReplaceEffect(receipt[e], r) THEN [receipt EXCEPT ![e] = r] ELSE receipt

-----------------------------------------------------------------------------
(* The executors a policy admits, and the order they are tried in. *)

\* resourceClassId undefined passes the class filter.
Candidates(p) ==
    {i \in DOMAIN Executors :
        /\ Executors[i].fidelity >= p.minFidelity
        /\ Executors[i].class \in p.allowed \cup {NoClass}}

\* The sort's comparator, with the list order between equals (the sort is stable).
Before(p, i, j) ==
    LET rank(k) == IF Executors[k].class = p.preferred THEN 0 ELSE 1
    IN  \/ rank(i) < rank(j)
        \/ rank(i) = rank(j) /\ Executors[i].fidelity < Executors[j].fidelity
        \/ rank(i) = rank(j) /\ Executors[i].fidelity = Executors[j].fidelity /\ i < j

IsNextCandidate(c, i) ==
    LET left == Candidates(policy[c]) \ tried[c]
    IN  i \in left /\ \A j \in left \ {i} : Before(policy[c], i, j)

-----------------------------------------------------------------------------
(* One call. *)

Return(c, kind, result) ==
    /\ pc' = [pc EXCEPT ![c] = "done"]
    /\ answer' = [answer EXCEPT ![c] = [kind |-> kind, result |-> result]]

Goto(c, l) == pc' = [pc EXCEPT ![c] = l] /\ UNCHANGED answer

\* What a receipt that exists makes the call return.
ReturnReceipt(c, r) ==
    IF r.status = "started"
    THEN Return(c, "uncertain", NoResult)
    ELSE Return(c, "result", r.result)

Begin(c) ==
    /\ pc[c] = "idle"
    /\ Goto(c, "check")
    /\ UNCHANGED <<effect, policy, tried, final, receipt, performed, reconciler>>

GetEffect(c) ==
    /\ pc[c] = "check"
    /\ IF receipt[effect[c]].status = "missing"
       THEN Goto(c, "claim")
       ELSE ReturnReceipt(c, receipt[effect[c]])
    /\ UNCHANGED <<effect, policy, tried, final, receipt, performed, reconciler>>

\* Mutated: a failed receipt can be claimed again.
ClaimEffectReclaimsFailed(c) ==
    /\ pc[c] = "claim"
    /\ IF receipt[effect[c]].status \in {"missing", "failed"}
       THEN Goto(c, "run") /\ receipt' = [receipt EXCEPT ![effect[c]] = Started]
       ELSE Goto(c, "lost") /\ UNCHANGED receipt
    /\ UNCHANGED <<effect, policy, tried, final, performed, reconciler>>

\* claimEffect: INSERT ... ON CONFLICT DO NOTHING; the loser reads the row in
\* a second statement.
ClaimEffect(c) ==
    /\ pc[c] = "claim"
    /\ IF receipt[effect[c]].status = "missing"
       THEN Goto(c, "run") /\ receipt' = [receipt EXCEPT ![effect[c]] = Started]
       ELSE Goto(c, "lost") /\ UNCHANGED receipt
    /\ UNCHANGED <<effect, policy, tried, final, performed, reconciler>>

ReadLostClaim(c) ==
    /\ pc[c] = "lost"
    /\ ReturnReceipt(c, receipt[effect[c]])
    /\ UNCHANGED <<effect, policy, tried, final, receipt, performed, reconciler>>

\* canExecute is false.
SkipExecutor(c, i) ==
    /\ pc[c] = "run" /\ IsNextCandidate(c, i)
    /\ tried' = [tried EXCEPT ![c] = @ \cup {i}]
    /\ UNCHANGED <<pc, effect, policy, final, answer, receipt, performed, reconciler>>

\* The executor carries out the external action.
Perform(c, i) ==
    /\ pc[c] = "run" /\ IsNextCandidate(c, i)
    /\ performed' = [performed EXCEPT ![effect[c]] = @ \cup {<<c, i>>}]
    /\ final' = [final EXCEPT ![c] = [ok |-> TRUE, by |-> i]]
    /\ Goto(c, "performed")
    /\ UNCHANGED <<effect, policy, tried, receipt, reconciler>>

ExecutorReturnsOk(c) ==
    /\ pc[c] = "performed"
    /\ Goto(c, "put")
    /\ UNCHANGED <<effect, policy, tried, final, receipt, performed, reconciler>>

\* An error other than ESCALATION_REQUIRED ends the loop.  The action may have
\* been carried out: a command that ran and exited with an error.
ExecutorReturnsError(c, i) ==
    /\ \/ pc[c] = "run" /\ IsNextCandidate(c, i)
       \/ pc[c] = "performed" /\ final[c].by = i
    /\ final' = [final EXCEPT ![c] = [ok |-> FALSE, by |-> i]]
    /\ Goto(c, "put")
    /\ UNCHANGED <<effect, policy, tried, receipt, performed, reconciler>>

\* ESCALATION_REQUIRED: on to the next executor, if the policy lets it.
Escalate(c, i) ==
    /\ pc[c] = "run" /\ IsNextCandidate(c, i)
    /\ final' = [final EXCEPT ![c] = [ok |-> FALSE, by |-> i]]
    /\ tried' = [tried EXCEPT ![c] = @ \cup {i}]
    /\ Goto(c, IF policy[c].allowEscalation THEN "run" ELSE "put")
    /\ UNCHANGED <<effect, policy, receipt, performed, reconciler>>

\* The loop ran out of candidates.
NoExecutorLeft(c) ==
    /\ pc[c] = "run" /\ Candidates(policy[c]) \subseteq tried[c]
    /\ Goto(c, "put")
    /\ UNCHANGED <<effect, policy, tried, final, receipt, performed, reconciler>>

\* Persist committed or failed, and return.
PutOutcome(c) ==
    /\ pc[c] = "put"
    /\ putEffect(effect[c], [status |-> IF final[c].ok THEN "committed" ELSE "failed", result |-> final[c]])
    /\ Return(c, "result", final[c])
    /\ UNCHANGED <<effect, policy, tried, final, performed, reconciler>>

\* canExecute, execute or the putEffect above throws: into the catch.
Throw(c) ==
    /\ \/ pc[c] = "run" /\ Candidates(policy[c]) \ tried[c] # {}
       \/ pc[c] \in {"performed", "put"}
    /\ Goto(c, "uncertain")
    /\ UNCHANGED <<effect, policy, tried, final, receipt, performed, reconciler>>

\* The catch: keep the receipt "started" and rethrow.
PutUncertain(c) ==
    /\ pc[c] = "uncertain"
    /\ putEffect(effect[c], Started)
    /\ Return(c, "threw", NoResult)
    /\ UNCHANGED <<effect, policy, tried, final, performed, reconciler>>

\* The worker dies, or the store cannot be reached in the catch either.
Crash(c) ==
    /\ pc[c] \notin {"idle", "done"}
    /\ Return(c, "threw", NoResult)
    /\ UNCHANGED <<effect, policy, tried, final, receipt, performed, reconciler>>

-----------------------------------------------------------------------------
(* Reconciliation is an operator's decision outside this repository.  It    *)
(* looks at the world some time after it saw a started receipt, and writes  *)
(* through putEffect, late.                                                 *)

ReconcileLook(e) ==
    /\ receipt[e].status = "started" /\ reconciler[e] = "none"
    /\ reconciler' = [reconciler EXCEPT ![e] = IF performed[e] = {} THEN "pending" ELSE "committed"]
    /\ UNCHANGED <<pc, effect, policy, tried, final, answer, receipt, performed>>

ReconcilePut(e) ==
    /\ reconciler[e] # "none"
    /\ \/ /\ reconciler[e] = "pending" /\ putEffect(e, Started)
       \/ /\ reconciler[e] = "committed"
          /\ \E x \in performed[e] :
                putEffect(e, [status |-> "committed", result |-> [ok |-> TRUE, by |-> x[2]]])
    /\ reconciler' = [reconciler EXCEPT ![e] = "none"]
    /\ UNCHANGED <<pc, effect, policy, tried, final, answer, performed>>

CallStep(c) ==
    \/ Begin(c) \/ GetEffect(c) \/ ClaimEffect(c) \/ ReadLostClaim(c)
    \/ \E i \in DOMAIN Executors :
          SkipExecutor(c, i) \/ Perform(c, i) \/ ExecutorReturnsError(c, i) \/ Escalate(c, i)
    \/ ExecutorReturnsOk(c) \/ NoExecutorLeft(c) \/ PutOutcome(c)
    \/ Throw(c) \/ PutUncertain(c) \/ Crash(c)

Next ==
    \/ \E c \in Calls : CallStep(c)
    \/ \E e \in Effects : ReconcileLook(e) \/ ReconcilePut(e)

Spec == Init /\ [][Next]_vars

-----------------------------------------------------------------------------
(* Properties. *)

\* "Duplicate prevention over blind retry": however calls with the same
\* effect id race, crash, throw and are retried, the external action behind
\* the id is carried out at most once.
EffectAtMostOnce ==
    \A e \in Effects : \A x, y \in performed[e] : x = y

\* A call that reports success speaks of an action that really was carried
\* out, by the executor it names, and the receipt says the same from then on,
\* so every later call is told the same.
AnswersAreTrue ==
    \A c \in Calls : answer[c].kind = "result" /\ answer[c].result.ok =>
        /\ receipt[effect[c]].status = "committed" /\ receipt[effect[c]].result = answer[c].result
        /\ \E d \in Calls : <<d, answer[c].result.by>> \in performed[effect[c]]

\* A resolved receipt is never regressed: not by the catch of a call, and not
\* by a slow reconciler that still believes the outcome is pending.
ResolvedNeverRegresses ==
    [][\A e \in Effects :
          /\ receipt[e].status = "committed" =>
                receipt'[e].status = "committed" /\ receipt'[e].result = receipt[e].result
          /\ receipt[e].status = "failed" => receipt'[e].status \in {"failed", "committed"}]_vars

\* What docs/DISTRIBUTED.md says of a receipt: "missing/failed -> run, then
\* persist committed/failed".  It does not hold: a failed receipt is returned.
FailedIsRun ==
    [][\A c \in Calls :
          pc[c] = "check" /\ receipt[effect[c]].status = "failed" /\ GetEffect(c) => pc'[c] # "done"]_vars

-----------------------------------------------------------------------------
(* The inductive invariant. *)

Claimed(c) == pc[c] \in {"run", "performed", "put", "uncertain"}

\* A claim is exclusive, and nothing is performed before one.
ClaimsExclusive ==
    /\ \A c \in Calls : Claimed(c) => receipt[effect[c]].status # "missing"
    /\ \A c, d \in Calls : Claimed(c) /\ Claimed(d) /\ effect[c] = effect[d] => c = d
    /\ \A e \in Effects : receipt[e].status = "missing" => performed[e] = {}
    /\ \A c \in Calls : pc[c] = "run" => performed[effect[c]] = {}

\* Receipts, and calls that are about to write one, claim success only for
\* what was performed.
ReceiptsAreTrue ==
    /\ \A c \in Calls :
          /\ pc[c] \in {"performed", "put"} /\ final[c].ok => <<c, final[c].by>> \in performed[effect[c]]
          /\ final[c].ok => pc[c] \in {"performed", "put", "uncertain", "done"}
    /\ \A e \in Effects :
          /\ receipt[e].status = "committed" =>
                receipt[e].result.ok /\ \E d \in Calls : <<d, receipt[e].result.by>> \in performed[e]
          /\ receipt[e].status # "committed" => ~receipt[e].result.ok

\* A reconciler acts on claimed effects only.
ReconcilesClaimed == \A e \in Effects : reconciler[e] # "none" => receipt[e].status # "missing"

IInv ==
    /\ TypeOK
    /\ ClaimsExclusive
    /\ ReconcilesClaimed
    /\ EffectAtMostOnce
    /\ ReceiptsAreTrue
    /\ AnswersAreTrue

=============================================================================
