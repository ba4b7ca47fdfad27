------------------------------ MODULE ToolProofs ------------------------------
(***************************************************************************)
(* Proofs about what a tool call does and reads.  For any number of        *)
(* concurrent calls, effects and executors: an external action is carried  *)
(* out at most once per effect id, reported successes are true and stay on *)
(* record, and resolved receipts never regress.  For any number of         *)
(* sources, clones and reads: what is read through the one batch of a git  *)
(* source is what the repository holds.                                    *)
(***************************************************************************)
EXTENDS EffectBroker, GitSource, SequenceTheorems, TLAPS

-----------------------------------------------------------------------------
(* The effect broker.                                                         *)

\* Before the first call nothing is claimed, performed or answered.
LEMMA InitIInv == Init => IInv
  <1> SUFFICES ASSUME Init PROVE IInv
    BY Zenon
  <1>1. NoResult \in Results /\ ~NoResult.ok
    BY BrokerAssumption DEF NoResult, Results
  <1>2. TypeOK
    BY Zenon, <1>1 DEF Init, TypeOK, Receipts
  <1>3. ClaimsExclusive /\ ReconcilesClaimed /\ EffectAtMostOnce
    BY Zenon DEF Init, ClaimsExclusive, ReconcilesClaimed, EffectAtMostOnce, Claimed
  <1>4. ReceiptsAreTrue /\ AnswersAreTrue
    BY Zenon, <1>1 DEF Init, ReceiptsAreTrue, AnswersAreTrue
  <1> QED
    BY Zenon, <1>2, <1>3, <1>4 DEF IInv

\* A step that only moves call c on to l, without claiming.
Moves(c, l) ==
  /\ UNCHANGED <<effect, policy, final, receipt, performed, reconciler>>
  /\ tried' \in [Calls -> SUBSET DOMAIN Executors]
  /\ pc' = [pc EXCEPT ![c] = l]
  /\ l = "run" => pc[c] = "run"
  /\ l \in {"put", "uncertain"} => Claimed(c) /\ pc[c] # "uncertain"
  /\ final[c].ok => l \in {"put", "uncertain", "done"}

\* Call c answers nothing, or without success, or what its receipt says.
Answers(c) ==
  \/ answer' = answer
  \/ \E k \in {"none", "result", "uncertain", "threw"}, r \in Results :
        /\ answer' = [answer EXCEPT ![c] = [kind |-> k, result |-> r]]
        /\ k = "result" => r = receipt[effect[c]].result

\* Such a step preserves the invariant.
LEMMA MovePreservesIInv ==
  ASSUME IInv, NEW c \in Calls,
         NEW l \in {"check", "claim", "lost", "run", "put", "uncertain", "done"},
         Moves(c, l), Answers(c)
  PROVE  IInv'
  <1> USE DEF IInv, Moves
  <1>1. TypeOK'
    BY DEF TypeOK, Answers
  <1>2. ClaimsExclusive'
    BY ZenonT(30) DEF TypeOK, ClaimsExclusive, Claimed
  <1>3. EffectAtMostOnce' /\ ReconcilesClaimed'
    BY Zenon DEF EffectAtMostOnce, ReconcilesClaimed
  <1>4. ReceiptsAreTrue'
    BY Zenon DEF TypeOK, ReceiptsAreTrue, Claimed
  <1>5. AnswersAreTrue'
    <2> SUFFICES ASSUME NEW d \in Calls, answer'[d].kind = "result", answer'[d].result.ok
                 PROVE  /\ receipt[effect[d]].status = "committed" /\ receipt[effect[d]].result = answer'[d].result
                        /\ \E b \in Calls : <<b, answer'[d].result.by>> \in performed[effect[d]]
      BY Zenon DEF AnswersAreTrue
    <2>1. CASE answer'[d] = answer[d]
      BY Zenon, <2>1 DEF AnswersAreTrue
    <2>2. CASE answer'[d] # answer[d]
      <3> PICK k \in {"none", "result", "uncertain", "threw"}, r \in Results :
                /\ answer' = [answer EXCEPT ![c] = [kind |-> k, result |-> r]]
                /\ k = "result" => r = receipt[effect[c]].result
        BY Zenon, <2>2 DEF Answers
      <3>1. d = c /\ answer'[d] = [kind |-> k, result |-> r]
        BY Zenon, <2>2 DEF TypeOK
      <3>2. r = receipt[effect[d]].result /\ receipt[effect[d]].result.ok
        BY <2>2, <3>1
      <3>3. effect[d] \in Effects
        BY Zenon DEF TypeOK
      <3>4. receipt[effect[d]].status = "committed"
        BY Zenon, <3>2, <3>3 DEF ReceiptsAreTrue
      <3>5. \E b \in Calls : <<b, receipt[effect[d]].result.by>> \in performed[effect[d]]
        BY Zenon, <3>3, <3>4 DEF ReceiptsAreTrue
      <3>6. answer'[d].result = receipt[effect[d]].result
        BY <3>1, <3>2
      <3> QED
        BY <3>4, <3>5, <3>6, Zenon
    <2> QED
      BY Zenon, <2>1, <2>2
  <1> QED
    BY Zenon, <1>1, <1>2, <1>3, <1>4, <1>5

\* The actions that only move a call on.
LEMMA MovesPreserveIInv ==
  ASSUME IInv, NEW c \in Calls,
         \/ Begin(c) \/ GetEffect(c) \/ ReadLostClaim(c) \/ ExecutorReturnsOk(c) \/ NoExecutorLeft(c)
         \/ Throw(c) \/ Crash(c) \/ \E i \in DOMAIN Executors : SkipExecutor(c, i)
  PROVE  IInv'
  <1> USE DEF IInv
  <1>0. NoResult \in Results
    BY BrokerAssumption DEF NoResult, Results
  <1>1. /\ effect[c] \in Effects /\ receipt[effect[c]].result \in Results
        /\ receipt[effect[c]].status \in {"missing", "started", "committed", "failed"}
    BY Zenon DEF TypeOK, Receipts
  <1>2. tried \in [Calls -> SUBSET DOMAIN Executors] /\ pc = [x \in Calls |-> pc[x]]
    BY Zenon DEF TypeOK
  <1>3. final[c].ok => pc[c] \in {"performed", "put", "uncertain", "done"}
    BY Zenon DEF ReceiptsAreTrue
  <1>4. ASSUME NEW k \in {"none", "uncertain", "threw"}, Return(c, k, NoResult) PROVE Answers(c)
    BY Zenon, <1>0, <1>4 DEF Return, Answers
  <1>5. ASSUME ReturnReceipt(c, receipt[effect[c]])
        PROVE  Answers(c) /\ pc' = [pc EXCEPT ![c] = "done"]
    <2>1. CASE receipt[effect[c]].status = "started"
      BY Zenon, <1>4, <1>5, <2>1 DEF ReturnReceipt, Return
    <2>2. CASE receipt[effect[c]].status # "started"
      BY Zenon, <1>1, <1>5, <2>2 DEF ReturnReceipt, Return, Answers
    <2> QED
      BY Zenon, <2>1, <2>2
  <1>6. CASE \E i \in DOMAIN Executors : SkipExecutor(c, i)
    <2>1. Moves(c, "run") /\ Answers(c)
      BY Zenon, <1>2, <1>3, <1>6 DEF SkipExecutor, Moves, Answers
    <2> QED
      BY Zenon, <2>1, MovePreservesIInv
  <1>7. CASE Begin(c)
    <2>1. Moves(c, "check") /\ Answers(c)
      BY Zenon, <1>2, <1>3, <1>7 DEF Begin, Goto, Moves, Answers
    <2> QED
      BY Zenon, <2>1, MovePreservesIInv
  <1>8. CASE GetEffect(c)
    <2>1. CASE Goto(c, "claim")
      <3>1. Moves(c, "claim") /\ Answers(c)
        BY Zenon, <1>2, <1>3, <1>8, <2>1 DEF GetEffect, Goto, Moves, Answers
      <3> QED
        BY Zenon, <3>1, MovePreservesIInv
    <2>2. CASE ReturnReceipt(c, receipt[effect[c]])
      <3>1. Moves(c, "done") /\ Answers(c)
        BY Zenon, <1>2, <1>5, <1>8, <2>2 DEF GetEffect, Moves
      <3> QED
        BY Zenon, <3>1, MovePreservesIInv
    <2> QED
      BY Zenon, <1>8, <2>1, <2>2 DEF GetEffect
  <1>9. CASE ReadLostClaim(c)
    <2>1. Moves(c, "done") /\ Answers(c)
      BY Zenon, <1>2, <1>5, <1>9 DEF ReadLostClaim, Moves
    <2> QED
      BY Zenon, <2>1, MovePreservesIInv
  <1>10. CASE ExecutorReturnsOk(c) \/ NoExecutorLeft(c)
    <2>1. Moves(c, "put") /\ Answers(c)
      BY Zenon, <1>2, <1>10 DEF ExecutorReturnsOk, NoExecutorLeft, Goto, Moves, Answers, Claimed
    <2> QED
      BY Zenon, <2>1, MovePreservesIInv
  <1>11. CASE Throw(c)
    <2>1. Moves(c, "uncertain") /\ Answers(c)
      BY Zenon, <1>2, <1>11 DEF Throw, Goto, Moves, Answers, Claimed
    <2> QED
      BY Zenon, <2>1, MovePreservesIInv
  <1>12. CASE Crash(c)
    <2>1. Moves(c, "done") /\ Answers(c)
      BY Zenon, <1>2, <1>4, <1>12 DEF Crash, Return, Moves
    <2> QED
      BY Zenon, <2>1, MovePreservesIInv
  <1> QED
    BY Zenon, <1>6, <1>7, <1>8, <1>9, <1>10, <1>11, <1>12

\* A receipt that may be written for effect e: it claims success only for what
\* was performed.
TrueReceipt(e, r) ==
  /\ r \in Receipts /\ r.status # "missing"
  /\ r.status = "committed" => r.result.ok /\ \E d \in Calls : <<d, r.result.by>> \in performed[e]
  /\ r.status # "committed" => ~r.result.ok

\* Writing it through putEffect keeps committed receipts as they are: two
\* true successes of one effect are the same, as it was performed once.
LEMMA PutKeepsReceipts ==
  ASSUME IInv, NEW e \in Effects, receipt[e].status # "missing",
         NEW r, TrueReceipt(e, r), putEffect(e, r)
  PROVE  /\ receipt' \in [Effects -> Receipts]
         /\ \A x \in Effects : receipt'[x] = receipt[x] \/ (x = e /\ receipt'[x] = r)
         /\ \A x \in Effects : receipt[x].status = "committed" =>
                receipt'[x].status = "committed" /\ receipt'[x].result = receipt[x].result
  <1> USE DEF IInv
  <1>1. receipt' = receipt \/ (receipt' = [receipt EXCEPT ![e] = r] /\ canReplaceEffect(receipt[e], r))
    BY Zenon DEF putEffect
  <1>2. receipt' \in [Effects -> Receipts] /\ \A x \in Effects : receipt'[x] = receipt[x] \/ (x = e /\ receipt'[x] = r)
    <2>1. receipt \in [Effects -> Receipts] /\ r \in Receipts
      BY Zenon DEF TypeOK, TrueReceipt
    <2> QED
      BY Zenon, <1>1, <2>1
  <1>3. ASSUME NEW x \in Effects, receipt[x].status = "committed", receipt'[x] # receipt[x]
        PROVE  receipt'[x].status = "committed" /\ receipt'[x].result = receipt[x].result
    <2>1. x = e /\ receipt'[x] = r /\ r.status = "committed"
      BY Zenon, <1>1, <1>3 DEF canReplaceEffect, TypeOK
    <2>2. PICK d \in Calls : <<d, r.result.by>> \in performed[e]
      BY Zenon, <2>1 DEF TrueReceipt
    <2>3. PICK b \in Calls : <<b, receipt[e].result.by>> \in performed[e]
      BY Zenon, <1>3, <2>1 DEF ReceiptsAreTrue
    <2>4. r.result.by = receipt[e].result.by
      BY <2>2, <2>3 DEF EffectAtMostOnce
    <2>5. r.result.ok /\ receipt[e].result.ok
      BY Zenon, <1>3, <2>1 DEF TrueReceipt, ReceiptsAreTrue
    <2>6. r.result \in Results /\ receipt[e].result \in Results
      BY Zenon DEF TrueReceipt, TypeOK, Receipts
    <2>7. r.result.ok = receipt[e].result.ok
      BY Zenon, <2>5, <2>6 DEF Results
    <2>8. r.result = receipt[e].result
      BY <2>4, <2>6, <2>7 DEF Results
    <2> QED
      BY Zenon, <2>1, <2>8
  <1> QED
    BY Zenon, <1>2, <1>3

\* A write of a true receipt, by call c on its way out or by the reconciler.
LEMMA PutPreservesIInv ==
  ASSUME IInv, NEW e \in Effects, receipt[e].status # "missing",
         NEW r, TrueReceipt(e, r), putEffect(e, r),
         UNCHANGED <<effect, policy, tried, final, performed>>,
         reconciler' \in [Effects -> {"none", "pending", "committed"}],
         \A x \in Effects : reconciler'[x] \in {reconciler[x], "none"},
         \/ UNCHANGED <<pc, answer>>
         \/ \E c \in Calls : /\ effect[c] = e
                            /\ \/ Return(c, "result", r.result) /\ r.status \in {"committed", "failed"}
                               \/ Return(c, "threw", NoResult)
  PROVE  IInv'
  <1> USE DEF IInv
  <1>1. /\ receipt' \in [Effects -> Receipts]
        /\ \A x \in Effects : receipt'[x] = receipt[x] \/ (x = e /\ receipt'[x] = r)
        /\ \A x \in Effects : receipt[x].status = "committed" =>
               receipt'[x].status = "committed" /\ receipt'[x].result = receipt[x].result
    BY Zenon, PutKeepsReceipts
  <1>2. r.result \in Results /\ NoResult \in Results /\ ~NoResult.ok
    BY BrokerAssumption DEF TrueReceipt, Receipts, NoResult, Results
  <1>3. \A d \in Calls : pc'[d] = pc[d] \/ pc'[d] = "done"
    BY Zenon DEF Return, TypeOK
  <1>4. TypeOK'
    <2>1. pc' \in [Calls -> {"idle", "check", "claim", "lost", "run", "performed", "put", "uncertain", "done"}]
      BY Zenon DEF Return, TypeOK
    <2>2. answer' \in [Calls -> [kind : {"none", "result", "uncertain", "threw"}, result : Results]]
      <3>1. \/ answer' = answer
            \/ \E c \in Calls : answer' = [answer EXCEPT ![c] = [kind |-> "result", result |-> r.result]]
            \/ \E c \in Calls : answer' = [answer EXCEPT ![c] = [kind |-> "threw", result |-> NoResult]]
        BY Zenon DEF Return
      <3>2. answer \in [Calls -> [kind : {"none", "result", "uncertain", "threw"}, result : Results]]
        BY Zenon DEF TypeOK
      <3> QED
        BY <1>2, <3>1, <3>2
    <2> QED
      BY Zenon, <1>1, <2>1, <2>2 DEF TypeOK
  <1>5. \A x \in Effects : receipt'[x].status = "missing" <=> receipt[x].status = "missing"
    BY Zenon, <1>1 DEF TrueReceipt
  <1>6. ClaimsExclusive'
    <2>1. \A d \in Calls : (Claimed(d)' => Claimed(d)) /\ (pc'[d] = "run" => pc[d] = "run") /\ effect[d] \in Effects
      BY Zenon, <1>3 DEF Claimed, TypeOK
    <2>2. \A d \in Calls : Claimed(d)' => receipt'[effect[d]].status # "missing"
      BY ZenonT(30), <1>5, <2>1 DEF ClaimsExclusive
    <2>3. \A d, b \in Calls : Claimed(d)' /\ Claimed(b)' /\ effect[d] = effect[b] => d = b
      BY Zenon, <2>1 DEF ClaimsExclusive
    <2>4. \A d \in Calls : pc'[d] = "run" => performed[effect[d]] = {}
      BY Zenon, <2>1 DEF ClaimsExclusive
    <2>5. \A x \in Effects : receipt'[x].status = "missing" => performed[x] = {}
      BY Zenon, <1>5 DEF ClaimsExclusive
    <2> QED
      BY Zenon, <2>2, <2>3, <2>4, <2>5 DEF ClaimsExclusive, Claimed
  <1>7. EffectAtMostOnce' /\ ReconcilesClaimed'
    BY Zenon, <1>5 DEF EffectAtMostOnce, ReconcilesClaimed
  <1>8. ReceiptsAreTrue'
    <2>1. ASSUME NEW d \in Calls
          PROVE  /\ pc'[d] \in {"performed", "put"} /\ final[d].ok => <<d, final[d].by>> \in performed[effect[d]]
                 /\ final[d].ok => pc'[d] \in {"performed", "put", "uncertain", "done"}
      BY Zenon, <1>3 DEF ReceiptsAreTrue
    <2>2. ASSUME NEW x \in Effects
          PROVE  /\ receipt'[x].status = "committed" =>
                       receipt'[x].result.ok /\ \E d \in Calls : <<d, receipt'[x].result.by>> \in performed[x]
                 /\ receipt'[x].status # "committed" => ~receipt'[x].result.ok
      <3>1. CASE receipt'[x] = receipt[x]
        BY Zenon, <3>1 DEF ReceiptsAreTrue
      <3>2. CASE x = e /\ receipt'[x] = r
        BY Zenon, <3>2 DEF TrueReceipt
      <3> QED
        BY Zenon, <1>1, <3>1, <3>2
    <2> QED
      BY Zenon, <2>1, <2>2 DEF ReceiptsAreTrue
  <1>9. AnswersAreTrue'
    <2> SUFFICES ASSUME NEW d \in Calls, answer'[d].kind = "result", answer'[d].result.ok
                 PROVE  /\ receipt'[effect[d]].status = "committed" /\ receipt'[effect[d]].result = answer'[d].result
                        /\ \E b \in Calls : <<b, answer'[d].result.by>> \in performed[effect[d]]
      BY Zenon DEF AnswersAreTrue
    <2>0. effect[d] \in Effects
      BY Zenon DEF TypeOK
    <2>1. CASE answer'[d] = answer[d]
      BY <1>1, <2>0, <2>1 DEF AnswersAreTrue
    <2>2. CASE answer'[d] # answer[d]
      <3>1. effect[d] = e /\ answer'[d] = [kind |-> "result", result |-> r.result]
        BY <2>2 DEF Return, TypeOK
      <3>2. answer'[d].result = r.result /\ r.result.ok
        BY <3>1
      <3>3. r.status = "committed"
        BY Zenon, <3>2 DEF TrueReceipt
      <3>4. receipt' = [receipt EXCEPT ![e] = r]
        BY Zenon, <3>3 DEF putEffect, canReplaceEffect
      <3>5. receipt'[e] = r
        BY Zenon, <3>4 DEF TypeOK
      <3> QED
        BY Zenon, <3>1, <3>2, <3>3, <3>5 DEF TrueReceipt
    <2> QED
      BY Zenon, <2>1, <2>2
  <1> QED
    BY Zenon, <1>4, <1>6, <1>7, <1>8, <1>9

\* Claiming: the receipt was missing, so nobody else holds the effect and
\* nothing has been performed.
LEMMA ClaimPreservesIInv ==
  ASSUME IInv, NEW c \in Calls, ClaimEffect(c)
  PROVE  IInv'
  <1> USE DEF IInv
  <1>0. /\ tried' = tried /\ pc = [x \in Calls |-> pc[x]] /\ tried \in [Calls -> SUBSET DOMAIN Executors]
        /\ final[c].ok => pc[c] \in {"performed", "put", "uncertain", "done"}
    BY Zenon DEF TypeOK, ReceiptsAreTrue, ClaimEffect
  <1>1. CASE Goto(c, "lost") /\ UNCHANGED receipt
    <2>1. Moves(c, "lost") /\ Answers(c)
      BY Zenon, <1>0, <1>1 DEF ClaimEffect, Goto, Moves, Answers
    <2> QED
      BY Zenon, <2>1, MovePreservesIInv
  <1>2. CASE receipt[effect[c]].status = "missing"
    <2>1. /\ pc' = [pc EXCEPT ![c] = "run"] /\ receipt' = [receipt EXCEPT ![effect[c]] = Started]
          /\ UNCHANGED <<effect, policy, tried, final, answer, performed, reconciler>> /\ pc[c] = "claim"
      BY Zenon, <1>2 DEF ClaimEffect, Goto
    <2>2. Started \in Receipts /\ Started.status = "started" /\ ~Started.result.ok
      BY BrokerAssumption DEF Started, Receipts, Results, NoResult
    <2>3. effect[c] \in Effects /\ performed[effect[c]] = {} /\ ~final[c].ok
      BY Zenon, <1>0, <1>2, <2>1 DEF TypeOK, ClaimsExclusive
    <2>4. TypeOK'
      BY Zenon, <2>1, <2>2 DEF TypeOK
    <2>5. ClaimsExclusive'
      <3>1. \A d \in Calls : Claimed(d) => effect[d] # effect[c]
        BY Zenon, <1>2 DEF ClaimsExclusive
      <3>2. \A d \in Calls : pc'[d] = IF d = c THEN "run" ELSE pc[d]
        BY Zenon, <2>1 DEF TypeOK
      <3>3. \A x \in Effects : receipt'[x] = IF x = effect[c] THEN Started ELSE receipt[x]
        BY Zenon, <2>1 DEF TypeOK
      <3>4. \A d \in Calls : Claimed(d)' <=> (d = c \/ Claimed(d))
        BY Zenon, <3>2 DEF Claimed
      <3>5. \A d \in Calls : Claimed(d)' => receipt'[effect[d]].status # "missing"
        BY Zenon, <2>2, <3>3, <3>4 DEF ClaimsExclusive, TypeOK
      <3>6. \A d, b \in Calls : Claimed(d)' /\ Claimed(b)' /\ effect[d] = effect[b] => d = b
        BY Zenon, <3>1, <3>4 DEF ClaimsExclusive
      <3>7. \A d \in Calls : pc'[d] = "run" => performed[effect[d]] = {}
        BY Zenon, <2>3, <3>2 DEF ClaimsExclusive
      <3>8. \A x \in Effects : receipt'[x].status = "missing" => performed[x] = {}
        BY Zenon, <2>2, <3>3 DEF ClaimsExclusive
      <3> QED
        BY Zenon, <2>1, <3>5, <3>6, <3>7, <3>8 DEF ClaimsExclusive, Claimed
    <2>6. EffectAtMostOnce' /\ ReconcilesClaimed'
      BY Zenon, <2>1, <2>2 DEF EffectAtMostOnce, ReconcilesClaimed, TypeOK
    <2>7. ReceiptsAreTrue'
      <3>1. \A x \in Effects : receipt'[x] = IF x = effect[c] THEN Started ELSE receipt[x]
        BY Zenon, <2>1 DEF TypeOK
      <3>2. \A d \in Calls : pc'[d] = IF d = c THEN "run" ELSE pc[d]
        BY Zenon, <2>1 DEF TypeOK
      <3> QED
        BY <2>1, <2>2, <2>3, <3>1, <3>2 DEF ReceiptsAreTrue
    <2>8. AnswersAreTrue'
      <3>1. \A x \in Effects : receipt[x].status = "committed" => receipt'[x] = receipt[x]
        BY Zenon, <1>2, <2>1 DEF TypeOK
      <3>2. \A d \in Calls : effect[d] \in Effects
        BY Zenon DEF TypeOK
      <3>3. \A d \in Calls : answer[d].kind = "result" /\ answer[d].result.ok =>
                receipt'[effect[d]] = receipt[effect[d]]
        BY Zenon, <3>1, <3>2 DEF AnswersAreTrue
      <3> QED
        BY <2>1, <3>3 DEF AnswersAreTrue
    <2> QED
      BY Zenon, <2>4, <2>5, <2>6, <2>7, <2>8
  <1> QED
    BY Zenon, <1>1, <1>2 DEF ClaimEffect

\* An executor reports an error: the call goes on without success.
LEMMA FailurePreservesIInv ==
  ASSUME IInv, NEW c \in Calls, NEW i \in DOMAIN Executors,
         ExecutorReturnsError(c, i) \/ Escalate(c, i)
  PROVE  IInv'
  <1> USE DEF IInv
  <1> DEFINE err == [ok |-> FALSE, by |-> i]
  <1>1. /\ UNCHANGED <<effect, policy, answer, receipt, performed, reconciler>>
        /\ final' = [final EXCEPT ![c] = err]
        /\ pc[c] \in {"run", "performed"}
        /\ tried' = tried \/ tried' = [tried EXCEPT ![c] = @ \cup {i}]
    BY Zenon DEF ExecutorReturnsError, Escalate, Goto
  <1>2. PICK l \in {"run", "put"} : pc' = [pc EXCEPT ![c] = l] /\ (l = "run" => pc[c] = "run")
    BY Zenon DEF ExecutorReturnsError, Escalate, Goto
  <1>3. err \in Results /\ ~err.ok
    BY BrokerAssumption DEF Results
  <1>4. TypeOK'
    <2>1. tried' \in [Calls -> SUBSET DOMAIN Executors]
      BY <1>1 DEF TypeOK
    <2>2. final' \in [Calls -> Results]
      BY Zenon, <1>1, <1>3 DEF TypeOK
    <2> QED
      BY Zenon, <1>1, <1>2, <2>1, <2>2 DEF TypeOK
  <1> HIDE DEF err
  <1>5. \A d \in Calls : pc'[d] = IF d = c THEN l ELSE pc[d]
    BY Zenon, <1>2 DEF TypeOK
  <1>6. \A d \in Calls : final'[d] = IF d = c THEN err ELSE final[d]
    BY Zenon, <1>1 DEF TypeOK
  <1>7. ClaimsExclusive'
    <2>1. \A d \in Calls : (Claimed(d)' => Claimed(d)) /\ (pc'[d] = "run" => pc[d] = "run")
      BY Zenon, <1>1, <1>2, <1>5 DEF Claimed
    <2>2. \A d \in Calls : Claimed(d)' => receipt'[effect[d]].status # "missing"
      BY Zenon, <1>1, <2>1 DEF ClaimsExclusive
    <2>3. \A d, b \in Calls : Claimed(d)' /\ Claimed(b)' /\ effect[d] = effect[b] => d = b
      BY Zenon, <2>1 DEF ClaimsExclusive
    <2>4. \A d \in Calls : pc'[d] = "run" => performed[effect[d]] = {}
      BY Zenon, <2>1 DEF ClaimsExclusive
    <2>5. \A x \in Effects : receipt'[x].status = "missing" => performed[x] = {}
      BY Zenon, <1>1 DEF ClaimsExclusive
    <2> QED
      BY Zenon, <1>1, <2>2, <2>3, <2>4, <2>5 DEF ClaimsExclusive, Claimed
  <1>8. EffectAtMostOnce' /\ ReconcilesClaimed' /\ AnswersAreTrue'
    BY Zenon, <1>1 DEF EffectAtMostOnce, ReconcilesClaimed, AnswersAreTrue
  <1>9. ReceiptsAreTrue'
    <2>1. ASSUME NEW d \in Calls
          PROVE  /\ pc'[d] \in {"performed", "put"} /\ final'[d].ok => <<d, final'[d].by>> \in performed[effect[d]]
                 /\ final'[d].ok => pc'[d] \in {"performed", "put", "uncertain", "done"}
      <3>1. CASE d = c
        BY Zenon, <1>3, <1>6, <3>1
      <3>2. CASE d # c
        BY Zenon, <1>5, <1>6, <3>2 DEF ReceiptsAreTrue
      <3> QED
        BY Zenon, <3>1, <3>2
    <2> QED
      BY Zenon, <1>1, <2>1 DEF ReceiptsAreTrue
  <1> QED
    BY Zenon, <1>4, <1>7, <1>8, <1>9

\* The external action: only the claimant is in the loop, and nothing was
\* performed before it.
LEMMA PerformPreservesIInv ==
  ASSUME IInv, NEW c \in Calls, NEW i \in DOMAIN Executors, Perform(c, i)
  PROVE  IInv'
  <1> USE DEF IInv
  <1> DEFINE e == effect[c]
  <1> DEFINE ok == [ok |-> TRUE, by |-> i]
  <1>1. /\ UNCHANGED <<effect, policy, tried, answer, receipt, reconciler>>
        /\ final' = [final EXCEPT ![c] = ok]
        /\ pc[c] = "run" /\ pc' = [pc EXCEPT ![c] = "performed"]
        /\ performed' = [performed EXCEPT ![e] = @ \cup {<<c, i>>}]
    BY Zenon DEF Perform, Goto
  <1>2. e \in Effects /\ performed[e] = {} /\ receipt[e].status # "missing" /\ Claimed(c)
    BY Zenon, <1>1 DEF TypeOK, ClaimsExclusive, Claimed
  <1>3. performed' = [performed EXCEPT ![e] = {<<c, i>>}]
    BY Zenon, <1>1, <1>2
  <1>4. \A x \in Effects : performed'[x] = IF x = e THEN {<<c, i>>} ELSE performed[x]
    BY Zenon, <1>3 DEF TypeOK
  <1>5. \A d \in Calls : pc'[d] = IF d = c THEN "performed" ELSE pc[d]
    BY Zenon, <1>1 DEF TypeOK
  <1>6. \A d \in Calls : final'[d] = IF d = c THEN ok ELSE final[d]
    BY Zenon, <1>1 DEF TypeOK
  <1>7. ok \in Results /\ ok.ok /\ ok.by = i
    BY BrokerAssumption DEF Results
  <1>8. TypeOK'
    <2>1. performed' \in [Effects -> SUBSET (Calls \X DOMAIN Executors)]
      BY <1>2, <1>3 DEF TypeOK
    <2>2. final' \in [Calls -> Results]
      BY Zenon, <1>1, <1>7 DEF TypeOK
    <2> QED
      BY Zenon, <1>1, <2>1, <2>2 DEF TypeOK
  <1>9. \A d \in Calls : effect[d] \in Effects /\ (Claimed(d)' <=> Claimed(d))
    BY Zenon, <1>2, <1>5 DEF Claimed, TypeOK
  <1> HIDE DEF e, ok
  <1>10. ClaimsExclusive'
    <2>1. \A d \in Calls : Claimed(d)' => receipt'[effect[d]].status # "missing"
      BY Zenon, <1>1, <1>9 DEF ClaimsExclusive
    <2>2. \A d, b \in Calls : Claimed(d)' /\ Claimed(b)' /\ effect[d] = effect[b] => d = b
      BY Zenon, <1>9 DEF ClaimsExclusive
    <2>3. \A d \in Calls : pc'[d] = "run" => performed'[effect[d]] = {}
      <3> SUFFICES ASSUME NEW d \in Calls, pc'[d] = "run" PROVE performed'[effect[d]] = {}
        BY Zenon
      <3>1. d # c /\ pc[d] = "run" /\ Claimed(d)
        BY Zenon, <1>5 DEF Claimed
      <3>2. effect[d] # e
        BY Zenon, <1>2, <3>1 DEF ClaimsExclusive, e
      <3> QED
        BY Zenon, <1>4, <1>9, <3>1, <3>2 DEF ClaimsExclusive
    <2>4. \A x \in Effects : receipt'[x].status = "missing" => performed'[x] = {}
      BY Zenon, <1>1, <1>2, <1>4 DEF ClaimsExclusive
    <2> QED
      BY Zenon, <1>1, <2>1, <2>2, <2>3, <2>4 DEF ClaimsExclusive, Claimed
  <1>11. EffectAtMostOnce' /\ ReconcilesClaimed'
    BY <1>1, <1>4 DEF EffectAtMostOnce, ReconcilesClaimed
  <1>12. \A x \in Effects : performed[x] \subseteq performed'[x]
    BY Zenon, <1>2, <1>4
  <1>13. ReceiptsAreTrue'
    <2>1. ASSUME NEW d \in Calls
          PROVE  /\ pc'[d] \in {"performed", "put"} /\ final'[d].ok => <<d, final'[d].by>> \in performed'[effect[d]]
                 /\ final'[d].ok => pc'[d] \in {"performed", "put", "uncertain", "done"}
      <3>1. CASE d = c
        BY Zenon, <1>2, <1>4, <1>5, <1>6, <1>7, <3>1 DEF e
      <3>2. CASE d # c
        BY Zenon, <1>5, <1>6, <1>9, <1>12, <3>2 DEF ReceiptsAreTrue
      <3> QED
        BY Zenon, <3>1, <3>2
    <2>2. ASSUME NEW x \in Effects
          PROVE  /\ receipt[x].status = "committed" =>
                       receipt[x].result.ok /\ \E d \in Calls : <<d, receipt[x].result.by>> \in performed'[x]
                 /\ receipt[x].status # "committed" => ~receipt[x].result.ok
      BY Zenon, <1>12 DEF ReceiptsAreTrue
    <2> QED
      BY Zenon, <1>1, <2>1, <2>2 DEF ReceiptsAreTrue
  <1>14. AnswersAreTrue'
    BY Zenon, <1>1, <1>9, <1>12 DEF AnswersAreTrue
  <1> QED
    BY Zenon, <1>8, <1>10, <1>11, <1>13, <1>14

\* The call's own writes, and the reconciler's, write true receipts.
WritesTrueReceipt ==
  \E e \in Effects, r \in Receipts : receipt[e].status # "missing" /\ TrueReceipt(e, r) /\ putEffect(e, r)

\* They preserve the invariant.
LEMMA WritesPreserveIInv ==
  ASSUME IInv,
         \/ \E c \in Calls : PutOutcome(c) \/ PutUncertain(c)
         \/ \E e \in Effects : ReconcilePut(e)
  PROVE  IInv' /\ WritesTrueReceipt
  <1> USE DEF IInv
  <1>1. /\ Started \in Receipts /\ Started.status = "started" /\ ~Started.result.ok /\ Started.result = NoResult
        /\ reconciler \in [Effects -> {"none", "pending", "committed"}]
    BY BrokerAssumption DEF Started, Receipts, Results, NoResult, TypeOK
  <1>2. ASSUME NEW e \in Effects PROVE TrueReceipt(e, Started)
    BY Zenon, <1>1 DEF TrueReceipt
  <1>3. ASSUME NEW c \in Calls, PutOutcome(c) PROVE IInv' /\ WritesTrueReceipt
    <2> DEFINE r == [status |-> IF final[c].ok THEN "committed" ELSE "failed", result |-> final[c]]
    <2>1. effect[c] \in Effects /\ receipt[effect[c]].status # "missing" /\ final[c] \in Results
      BY Zenon, <1>3 DEF PutOutcome, TypeOK, ClaimsExclusive, Claimed
    <2>2. final[c].ok => <<c, final[c].by>> \in performed[effect[c]]
      BY Zenon, <1>3 DEF PutOutcome, ReceiptsAreTrue
    <2>3. /\ r.result = final[c] /\ r.status \in {"committed", "failed"}
          /\ r.status = "committed" <=> final[c].ok
      BY Zenon
    <2>4. r \in Receipts
      BY Zenon, <2>1 DEF Receipts
    <2>5. putEffect(effect[c], r) /\ Return(c, "result", r.result)
      BY Zenon, <1>3 DEF PutOutcome
    <2> HIDE DEF r
    <2>6. TrueReceipt(effect[c], r)
      BY Zenon, <2>2, <2>3, <2>4 DEF TrueReceipt
    <2>7. IInv'
      BY Zenon, <1>1, <1>3, <2>1, <2>3, <2>5, <2>6, PutPreservesIInv DEF PutOutcome
    <2> QED
      BY Zenon, <2>1, <2>4, <2>5, <2>6, <2>7 DEF WritesTrueReceipt
  <1>4. ASSUME NEW c \in Calls, PutUncertain(c) PROVE IInv' /\ WritesTrueReceipt
    <2>1. effect[c] \in Effects /\ receipt[effect[c]].status # "missing"
      BY Zenon, <1>4 DEF PutUncertain, TypeOK, ClaimsExclusive, Claimed
    <2>2. IInv'
      BY Zenon, <1>1, <1>2, <1>4, <2>1, PutPreservesIInv DEF PutUncertain
    <2> QED
      BY Zenon, <1>1, <1>2, <1>4, <2>1, <2>2 DEF PutUncertain, WritesTrueReceipt
  <1>5. ASSUME NEW e \in Effects, ReconcilePut(e) PROVE IInv' /\ WritesTrueReceipt
    <2>1. /\ UNCHANGED <<pc, effect, policy, tried, final, answer, performed>>
          /\ reconciler' \in [Effects -> {"none", "pending", "committed"}]
          /\ \A x \in Effects : reconciler'[x] \in {reconciler[x], "none"}
          /\ receipt[e].status # "missing"
      BY Zenon, <1>1, <1>5 DEF ReconcilePut, ReconcilesClaimed
    <2>2. CASE putEffect(e, Started)
      <3>1. IInv'
        BY Zenon, <1>2, <2>1, <2>2, PutPreservesIInv
      <3> QED
        BY Zenon, <1>1, <1>2, <2>1, <2>2, <3>1 DEF WritesTrueReceipt
    <2>3. ASSUME NEW x \in performed[e],
                 putEffect(e, [status |-> "committed", result |-> [ok |-> TRUE, by |-> x[2]]])
          PROVE  IInv' /\ WritesTrueReceipt
      <3> DEFINE r == [status |-> "committed", result |-> [ok |-> TRUE, by |-> x[2]]]
      <3>1. x \in Calls \X DOMAIN Executors
        BY Zenon DEF TypeOK
      <3>2. r \in Receipts /\ r.status = "committed" /\ r.result.ok /\ r.result.by = x[2]
        BY <3>1, BrokerAssumption DEF Receipts, Results
      <3>3. x[1] \in Calls /\ <<x[1], x[2]>> \in performed[e]
        BY <3>1
      <3>4. putEffect(e, r)
        BY Zenon, <2>3
      <3> HIDE DEF r
      <3>5. TrueReceipt(e, r)
        BY Zenon, <3>2, <3>3 DEF TrueReceipt
      <3>6. IInv'
        BY Zenon, <2>1, <3>4, <3>5, PutPreservesIInv
      <3> QED
        BY Zenon, <2>1, <3>2, <3>4, <3>5, <3>6 DEF WritesTrueReceipt
    <2> QED
      BY Zenon, <1>5, <2>2, <2>3 DEF ReconcilePut
  <1> QED
    BY Zenon, <1>3, <1>4, <1>5

\* Every step preserves the invariant.
LEMMA NextPreservesIInv == IInv /\ [Next]_vars => IInv'
  <1> SUFFICES ASSUME IInv, [Next]_vars PROVE IInv'
    BY Zenon
  <1>1. CASE UNCHANGED vars
    <2>1. TypeOK' /\ ReconcilesClaimed' /\ EffectAtMostOnce'
      BY Zenon, <1>1 DEF vars, IInv, TypeOK, ReconcilesClaimed, EffectAtMostOnce
    <2>2. ClaimsExclusive' /\ ReceiptsAreTrue' /\ AnswersAreTrue'
      BY Zenon, <1>1 DEF vars, IInv, ClaimsExclusive, Claimed, ReceiptsAreTrue, AnswersAreTrue
    <2> QED
      BY Zenon, <2>1, <2>2 DEF IInv
  <1>2. ASSUME NEW e \in Effects, ReconcileLook(e) PROVE IInv'
    <2>1. /\ UNCHANGED <<pc, effect, policy, tried, final, answer, receipt, performed>>
          /\ receipt[e].status = "started"
          /\ reconciler' \in [Effects -> {"none", "pending", "committed"}]
          /\ \A x \in Effects : reconciler'[x] = reconciler[x] \/ x = e
      BY Zenon, <1>2 DEF ReconcileLook, IInv, TypeOK
    <2>2. TypeOK'
      BY Zenon, <2>1 DEF IInv, TypeOK
    <2>3. ReconcilesClaimed'
      BY Zenon, <2>1 DEF IInv, ReconcilesClaimed
    <2> QED
      BY <2>1, <2>2, <2>3 DEF IInv, ClaimsExclusive, Claimed, EffectAtMostOnce, ReceiptsAreTrue, AnswersAreTrue
  <1>3. ASSUME NEW c \in Calls, CallStep(c) PROVE IInv'
    BY Zenon, <1>3, MovesPreserveIInv, ClaimPreservesIInv, FailurePreservesIInv, PerformPreservesIInv, WritesPreserveIInv
    DEF CallStep
  <1> QED
    BY Zenon, <1>1, <1>2, <1>3, WritesPreserveIInv DEF Next

\* The invariant of ExecutionBroker.execute over a shared receipt store.
THEOREM BrokerInvariant == Spec => []IInv
  <1> QED
    BY InitIInv, NextPreservesIInv, PTL DEF Spec

\* The external action behind an effect id is carried out at most once, for
\* any number of racing, crashing and retried calls.
THEOREM EffectIsPerformedAtMostOnce == Spec => []EffectAtMostOnce
  <1>1. IInv => EffectAtMostOnce
    BY Zenon DEF IInv
  <1> QED
    BY <1>1, BrokerInvariant, PTL

\* A reported success is true, and on record from then on.
THEOREM ReportedSuccessIsTrue == Spec => []AnswersAreTrue
  <1>1. IInv => AnswersAreTrue
    BY Zenon DEF IInv
  <1> QED
    BY <1>1, BrokerInvariant, PTL

\* Resolved receipts survive every step: receipts change only by a claim of a
\* missing one and by true writes through putEffect.
LEMMA StepKeepsResolved ==
  ASSUME IInv, [Next]_vars, NEW x \in Effects
  PROVE  /\ receipt[x].status = "committed" =>
               receipt'[x].status = "committed" /\ receipt'[x].result = receipt[x].result
         /\ receipt[x].status = "failed" => receipt'[x].status \in {"failed", "committed"}
  <1>1. \/ receipt' = receipt
        \/ \E c \in Calls : ClaimEffect(c) /\ receipt' # receipt
        \/ \E c \in Calls : PutOutcome(c) \/ PutUncertain(c)
        \/ \E e \in Effects : ReconcilePut(e)
    BY ZenonT(30) DEF Next, CallStep, vars, Begin, GetEffect, ReadLostClaim, SkipExecutor, Perform, ExecutorReturnsError,
           Escalate, ExecutorReturnsOk, NoExecutorLeft, Throw, Crash, ReconcileLook
  <1>2. ASSUME NEW c \in Calls, ClaimEffect(c), receipt' # receipt
        PROVE  receipt[x].status \in {"committed", "failed"} => receipt'[x] = receipt[x]
    <2>1. receipt[effect[c]].status = "missing" /\ receipt' = [receipt EXCEPT ![effect[c]] = Started]
      BY Zenon, <1>2 DEF ClaimEffect
    <2> QED
      BY Zenon, <2>1 DEF IInv, TypeOK
  <1>3. ASSUME WritesTrueReceipt
        PROVE  /\ receipt[x].status = "committed" =>
                     receipt'[x].status = "committed" /\ receipt'[x].result = receipt[x].result
               /\ receipt[x].status = "failed" => receipt'[x].status \in {"failed", "committed"}
    <2> PICK e \in Effects, r \in Receipts :
             receipt[e].status # "missing" /\ TrueReceipt(e, r) /\ putEffect(e, r)
      BY Zenon, <1>3 DEF WritesTrueReceipt
    <2>1. receipt[x].status = "committed" =>
             receipt'[x].status = "committed" /\ receipt'[x].result = receipt[x].result
      BY Zenon, PutKeepsReceipts
    <2>2. r.status \in {"started", "committed", "failed"}
      BY Zenon DEF TrueReceipt, Receipts
    <2>3. receipt' = receipt \/ (receipt' = [receipt EXCEPT ![e] = r] /\ (receipt[e].status = "failed" => r.status # "started"))
      BY Zenon DEF putEffect, canReplaceEffect
    <2>4. receipt[x].status = "failed" => receipt'[x].status \in {"failed", "committed"}
      BY Zenon, <2>2, <2>3 DEF IInv, TypeOK
    <2> QED
      BY Zenon, <2>1, <2>4
  <1> QED
    BY Zenon, <1>1, <1>2, <1>3, WritesPreserveIInv

\* Neither a call's catch nor a late reconciler regresses a resolved receipt.
THEOREM ResolvedStaysResolved == Spec => ResolvedNeverRegresses
  <1>1. IInv /\ [Next]_vars =>
          [\A e \in Effects :
             /\ receipt[e].status = "committed" =>
                   receipt'[e].status = "committed" /\ receipt'[e].result = receipt[e].result
             /\ receipt[e].status = "failed" => receipt'[e].status \in {"failed", "committed"}]_vars
    BY Zenon, StepKeepsResolved
  <1> QED
    BY <1>1, BrokerInvariant, PTL DEF Spec, ResolvedNeverRegresses

-----------------------------------------------------------------------------
(* Sequences.                                                                 *)

\* What is taken from a queue.
LEMMA Taken ==
  ASSUME NEW S, NEW s \in Seq(S), s # <<>>
  PROVE  /\ Tail(s) \in Seq(S) /\ 1 \in DOMAIN s /\ Head(s) = s[1] /\ s[1] \in S
         /\ \A i \in DOMAIN Tail(s) : i \in Nat \ {0} /\ i + 1 \in DOMAIN s /\ Tail(s)[i] = s[i + 1]
  BY HeadTailProperties, LenProperties

\* What is put at its end.
LEMMA Appended ==
  ASSUME NEW S, NEW s \in Seq(S), NEW e \in S
  PROVE  /\ Append(s, e) \in Seq(S)
         /\ \A i \in DOMAIN Append(s, e) :
               \/ i \in DOMAIN s /\ Append(s, e)[i] = s[i]
               \/ i = Len(s) + 1 /\ i \notin DOMAIN s /\ Append(s, e)[i] = e
  BY AppendProperties, LenProperties
-----------------------------------------------------------------------------
(* The git source.                                                            *)

\* No source is open and nothing is read at first.
LEMMA SourceStarts == SourceInit => SourceIInv
<1> SUFFICES ASSUME SourceInit PROVE SourceIInv
  BY Zenon
<1> USE SourceAssumption DEF SourceInit
<1>1. SourceTypeOK
  BY DEF SourceTypeOK
<1>2. OpensItsRef
  BY Zenon DEF OpensItsRef, Opening
<1>3. OneAtATime
  BY DEF OneAtATime, ReadsAreOpened, WrittenIsFirst, ChainInOrder
<1>4. PipeIsItsAnswer /\ ReadsAreRight
  BY Zenon DEF PipeIsItsAnswer, PipeInTurn, ReadsAreRight
<1> QED
  BY Zenon, <1>1, <1>2, <1>3, <1>4 DEF SourceIInv

\* A step of the repositories keeps the types of their state.
LEMMA RepoTypes ==
  ASSUME SourceIInv, UNCHANGED readVars,
         \/ \E r \in Remotes : PushUpstream(r)
         \/ \E s \in Sources : Open(s) \/ SetRemote(s) \/ Fetch(s) \/ RevParse(s) \/ OpenFails(s)
  PROVE  SourceTypeOK'
<1> USE DEF SourceIInv, SourceTypeOK, readVars
<1>0. \A s \in Sources : DirOf[s] \in Dirs /\ RemoteOf[s] \in Remotes
  BY Zenon DEF Dirs, Remotes
<1>1. ASSUME NEW r \in Remotes, PushUpstream(r) PROVE SourceTypeOK'
  <2>1. PICK c \in SourceCommits :
          /\ tip' = [tip EXCEPT ![r] = c]
          /\ since' = [s \in Sources |-> IF RemoteOf[s] = r /\ opening[s] # "new" THEN since[s] \cup {c} ELSE since[s]]
    BY Zenon, <1>1 DEF PushUpstream
  <2>2. tip' \in [Remotes -> SourceCommits] /\ since' \in [Sources -> SUBSET SourceCommits]
    BY Zenon, <2>1
  <2> QED
    BY ZenonT(30), <1>1, <2>2 DEF PushUpstream
<1>2. ASSUME NEW s \in Sources, Open(s) PROVE SourceTypeOK'
  BY <1>0, <1>2 DEF Open, Step
<1>3. ASSUME NEW s \in Sources, SetRemote(s) PROVE SourceTypeOK'
  BY Zenon, <1>0, <1>3 DEF SetRemote, Step
<1>4. ASSUME NEW s \in Sources, Fetch(s) PROVE SourceTypeOK'
  <2>1. origin[DirOf[s]] \in Remotes
    BY Zenon, <1>4 DEF Fetch, OpensItsRef
  <2> QED
    BY Zenon, <1>0, <1>4, <2>1 DEF Fetch, Step
<1>5. ASSUME NEW s \in Sources, RevParse(s) PROVE SourceTypeOK'
  BY Zenon, <1>0, <1>5 DEF RevParse, Step
<1>6. ASSUME NEW s \in Sources, OpenFails(s) PROVE SourceTypeOK'
  BY <1>6 DEF OpenFails, Step
<1> QED
  BY Zenon, <1>1, <1>2, <1>3, <1>4, <1>5, <1>6

\* A source alone in its gitDir still goes to its own ref.
LEMMA RepoKeepsRef ==
  ASSUME SourceIInv,
         \/ \E r \in Remotes : PushUpstream(r)
         \/ \E s \in Sources : Open(s) \/ SetRemote(s) \/ Fetch(s) \/ RevParse(s) \/ OpenFails(s)
  PROVE  OpensItsRef'
<1> USE DEF SourceIInv, SourceTypeOK, OpensItsRef, Opening
<1>0. \A s \in Sources : DirOf[s] \in Dirs /\ RemoteOf[s] \in Remotes
  BY Zenon DEF Dirs, Remotes
<1>1. ASSUME NEW r \in Remotes, PushUpstream(r) PROVE OpensItsRef'
  <2>1. PICK c \in SourceCommits :
          /\ tip' = [tip EXCEPT ![r] = c]
          /\ since' = [s \in Sources |-> IF RemoteOf[s] = r /\ opening[s] # "new" THEN since[s] \cup {c} ELSE since[s]]
    BY Zenon, <1>1 DEF PushUpstream
  <2>2. UNCHANGED <<origin, fetchHead, opening, commit, shared>>
    BY Zenon, <1>1 DEF PushUpstream
  <2>3. \A s \in Sources : since[s] \subseteq since'[s] /\ (opening[s] # "new" => tip'[RemoteOf[s]] \in since'[s])
    BY Zenon, <1>0, <2>1
  <2> QED
    BY Zenon, <2>2, <2>3
<1>2. ASSUME NEW s \in Sources, Open(s) PROVE OpensItsRef'
  <2> DEFINE others == {t \in Sources : t # s /\ DirOf[t] = DirOf[s] /\ Opening(t)}
  <2>1. /\ opening[s] = "new" /\ opening' = [opening EXCEPT ![s] = "remote"] /\ since' = [since EXCEPT ![s] = {tip[RemoteOf[s]]}]
        /\ UNCHANGED <<tip, origin, fetchHead, commit>>
        /\ shared' = IF others = {} THEN shared ELSE shared \cup others \cup {s}
    BY Zenon, <1>2 DEF Open, Step
  <2>2. shared \subseteq shared' /\ (others # {} => s \in shared' /\ others \subseteq shared')
    BY Zenon, <2>1
  <2>3. ASSUME NEW t \in Sources, NEW u \in Sources, t # u, DirOf[t] = DirOf[u], Opening(t)', Opening(u)' PROVE t \in shared'
    <3>1. CASE t = s
      BY Zenon, <2>1, <2>2, <3>1, <2>3
    <3>2. CASE u = s
      BY Zenon, <2>1, <2>2, <3>2, <2>3
    <3>3. CASE t # s /\ u # s
      BY Zenon, <2>1, <2>2, <3>3, <2>3
    <3> QED
      BY Zenon, <3>1, <3>2, <3>3
  <2> HIDE DEF others
  <2>4. ASSUME NEW t \in Sources, t # s
        PROVE  opening'[t] = opening[t] /\ since'[t] = since[t] /\ (t \notin shared' => t \notin shared)
    BY Zenon, <2>1, <2>2, <2>4
  <2>5. opening'[s] = "remote" /\ since'[s] = {tip[RemoteOf[s]]}
    BY Zenon, <2>1
  <2> QED
    BY ZenonT(30), <2>1, <2>3, <2>4, <2>5
<1>3. ASSUME NEW s \in Sources, SetRemote(s) PROVE OpensItsRef'
  <2>1. /\ opening[s] = "remote" /\ opening' = [opening EXCEPT ![s] = "fetch"] /\ origin' = [origin EXCEPT ![DirOf[s]] = RemoteOf[s]]
        /\ UNCHANGED <<tip, fetchHead, commit, since, shared>>
    BY Zenon, <1>3 DEF SetRemote, Step
  <2>2. ASSUME NEW t \in Sources, opening'[t] = "fetch" PROVE origin'[DirOf[t]] \in Remotes
    BY Zenon, <1>0, <2>1, <2>2
  <2>3. ASSUME NEW t \in Sources, opening'[t] = "fetch", t \notin shared PROVE origin'[DirOf[t]] = RemoteOf[t]
    BY Zenon, <1>0, <2>1, <2>3
  <2> QED
    BY <2>1, <2>2, <2>3
<1>4. ASSUME NEW s \in Sources, Fetch(s) PROVE OpensItsRef'
  <2>1. /\ opening[s] = "fetch" /\ opening' = [opening EXCEPT ![s] = "revparse"]
        /\ fetchHead' = [fetchHead EXCEPT ![DirOf[s]] = tip[origin[DirOf[s]]]]
        /\ UNCHANGED <<tip, origin, commit, since, shared>>
    BY Zenon, <1>4 DEF Fetch, Step
  <2>2. ASSUME NEW t \in Sources, opening'[t] = "revparse", t \notin shared PROVE fetchHead'[DirOf[t]] \in since[t]
    BY Zenon, <1>0, <2>1, <2>2
  <2> QED
    BY <2>1, <2>2
<1>5. ASSUME NEW s \in Sources, RevParse(s) PROVE OpensItsRef'
  <2>1. /\ opening[s] = "revparse" /\ opening' = [opening EXCEPT ![s] = "open"]
        /\ commit' = [commit EXCEPT ![s] = fetchHead[DirOf[s]]]
        /\ UNCHANGED <<tip, origin, fetchHead, since, shared>>
    BY Zenon, <1>5 DEF RevParse, Step
  <2> QED
    BY ZenonT(30), <1>0, <2>1
<1>6. ASSUME NEW s \in Sources, OpenFails(s) PROVE OpensItsRef'
  <2>1. opening' = [opening EXCEPT ![s] = "new"] /\ UNCHANGED <<tip, origin, fetchHead, commit, since, shared>>
    BY Zenon, <1>6 DEF OpenFails, Step
  <2> QED
    BY <2>1
<1> QED
  BY Zenon, <1>1, <1>2, <1>3, <1>4, <1>5, <1>6

\* What stands in a chain.
LEMMA InChain ==
  ASSUME SourceIInv, NEW s \in Sources, NEW i \in DOMAIN chain[s]
  PROVE  /\ chain[s][i] \in Reads /\ SourceOf[chain[s][i]] = s /\ reading[chain[s][i]] \in {"chained", "header", "bytes"}
         /\ i # 1 => reading[chain[s][i]] = "chained"
         /\ \A j \in DOMAIN chain[s] : chain[s][i] = chain[s][j] => i = j
<1>1. chain[s] \in Seq(Reads)
  BY Zenon DEF SourceIInv, SourceTypeOK
<1>2. ChainInOrder(s)
  BY Zenon DEF SourceIInv, OneAtATime
<1> QED
  BY <1>1, <1>2 DEF ChainInOrder

\* A source whose reads do not move keeps its chain and its pipe in order.
LEMMA SourceStays ==
  ASSUME SourceIInv, NEW s \in Sources, chain'[s] = chain[s], pipe'[s] = pipe[s],
         \A q \in Reads : SourceOf[q] = s /\ reading[q] \in {"chained", "header", "bytes"}
                             => reading'[q] = reading[q] /\ HeaderOf(q)' = HeaderOf(q) /\ BytesOf(q)' = BytesOf(q)
  PROVE  /\ ChainInOrder(s)'
         /\ PipeInTurn(s)'
<1>0. ASSUME NEW i \in DOMAIN chain[s] PROVE chain[s][i] \in Reads /\ reading'[chain[s][i]] = reading[chain[s][i]]
  BY ZenonT(30), InChain
<1>1. ChainInOrder(s)'
  BY <1>0 DEF SourceIInv, OneAtATime, ChainInOrder
<1>2. PipeInTurn(s)
  BY Zenon DEF SourceIInv, PipeIsItsAnswer
<1>3. CASE chain[s] = <<>>
  BY Zenon, <1>1, <1>2, <1>3 DEF PipeInTurn
<1>4. CASE chain[s] # <<>>
  <2>1. chain[s] \in Seq(Reads)
    BY Zenon DEF SourceIInv, SourceTypeOK
  <2>2. 1 \in DOMAIN chain[s] /\ Head(chain[s]) = chain[s][1]
    BY Zenon, <1>4, <2>1, Taken
  <2>0. PICK r \in Reads : r = Head(chain[s])
    BY <2>1, <2>2
  <2>3. reading'[r] = reading[r] /\ HeaderOf(r)' = HeaderOf(r) /\ BytesOf(r)' = BytesOf(r) /\ r = Head(chain'[s]) /\ r = Head(chain[s])
    BY <2>0, <2>2, InChain
  <2>4. AnswerIn(s, r)
    BY Zenon, <1>2, <1>4, <2>3 DEF PipeInTurn
  <2>5. AnswerIn(s, r)'
    BY Zenon, <2>3, <2>4 DEF AnswerIn, MissingLine
  <2> QED
    BY Zenon, <1>1, <1>4, <2>3, <2>5 DEF PipeInTurn
<1> QED
  BY Zenon, <1>1, <1>3, <1>4

\* What is read stays as it is, for the commit of an open source stays.
LEMMA RepoKeepsReads ==
  ASSUME SourceIInv, UNCHANGED readVars, UNCHANGED chain,
         \A s \in Sources : opening[s] = "open" => opening'[s] = "open" /\ commit'[s] = commit[s]
  PROVE  OneAtATime' /\ PipeIsItsAnswer' /\ ReadsAreRight'
<1> USE SourceAssumption DEF SourceIInv, readVars
<1>1. ASSUME NEW r \in Reads, reading[r] # "new"
      PROVE  /\ opening'[SourceOf[r]] = "open" /\ Object(SourceOf[r], PathOf[r])' = Object(SourceOf[r], PathOf[r])
             /\ HeaderOf(r)' = HeaderOf(r) /\ BytesOf(r)' = BytesOf(r)
  BY Zenon, <1>1 DEF OneAtATime, ReadsAreOpened, Object, HeaderOf, BytesOf
<1>2. ReadsAreOpened'
  BY Zenon, <1>1 DEF ReadsAreOpened
<1>3. WrittenIsFirst'
  BY Zenon DEF OneAtATime, WrittenIsFirst, Turn
<1>4. ReadsAreRight'
  BY Zenon, <1>1 DEF ReadsAreRight
<1>5. ASSUME NEW s \in Sources
      PROVE  /\ ChainInOrder(s)'
             /\ PipeInTurn(s)'
  <2>1. \A q \in Reads : SourceOf[q] = s /\ reading[q] \in {"chained", "header", "bytes"}
                            => reading'[q] = reading[q] /\ HeaderOf(q)' = HeaderOf(q) /\ BytesOf(q)' = BytesOf(q)
    BY Zenon, <1>1
  <2> QED
    BY Zenon, <2>1, SourceStays
<1> QED
  BY Zenon, <1>2, <1>3, <1>4, <1>5 DEF OneAtATime, PipeIsItsAnswer

\* A step of the repositories leaves open sources alone.
LEMMA RepoKeeps ==
  ASSUME SourceIInv,
         \/ \E r \in Remotes : PushUpstream(r)
         \/ \E s \in Sources : Open(s) \/ SetRemote(s) \/ Fetch(s) \/ RevParse(s) \/ OpenFails(s)
  PROVE  SourceIInv'
<1>1. UNCHANGED readVars
  BY Zenon DEF PushUpstream, Open, SetRemote, Fetch, RevParse, OpenFails
<1>2. \A s \in Sources : opening[s] = "open" => opening'[s] = "open" /\ commit'[s] = commit[s]
  BY ZenonT(30) DEF SourceIInv, SourceTypeOK, PushUpstream, Open, SetRemote, Fetch, RevParse, OpenFails, Step, Opening
<1>3. SourceTypeOK'
  BY Zenon, <1>1, RepoTypes
<1>4. OpensItsRef'
  BY Zenon, RepoKeepsRef
<1>5. UNCHANGED chain
  BY Zenon, <1>1 DEF readVars
<1> QED
  BY Zenon, <1>1, <1>2, <1>3, <1>4, <1>5, RepoKeepsReads DEF SourceIInv

\* A step of the reads leaves the repositories alone.
LEMMA ReadsLeaveRepo ==
  ASSUME SourceIInv, UNCHANGED repoVars,
         chain' \in [Sources -> Seq(Reads)], pipe' = [s \in Sources |-> pipe'[s]], result' = [r \in Reads |-> result'[r]],
         reading' \in [Reads -> {"new", "chained", "header", "bytes", "done", "rejected", "hung"}]
  PROVE  /\ SourceTypeOK' /\ OpensItsRef'
         /\ \A r : HeaderOf(r)' = HeaderOf(r) /\ BytesOf(r)' = BytesOf(r) /\ Object(SourceOf[r], PathOf[r])' = Object(SourceOf[r], PathOf[r])
<1>0. UNCHANGED <<tip, origin, fetchHead, opening, commit, since, shared>>
  BY Zenon DEF repoVars
<1>1. SourceTypeOK'
  BY Zenon, <1>0 DEF SourceIInv, SourceTypeOK
<1>2. OpensItsRef'
  BY Zenon, <1>0 DEF SourceIInv, OpensItsRef, Opening
<1>3. \A r : HeaderOf(r)' = HeaderOf(r) /\ BytesOf(r)' = BytesOf(r) /\ Object(SourceOf[r], PathOf[r])' = Object(SourceOf[r], PathOf[r])
  BY Zenon, <1>0 DEF HeaderOf, BytesOf, Object
<1> QED
  BY Zenon, <1>1, <1>2, <1>3

\* The first of a chain.
LEMMA First ==
  ASSUME SourceIInv, NEW s \in Sources, chain[s] # <<>>
  PROVE  /\ 1 \in DOMAIN chain[s] /\ Head(chain[s]) = chain[s][1] /\ Head(chain[s]) \in Reads /\ SourceOf[Head(chain[s])] = s
         /\ Tail(chain[s]) \in Seq(Reads)
         /\ \A i \in DOMAIN Tail(chain[s]) : i \in Nat \ {0} /\ i + 1 \in DOMAIN chain[s] /\ Tail(chain[s])[i] = chain[s][i + 1]
<1>1. chain[s] \in Seq(Reads)
  BY Zenon DEF SourceIInv, SourceTypeOK
<1>2. /\ 1 \in DOMAIN chain[s] /\ Head(chain[s]) = chain[s][1] /\ chain[s][1] \in Reads /\ Tail(chain[s]) \in Seq(Reads)
      /\ \A i \in DOMAIN Tail(chain[s]) : i \in Nat \ {0} /\ i + 1 \in DOMAIN chain[s] /\ Tail(chain[s])[i] = chain[s][i + 1]
  BY <1>1, Taken
<1> QED
  BY <1>2, InChain

\* A read settles, and the next may be written.
LEMMA SettleKeeps ==
  ASSUME SourceIInv, NEW r \in Reads, NEW how \in {"done", "rejected"}, Turn(r), Settle(r, how),
         reading[r] \in {"header", "bytes"},
         UNCHANGED repoVars, pipe' = [pipe EXCEPT ![SourceOf[r]] = <<>>], result' = [q \in Reads |-> result'[q]],
         \A q \in Reads \ {r} : result'[q] = result[q],
         how = "done" => result'[r] = Object(SourceOf[r], PathOf[r])
  PROVE  SourceIInv'
<1> DEFINE s == SourceOf[r]
<1> USE SourceAssumption DEF SourceIInv
<1>0. s \in Sources /\ chain[s] # <<>> /\ Head(chain[s]) = r
  BY Zenon DEF Turn
<1>1. /\ 1 \in DOMAIN chain[s] /\ chain[s][1] = r /\ Tail(chain[s]) \in Seq(Reads)
      /\ \A i \in DOMAIN Tail(chain[s]) : i \in Nat \ {0} /\ i + 1 \in DOMAIN chain[s] /\ Tail(chain[s])[i] = chain[s][i + 1]
  BY Zenon, <1>0, First
<1> HIDE DEF s
<1>2. /\ reading' = [reading EXCEPT ![r] = how] /\ chain' = [chain EXCEPT ![s] = Tail(@)] /\ pipe' = [pipe EXCEPT ![s] = <<>>]
      /\ UNCHANGED <<opening>>
  BY Zenon DEF Settle, s, repoVars
<1>3. chain' \in [Sources -> Seq(Reads)] /\ pipe' = [t \in Sources |-> pipe'[t]]
      /\ reading' \in [Reads -> {"new", "chained", "header", "bytes", "done", "rejected", "hung"}]
  BY Zenon, <1>0, <1>1, <1>2 DEF SourceTypeOK
<1>4. /\ SourceTypeOK' /\ OpensItsRef'
      /\ \A q : HeaderOf(q)' = HeaderOf(q) /\ BytesOf(q)' = BytesOf(q) /\ Object(SourceOf[q], PathOf[q])' = Object(SourceOf[q], PathOf[q])
  BY Zenon, <1>3, ReadsLeaveRepo
<1>5. /\ \A q \in Reads : q # r => reading'[q] = reading[q]
      /\ reading'[r] = how /\ chain'[s] = Tail(chain[s]) /\ pipe'[s] = <<>>
      /\ \A t \in Sources : t # s => chain'[t] = chain[t] /\ pipe'[t] = pipe[t]
  BY Zenon, <1>0, <1>2 DEF SourceTypeOK
<1>6. \A i \in DOMAIN chain'[s] : /\ chain'[s][i] = chain[s][i + 1] /\ i \in Nat \ {0} /\ i + 1 \in DOMAIN chain[s]
                                 /\ chain'[s][i] \in Reads /\ chain'[s][i] # r /\ reading[chain'[s][i]] = "chained" /\ SourceOf[chain'[s][i]] = s
  <2> SUFFICES ASSUME NEW i \in DOMAIN chain'[s]
               PROVE  /\ chain'[s][i] = chain[s][i + 1] /\ i \in Nat \ {0} /\ i + 1 \in DOMAIN chain[s]
                      /\ chain'[s][i] \in Reads /\ chain'[s][i] # r /\ reading[chain'[s][i]] = "chained" /\ SourceOf[chain'[s][i]] = s
    BY Zenon
  <2>1. chain'[s][i] = chain[s][i + 1] /\ i \in Nat \ {0} /\ i + 1 \in DOMAIN chain[s] /\ i + 1 # 1
    BY <1>1, <1>5
  <2>2. 1 \in DOMAIN chain[s] /\ chain[s][1] = r
    BY Zenon, <1>1
  <2>3. /\ chain[s][i + 1] \in Reads /\ SourceOf[chain[s][i + 1]] = s /\ reading[chain[s][i + 1]] = "chained"
        /\ chain[s][i + 1] = chain[s][1] => i + 1 = 1
    BY ZenonT(30), <1>0, <2>1, <2>2, InChain
  <2> QED
    BY Zenon, <2>1, <2>2, <2>3
<1>61. \A i \in DOMAIN chain'[s] : reading'[chain'[s][i]] = "chained"
  <2> SUFFICES ASSUME NEW i \in DOMAIN chain'[s] PROVE reading'[chain'[s][i]] = "chained"
    BY Zenon
  <2>1. chain'[s][i] \in Reads /\ chain'[s][i] # r /\ reading[chain'[s][i]] = "chained"
    BY Zenon, <1>6
  <2> QED
    BY Zenon, <1>5, <2>1
<1>7. ReadsAreOpened' /\ ReadsAreRight'
  <2>1. ReadsAreOpened'
    BY <1>2, <1>5 DEF OneAtATime, ReadsAreOpened
  <2>2. ReadsAreRight'
    BY Zenon, <1>4, <1>5 DEF ReadsAreRight
  <2> QED
    BY Zenon, <2>1, <2>2
<1>8. WrittenIsFirst'
  <2> SUFFICES ASSUME NEW q \in Reads, reading'[q] \in {"header", "bytes"} PROVE Turn(q)'
    BY Zenon DEF WrittenIsFirst
  <2>1. q # r /\ Turn(q)
    BY Zenon, <1>5 DEF OneAtATime, WrittenIsFirst
  <2>2. SourceOf[q] # s
    BY Zenon, <1>0, <2>1 DEF Turn
  <2> QED
    BY Zenon, <1>5, <2>1, <2>2 DEF Turn
<1>9. ASSUME NEW t \in Sources, t # s
      PROVE  /\ ChainInOrder(t)'
             /\ PipeInTurn(t)'
  <2>1. chain'[t] = chain[t] /\ pipe'[t] = pipe[t]
    BY Zenon, <1>5, <1>9
  <2>2. ASSUME NEW q \in Reads, SourceOf[q] = t PROVE reading'[q] = reading[q]
    BY Zenon, <1>5, <1>9, <2>2 DEF s
  <2> QED
    BY Zenon, <1>4, <2>1, <2>2, SourceStays
<1>10. ChainInOrder(s)'
  <2>1. ASSUME NEW i \in DOMAIN chain'[s], NEW j \in DOMAIN chain'[s], chain'[s][i] = chain'[s][j] PROVE i = j
    <3>1. i \in Nat /\ j \in Nat /\ i + 1 \in DOMAIN chain[s] /\ j + 1 \in DOMAIN chain[s] /\ chain[s][i + 1] = chain[s][j + 1]
      BY Zenon, <1>6, <2>1
    <3>2. i + 1 = j + 1
      BY Zenon, <1>0, <3>1, InChain
    <3> QED
      BY <3>1, <3>2
  <2>2. ASSUME NEW i \in DOMAIN chain'[s] PROVE SourceOf[chain'[s][i]] = s /\ reading'[chain'[s][i]] = "chained"
    BY Zenon, <1>6, <1>61
  <2> QED
    BY Zenon, <2>1, <2>2 DEF ChainInOrder
<1>11. PipeInTurn(s)'
  <2>1. ASSUME chain'[s] # <<>> PROVE reading'[Head(chain'[s])] = "chained"
    <3>1. chain'[s] \in Seq(Reads)
      BY Zenon, <1>0, <1>3
    <3>2. 1 \in DOMAIN chain'[s] /\ Head(chain'[s]) = chain'[s][1]
      BY Zenon, <2>1, <3>1, Taken
    <3> QED
      BY Zenon, <1>61, <3>2
  <2> QED
    BY Zenon, <1>5, <2>1 DEF PipeInTurn, AnswerIn
<1> QED
  BY Zenon, <1>0, <1>4, <1>7, <1>8, <1>9, <1>10, <1>11 DEF OneAtATime, PipeIsItsAnswer

\* The read whose turn it is goes on: the pipe holds the rest of its answer.
LEMMA AheadKeeps ==
  ASSUME SourceIInv, NEW r \in Reads, NEW to \in {"header", "bytes"}, NEW rest, Turn(r),
         reading[r] \in {"chained", "header"}, reading' = [reading EXCEPT ![r] = to],
         pipe' = [pipe EXCEPT ![SourceOf[r]] = rest], UNCHANGED <<repoVars, chain, result>>,
         to = "header" => rest \in {<<HeaderOf(r), BytesOf(r)>>, <<MissingLine>>},
         to = "bytes" => rest = <<BytesOf(r)>>
  PROVE  SourceIInv'
<1> DEFINE s == SourceOf[r]
<1> USE SourceAssumption DEF SourceIInv
<1>0. s \in Sources /\ chain[s] # <<>> /\ Head(chain[s]) = r
  BY Zenon DEF Turn
<1>1. 1 \in DOMAIN chain[s] /\ chain[s][1] = r
  BY Zenon, <1>0, First
<1> HIDE DEF s
<1>2. /\ chain' = chain /\ result' = result /\ opening' = opening /\ reading'[r] = to /\ pipe'[s] = rest
      /\ \A q \in Reads : q # r => reading'[q] = reading[q]
      /\ \A t \in Sources : t # s => pipe'[t] = pipe[t]
  BY Zenon, <1>0 DEF SourceTypeOK, s, repoVars
<1>3. chain' \in [Sources -> Seq(Reads)] /\ pipe' = [t \in Sources |-> pipe'[t]] /\ result' = [q \in Reads |-> result'[q]]
      /\ reading' \in [Reads -> {"new", "chained", "header", "bytes", "done", "rejected", "hung"}]
  <2>1. chain' \in [Sources -> Seq(Reads)]
    BY Zenon, <1>2 DEF SourceTypeOK
  <2>2. pipe' = [t \in Sources |-> pipe'[t]]
    BY Zenon DEF SourceTypeOK
  <2>3. result' = [q \in Reads |-> result'[q]]
    BY <1>2 DEF SourceTypeOK
  <2>4. reading' \in [Reads -> {"new", "chained", "header", "bytes", "done", "rejected", "hung"}]
    BY Zenon DEF SourceTypeOK
  <2> QED
    BY Zenon, <2>1, <2>2, <2>3, <2>4
<1>4. /\ SourceTypeOK' /\ OpensItsRef'
      /\ \A q : HeaderOf(q)' = HeaderOf(q) /\ BytesOf(q)' = BytesOf(q) /\ Object(SourceOf[q], PathOf[q])' = Object(SourceOf[q], PathOf[q])
  BY Zenon, <1>3, ReadsLeaveRepo
<1>5. ReadsAreOpened' /\ WrittenIsFirst' /\ ReadsAreRight'
  <2>1. ReadsAreOpened'
    BY Zenon, <1>2 DEF OneAtATime, ReadsAreOpened
  <2>2. WrittenIsFirst'
    BY Zenon, <1>2 DEF OneAtATime, WrittenIsFirst, Turn
  <2>3. ReadsAreRight'
    BY Zenon, <1>2, <1>4 DEF ReadsAreRight
  <2> QED
    BY Zenon, <2>1, <2>2, <2>3
<1>6. ASSUME NEW t \in Sources, t # s
      PROVE  /\ ChainInOrder(t)'
             /\ PipeInTurn(t)'
  <2>1. chain'[t] = chain[t] /\ pipe'[t] = pipe[t]
    BY Zenon, <1>2, <1>6
  <2>2. ASSUME NEW q \in Reads, SourceOf[q] = t PROVE reading'[q] = reading[q]
    BY Zenon, <1>2, <1>6, <2>2 DEF s
  <2> QED
    BY Zenon, <1>4, <2>1, <2>2, SourceStays
<1>7. ChainInOrder(s)'
  <2> SUFFICES ASSUME NEW i \in DOMAIN chain[s]
               PROVE  /\ SourceOf[chain[s][i]] = s
                      /\ reading'[chain[s][i]] \in IF i = 1 THEN {"chained", "header", "bytes"} ELSE {"chained"}
                      /\ \A j \in DOMAIN chain[s] : chain[s][i] = chain[s][j] => i = j
    BY Zenon, <1>2 DEF ChainInOrder
  <2>1. /\ chain[s][i] \in Reads /\ SourceOf[chain[s][i]] = s /\ reading[chain[s][i]] \in {"chained", "header", "bytes"}
        /\ i # 1 => reading[chain[s][i]] = "chained"
        /\ \A j \in DOMAIN chain[s] : chain[s][i] = chain[s][j] => i = j
    BY Zenon, <1>0, InChain
  <2>2. CASE i = 1
    BY <1>1, <1>2, <2>1, <2>2
  <2>3. CASE i # 1
    BY <1>1, <1>2, <2>1, <2>3
  <2> QED
    BY Zenon, <2>2, <2>3
<1>8. PipeInTurn(s)'
  <2>1. AnswerIn(s, r)'
    BY Zenon, <1>2, <1>4 DEF AnswerIn, MissingLine
  <2> QED
    BY Zenon, <1>0, <1>2, <2>1 DEF PipeInTurn
<1> QED
  BY Zenon, <1>0, <1>4, <1>5, <1>6, <1>7, <1>8 DEF OneAtATime, PipeIsItsAnswer

\* A read joins the end of its chain, or is refused.
LEMMA EntryKeeps ==
  ASSUME SourceIInv, NEW r \in Reads, ReadEntry(r)
  PROVE  SourceIInv'
<1> DEFINE s == SourceOf[r]
<1> USE SourceAssumption DEF SourceIInv
<1>0. /\ s \in Sources /\ opening[s] = "open" /\ reading[r] = "new" /\ UNCHANGED <<repoVars, pipe, result>> /\ opening' = opening
  BY Zenon DEF ReadEntry, repoVars
<1>1. PICK how \in {"chained", "rejected"} :
         /\ reading' = [reading EXCEPT ![r] = how]
         /\ how = "chained" => chain' = [chain EXCEPT ![s] = Append(@, r)]
         /\ how = "rejected" => chain' = chain
  BY Zenon DEF ReadEntry, Rejects
<1> HIDE DEF s
<1>2. /\ Append(chain[s], r) \in Seq(Reads)
      /\ \A i \in DOMAIN Append(chain[s], r) :
            \/ i \in DOMAIN chain[s] /\ Append(chain[s], r)[i] = chain[s][i]
            \/ i = Len(chain[s]) + 1 /\ i \notin DOMAIN chain[s] /\ Append(chain[s], r)[i] = r
  BY <1>0, Appended DEF SourceTypeOK
<1>3. /\ reading'[r] = how
      /\ \A q \in Reads : q # r => reading'[q] = reading[q]
      /\ \A t \in Sources : t # s => chain'[t] = chain[t]
      /\ chain'[s] = chain[s] \/ (how = "chained" /\ chain'[s] = Append(chain[s], r))
  BY Zenon, <1>0, <1>1 DEF SourceTypeOK
<1>4. chain' \in [Sources -> Seq(Reads)] /\ pipe' = [t \in Sources |-> pipe'[t]] /\ result' = [q \in Reads |-> result'[q]]
      /\ reading' \in [Reads -> {"new", "chained", "header", "bytes", "done", "rejected", "hung"}]
  <2>1. chain' \in [Sources -> Seq(Reads)]
    BY Zenon, <1>0, <1>1, <1>2 DEF SourceTypeOK
  <2> QED
    BY Zenon, <1>0, <1>1, <2>1 DEF SourceTypeOK
<1>5. /\ SourceTypeOK' /\ OpensItsRef'
      /\ \A q : HeaderOf(q)' = HeaderOf(q) /\ BytesOf(q)' = BytesOf(q) /\ Object(SourceOf[q], PathOf[q])' = Object(SourceOf[q], PathOf[q])
  BY Zenon, <1>0, <1>4, ReadsLeaveRepo
<1>6. \A t \in Sources : \A i \in DOMAIN chain[t] : chain[t][i] \in Reads /\ chain[t][i] # r
  <2> SUFFICES ASSUME NEW t \in Sources, NEW i \in DOMAIN chain[t] PROVE chain[t][i] \in Reads /\ chain[t][i] # r
    BY Zenon
  <2>1. chain[t][i] \in Reads /\ reading[chain[t][i]] \in {"chained", "header", "bytes"}
    BY Zenon, InChain
  <2> QED
    BY Zenon, <1>0, <2>1
<1>7. ASSUME NEW t \in Sources, NEW i \in DOMAIN chain'[t]
      PROVE  \/ i \in DOMAIN chain[t] /\ chain'[t][i] = chain[t][i]
             \/ t = s /\ how = "chained" /\ i = Len(chain[t]) + 1 /\ i \notin DOMAIN chain[t] /\ chain'[t][i] = r
  BY Zenon, <1>2, <1>3
<1>8. \A t \in Sources : \/ chain[t] # <<>> /\ chain'[t] # <<>> /\ Head(chain'[t]) = Head(chain[t]) /\ Head(chain[t]) \in Reads /\ Head(chain[t]) # r
                         \/ chain[t] = <<>> /\ chain'[t] = <<>>
                         \/ chain[t] = <<>> /\ chain'[t] # <<>> /\ Head(chain'[t]) = r /\ t = s /\ how = "chained"
  <2> SUFFICES ASSUME NEW t \in Sources
               PROVE  \/ chain[t] # <<>> /\ chain'[t] # <<>> /\ Head(chain'[t]) = Head(chain[t]) /\ Head(chain[t]) \in Reads /\ Head(chain[t]) # r
                      \/ chain[t] = <<>> /\ chain'[t] = <<>>
                      \/ chain[t] = <<>> /\ chain'[t] # <<>> /\ Head(chain'[t]) = r /\ t = s /\ how = "chained"
    BY Zenon
  <2>1. chain[t] # <<>> => Head(chain[t]) \in Reads /\ Head(chain[t]) # r
    BY <1>6, First
  <2>2. chain'[t] = chain[t] \/ (t = s /\ how = "chained" /\ chain'[t] = Append(chain[t], r))
    BY Zenon, <1>3
  <2>3. chain[t] \in Seq(Reads)
    BY Zenon DEF SourceTypeOK
  <2>4. chain[t] # <<>> => Append(chain[t], r) # <<>> /\ Head(Append(chain[t], r)) = Head(chain[t])
    BY <2>3
  <2>5. chain[t] = <<>> => Append(chain[t], r) # <<>> /\ Head(Append(chain[t], r)) = r
    BY <2>3
  <2> QED
    BY Zenon, <2>1, <2>2, <2>4, <2>5
<1>9. ReadsAreOpened' /\ ReadsAreRight'
  <2>1. ReadsAreOpened'
    <3> SUFFICES ASSUME NEW q \in Reads, reading'[q] # "new" PROVE opening'[SourceOf[q]] = "open"
      BY Zenon DEF ReadsAreOpened
    <3>1. CASE q = r
      BY Zenon, <1>0, <3>1 DEF s
    <3>2. CASE q # r
      BY Zenon, <1>0, <1>3, <3>2 DEF OneAtATime, ReadsAreOpened
    <3> QED
      BY Zenon, <3>1, <3>2
  <2>2. ReadsAreRight'
    BY Zenon, <1>0, <1>3, <1>5 DEF ReadsAreRight
  <2> QED
    BY Zenon, <2>1, <2>2
<1>10. WrittenIsFirst'
  <2> SUFFICES ASSUME NEW q \in Reads, reading'[q] \in {"header", "bytes"} PROVE Turn(q)'
    BY Zenon DEF WrittenIsFirst
  <2>1. q # r /\ Turn(q) /\ SourceOf[q] \in Sources
    BY Zenon, <1>3 DEF OneAtATime, WrittenIsFirst
  <2>2. chain'[SourceOf[q]] # <<>> /\ Head(chain'[SourceOf[q]]) = Head(chain[SourceOf[q]])
    BY Zenon, <1>8, <2>1 DEF Turn
  <2> QED
    BY Zenon, <2>1, <2>2 DEF Turn
<1>11. ASSUME NEW t \in Sources PROVE ChainInOrder(t)'
  <2>1. ASSUME NEW i \in DOMAIN chain'[t] PROVE SourceOf[chain'[t][i]] = t
    <3>1. CASE i \in DOMAIN chain[t] /\ chain'[t][i] = chain[t][i]
      BY <3>1, InChain
    <3>2. CASE t = s /\ chain'[t][i] = r
      BY Zenon, <3>2 DEF s
    <3> QED
      BY Zenon, <1>7, <3>1, <3>2
  <2>2. ASSUME NEW i \in DOMAIN chain'[t]
        PROVE  reading'[chain'[t][i]] \in IF i = 1 THEN {"chained", "header", "bytes"} ELSE {"chained"}
    <3>1. CASE i \in DOMAIN chain[t] /\ chain'[t][i] = chain[t][i]
      <4>1. reading'[chain[t][i]] = reading[chain[t][i]]
        BY Zenon, <1>3, <1>6, <3>1
      <4>2. reading[chain[t][i]] \in {"chained", "header", "bytes"} /\ (i # 1 => reading[chain[t][i]] = "chained")
        BY ZenonT(30), <3>1, InChain
      <4> QED
        BY Zenon, <3>1, <4>1, <4>2
    <3>2. CASE chain'[t][i] = r /\ how = "chained"
      BY Zenon, <1>3, <3>2
    <3> QED
      BY Zenon, <1>7, <3>1, <3>2
  <2>3. ASSUME NEW i \in DOMAIN chain'[t], NEW j \in DOMAIN chain'[t], chain'[t][i] = chain'[t][j]
        PROVE  i = j
    <3>1. \/ i \in DOMAIN chain[t] /\ j \in DOMAIN chain[t] /\ chain[t][i] = chain[t][j]
          \/ i = Len(chain[t]) + 1 /\ j = Len(chain[t]) + 1
      BY <1>6, <1>7, <2>3
    <3> QED
      BY Zenon, <3>1, InChain
  <2> QED
    BY Zenon, <2>1, <2>2, <2>3 DEF ChainInOrder
<1>12. ASSUME NEW t \in Sources PROVE PipeInTurn(t)'
  <2>0. PipeInTurn(t) /\ pipe'[t] = pipe[t]
    BY Zenon, <1>0 DEF PipeIsItsAnswer
  <2>1. CASE chain[t] # <<>> /\ chain'[t] # <<>> /\ Head(chain'[t]) = Head(chain[t]) /\ Head(chain[t]) \in Reads /\ Head(chain[t]) # r
    <3>0. PICK q \in Reads : q = Head(chain[t]) /\ q # r
      BY Zenon, <2>1
    <3>1. q = Head(chain[t]) /\ q = Head(chain'[t]) /\ reading'[q] = reading[q]
      BY Zenon, <1>3, <2>1, <3>0
    <3>2. AnswerIn(t, q)
      BY Zenon, <2>0, <2>1, <3>1 DEF PipeInTurn
    <3>3. AnswerIn(t, q)'
      BY Zenon, <1>5, <2>0, <3>1, <3>2 DEF AnswerIn, MissingLine
    <3> QED
      BY Zenon, <2>1, <3>1, <3>3 DEF PipeInTurn
  <2>2. CASE chain[t] = <<>> /\ chain'[t] = <<>>
    BY Zenon, <2>0, <2>2 DEF PipeInTurn
  <2>3. CASE chain[t] = <<>> /\ chain'[t] # <<>> /\ Head(chain'[t]) = r /\ t = s /\ how = "chained"
    BY Zenon, <1>3, <2>0, <2>3 DEF PipeInTurn, AnswerIn
  <2> QED
    BY Zenon, <1>8, <2>1, <2>2, <2>3
<1> QED
  BY Zenon, <1>5, <1>9, <1>10, <1>11, <1>12 DEF OneAtATime, PipeIsItsAnswer

\* The reads of a child that is gone leave the chain and the pipe.
LEMMA AbandonKeeps ==
  ASSUME SourceIInv, NEW s \in Sources, Abandoned(s), UNCHANGED <<repoVars, result>>
  PROVE  SourceIInv'
<1> DEFINE lost == {r \in Reads : r \in {chain[s][i] : i \in DOMAIN chain[s]}}
<1> USE SourceAssumption DEF SourceIInv
<1>1. PICK how \in {"rejected", "hung"} : reading' = [r \in Reads |-> IF r \in lost THEN how ELSE reading[r]]
  BY Zenon DEF Abandoned
<1>2. chain' = [chain EXCEPT ![s] = <<>>] /\ pipe' = [pipe EXCEPT ![s] = <<>>] /\ result' = result /\ opening' = opening
  BY Zenon DEF Abandoned, repoVars
<1>3. \A q \in lost : SourceOf[q] = s /\ opening[s] = "open"
  <2> SUFFICES ASSUME NEW q \in lost PROVE SourceOf[q] = s /\ opening[s] = "open"
    BY Zenon
  <2>1. PICK i \in DOMAIN chain[s] : q = chain[s][i] /\ q \in Reads
    BY Zenon
  <2>2. SourceOf[q] = s /\ reading[q] \in {"chained", "header", "bytes"}
    BY Zenon, <2>1, InChain
  <2> QED
    BY Zenon, <2>1, <2>2 DEF OneAtATime, ReadsAreOpened
<1>4. ASSUME NEW q \in Reads, SourceOf[q] = s, reading[q] \in {"header", "bytes"} PROVE q \in lost
  <2>1. chain[s] # <<>> /\ Head(chain[s]) = q
    BY Zenon, <1>4 DEF OneAtATime, WrittenIsFirst, Turn
  <2>2. 1 \in DOMAIN chain[s] /\ chain[s][1] = q
    BY Zenon, <2>1, First
  <2> QED
    BY Zenon, <2>2
<1>5. /\ \A q \in Reads : IF q \in lost THEN reading'[q] = how ELSE reading'[q] = reading[q]
      /\ chain'[s] = <<>> /\ pipe'[s] = <<>>
      /\ \A t \in Sources : t # s => chain'[t] = chain[t] /\ pipe'[t] = pipe[t]
  BY Zenon, <1>1, <1>2 DEF SourceTypeOK
<1>6. chain' \in [Sources -> Seq(Reads)] /\ pipe' = [t \in Sources |-> pipe'[t]] /\ result' = [q \in Reads |-> result'[q]]
      /\ reading' \in [Reads -> {"new", "chained", "header", "bytes", "done", "rejected", "hung"}]
  <2>1. chain' \in [Sources -> Seq(Reads)]
    BY <1>2 DEF SourceTypeOK
  <2>2. pipe' = [t \in Sources |-> pipe'[t]] /\ result' = [q \in Reads |-> result'[q]]
    BY Zenon, <1>2 DEF SourceTypeOK
  <2>3. reading' \in [Reads -> {"new", "chained", "header", "bytes", "done", "rejected", "hung"}]
    BY Zenon, <1>1 DEF SourceTypeOK
  <2> QED
    BY Zenon, <2>1, <2>2, <2>3
<1>7. /\ SourceTypeOK' /\ OpensItsRef'
      /\ \A q : HeaderOf(q)' = HeaderOf(q) /\ BytesOf(q)' = BytesOf(q) /\ Object(SourceOf[q], PathOf[q])' = Object(SourceOf[q], PathOf[q])
  BY Zenon, <1>6, ReadsLeaveRepo
<1> HIDE DEF lost
<1>8. ReadsAreOpened' /\ ReadsAreRight'
  <2>1. ReadsAreOpened'
    <3> SUFFICES ASSUME NEW q \in Reads, reading'[q] # "new" PROVE opening[SourceOf[q]] = "open"
      BY Zenon, <1>2 DEF ReadsAreOpened
    <3>1. CASE q \in lost
      BY Zenon, <1>3, <3>1
    <3>2. CASE q \notin lost
      BY Zenon, <1>5, <3>2 DEF OneAtATime, ReadsAreOpened
    <3> QED
      BY Zenon, <3>1, <3>2
  <2>2. ReadsAreRight'
    BY Zenon, <1>2, <1>5, <1>7 DEF ReadsAreRight
  <2> QED
    BY Zenon, <2>1, <2>2
<1>9. WrittenIsFirst'
  <2> SUFFICES ASSUME NEW q \in Reads, reading'[q] \in {"header", "bytes"} PROVE Turn(q)'
    BY Zenon DEF WrittenIsFirst
  <2>1. q \notin lost /\ reading[q] \in {"header", "bytes"}
    BY Zenon, <1>5
  <2>2. SourceOf[q] # s /\ Turn(q)
    BY Zenon, <1>4, <2>1 DEF OneAtATime, WrittenIsFirst
  <2> QED
    BY Zenon, <1>5, <2>2 DEF Turn
<1>10. ASSUME NEW t \in Sources PROVE ChainInOrder(t)' /\ PipeInTurn(t)'
  <2>1. CASE t = s
    BY <1>5, <2>1 DEF ChainInOrder, PipeInTurn
  <2>2. CASE t # s
    <3>1. ASSUME NEW q \in Reads, SourceOf[q] = t PROVE reading'[q] = reading[q]
      BY Zenon, <1>3, <1>5, <2>2, <3>1
    <3>2. chain'[t] = chain[t] /\ pipe'[t] = pipe[t]
      BY Zenon, <1>5, <2>2
    <3> QED
      BY Zenon, <1>7, <3>1, <3>2, SourceStays
  <2> QED
    BY Zenon, <2>1, <2>2
<1> QED
  BY Zenon, <1>7, <1>8, <1>9, <1>10 DEF OneAtATime, PipeIsItsAnswer

\* close leaves only the read that was written.
LEMMA CloseSourceKeeps ==
  ASSUME SourceIInv, NEW s \in Sources, CloseSource(s)
  PROVE  SourceIInv'
<1> DEFINE lost == {r \in Reads : SourceOf[r] = s /\ reading[r] = "chained"}
<1> USE SourceAssumption DEF SourceIInv
<1>1. /\ opening[s] = "open" /\ reading' = [r \in Reads |-> IF r \in lost THEN "rejected" ELSE reading[r]]
      /\ chain' = [chain EXCEPT ![s] = IF @ # <<>> /\ Head(@) \notin lost THEN <<Head(@)>> ELSE <<>>]
      /\ UNCHANGED <<repoVars, pipe, result>> /\ opening' = opening
  BY Zenon DEF CloseSource, repoVars
<1>2. /\ \A q \in Reads : IF SourceOf[q] = s /\ reading[q] = "chained" THEN reading'[q] = "rejected" ELSE reading'[q] = reading[q]
      /\ \A t \in Sources : t # s => chain'[t] = chain[t]
  BY Zenon, <1>1 DEF SourceTypeOK
<1>3. \/ chain'[s] = <<>> /\ (chain[s] = <<>> \/ reading[Head(chain[s])] = "chained")
      \/ /\ chain[s] # <<>> /\ chain'[s] = <<Head(chain[s])>> /\ Head(chain[s]) \in Reads /\ SourceOf[Head(chain[s])] = s
         /\ reading[Head(chain[s])] \in {"header", "bytes"}
  <2>1. CASE chain[s] = <<>>
    BY Zenon, <1>1, <2>1 DEF SourceTypeOK
  <2>2. CASE chain[s] # <<>>
    <3>1. Head(chain[s]) \in Reads /\ SourceOf[Head(chain[s])] = s /\ 1 \in DOMAIN chain[s] /\ Head(chain[s]) = chain[s][1]
      BY Zenon, <2>2, First
    <3>2. reading[Head(chain[s])] \in {"chained", "header", "bytes"}
      BY <3>1, InChain
    <3> QED
      BY Zenon, <1>1, <2>2, <3>1, <3>2 DEF SourceTypeOK
  <2> QED
    BY Zenon, <2>1, <2>2
<1>4. chain' \in [Sources -> Seq(Reads)] /\ pipe' = [t \in Sources |-> pipe'[t]] /\ result' = [q \in Reads |-> result'[q]]
      /\ reading' \in [Reads -> {"new", "chained", "header", "bytes", "done", "rejected", "hung"}]
  <2>1. chain' \in [Sources -> Seq(Reads)]
    <3>1. chain'[s] \in Seq(Reads)
      <4>1. \A q \in Reads : <<q>> \in Seq(Reads)
        OBVIOUS
      <4>2. <<>> \in Seq(Reads)
        OBVIOUS
      <4> QED
        BY Zenon, <1>3, <4>1, <4>2
    <3>2. chain' = [t \in Sources |-> chain'[t]]
      BY Zenon, <1>1 DEF SourceTypeOK
    <3>3. \A t \in Sources : chain'[t] \in Seq(Reads)
      BY Zenon, <1>2, <3>1 DEF SourceTypeOK
    <3> QED
      BY Zenon, <3>2, <3>3
  <2>2. pipe' = [t \in Sources |-> pipe'[t]] /\ result' = [q \in Reads |-> result'[q]]
    BY Zenon, <1>1 DEF SourceTypeOK
  <2>3. reading' \in [Reads -> {"new", "chained", "header", "bytes", "done", "rejected", "hung"}]
    BY Zenon, <1>1 DEF SourceTypeOK
  <2> QED
    BY Zenon, <2>1, <2>2, <2>3
<1>5. /\ SourceTypeOK' /\ OpensItsRef'
      /\ \A q : HeaderOf(q)' = HeaderOf(q) /\ BytesOf(q)' = BytesOf(q) /\ Object(SourceOf[q], PathOf[q])' = Object(SourceOf[q], PathOf[q])
  BY Zenon, <1>1, <1>4, ReadsLeaveRepo
<1> HIDE DEF lost
<1>6. ReadsAreOpened' /\ ReadsAreRight'
  <2>1. ReadsAreOpened'
    BY Zenon, <1>1, <1>2 DEF OneAtATime, ReadsAreOpened
  <2>2. ReadsAreRight'
    BY Zenon, <1>1, <1>2, <1>5 DEF ReadsAreRight
  <2> QED
    BY Zenon, <2>1, <2>2
<1>7. WrittenIsFirst'
  <2> SUFFICES ASSUME NEW q \in Reads, reading'[q] \in {"header", "bytes"} PROVE Turn(q)'
    BY Zenon DEF WrittenIsFirst
  <2>1. reading[q] \in {"header", "bytes"} /\ Turn(q)
    BY Zenon, <1>2 DEF OneAtATime, WrittenIsFirst
  <2>2. CASE SourceOf[q] = s
    <3>1. chain'[s] = <<q>>
      BY Zenon, <1>3, <2>1, <2>2 DEF Turn
    <3> QED
      BY <2>2, <3>1 DEF Turn
  <2>3. CASE SourceOf[q] # s
    BY Zenon, <1>2, <2>1, <2>3 DEF Turn
  <2> QED
    BY Zenon, <2>2, <2>3
<1>8. ASSUME NEW t \in Sources, t # s PROVE ChainInOrder(t)' /\ PipeInTurn(t)'
  <2>1. chain'[t] = chain[t] /\ pipe'[t] = pipe[t]
    BY Zenon, <1>1, <1>2, <1>8
  <2>2. ASSUME NEW q \in Reads, SourceOf[q] = t PROVE reading'[q] = reading[q]
    BY Zenon, <1>2, <1>8, <2>2
  <2> QED
    BY Zenon, <1>5, <2>1, <2>2, SourceStays
<1>9. ChainInOrder(s)' /\ PipeInTurn(s)'
  <2>0. PipeInTurn(s) /\ pipe'[s] = pipe[s]
    BY Zenon, <1>1 DEF PipeIsItsAnswer
  <2>1. CASE chain'[s] = <<>> /\ (chain[s] = <<>> \/ reading[Head(chain[s])] = "chained")
    BY <2>0, <2>1 DEF ChainInOrder, PipeInTurn, AnswerIn
  <2>2. CASE /\ chain[s] # <<>> /\ chain'[s] = <<Head(chain[s])>> /\ Head(chain[s]) \in Reads /\ SourceOf[Head(chain[s])] = s
             /\ reading[Head(chain[s])] \in {"header", "bytes"}
    <3>1. PICK q \in Reads : q = Head(chain[s]) /\ SourceOf[q] = s /\ reading[q] \in {"header", "bytes"} /\ chain'[s] = <<q>>
      BY Zenon, <2>2
    <3>2. /\ reading'[q] = reading[q] /\ Head(chain'[s]) = q /\ chain'[s] # <<>>
          /\ \A i \in DOMAIN chain'[s] : i = 1 /\ chain'[s][i] = q
      BY <1>2, <3>1
    <3>3. AnswerIn(s, q)
      BY Zenon, <2>0, <2>2, <3>1 DEF PipeInTurn
    <3>4. AnswerIn(s, q)'
      BY Zenon, <1>5, <2>0, <3>2, <3>3 DEF AnswerIn, MissingLine
    <3>5. PipeInTurn(s)'
      BY Zenon, <3>2, <3>4 DEF PipeInTurn
    <3>6. ChainInOrder(s)'
      BY Zenon, <3>1, <3>2 DEF ChainInOrder
    <3> QED
      BY Zenon, <3>5, <3>6
  <2> QED
    BY Zenon, <1>3, <2>1, <2>2
<1> QED
  BY Zenon, <1>5, <1>6, <1>7, <1>8, <1>9 DEF OneAtATime, PipeIsItsAnswer

\* Every step keeps the invariant of the source.
LEMMA ReadKeeps ==
  ASSUME SourceIInv, NEW r \in Reads, WriteName(r) \/ ReadHeader(r) \/ ReadBytes(r)
  PROVE  SourceIInv'
<1> DEFINE s == SourceOf[r]
<1> USE SourceAssumption DEF SourceIInv
<1>1. s \in Sources
  BY Zenon
<1>2. /\ reading[r] \in {"header", "bytes"} => Turn(r)
      /\ Turn(r) => AnswerIn(s, r)
  BY Zenon, <1>1 DEF OneAtATime, WrittenIsFirst, Turn, PipeIsItsAnswer, PipeInTurn
<1>3. CASE WriteName(r)
  <2>1. pipe[s] = <<>>
    BY Zenon, <1>2, <1>3 DEF WriteName, AnswerIn
  <2>2. pipe[s] \o <<HeaderOf(r), BytesOf(r)>> = <<HeaderOf(r), BytesOf(r)>> /\ Append(pipe[s], MissingLine) = <<MissingLine>>
    BY <2>1
  <2>3. PICK rest \in {<<HeaderOf(r), BytesOf(r)>>, <<MissingLine>>} : pipe' = [pipe EXCEPT ![s] = rest]
    BY Zenon, <1>3, <2>2 DEF WriteName
  <2>4. Turn(r) /\ reading[r] = "chained" /\ reading' = [reading EXCEPT ![r] = "header"] /\ UNCHANGED <<repoVars, chain, result>>
    BY Zenon, <1>3 DEF WriteName
  <2> QED
    BY Zenon, <2>3, <2>4, AheadKeeps
<1>4. CASE ReadHeader(r)
  <2>1. reading[r] = "header" /\ pipe' = [pipe EXCEPT ![s] = Tail(pipe[s])] /\ UNCHANGED <<repoVars, result>>
    BY Zenon, <1>4 DEF ReadHeader
  <2>2. pipe[s] \in {<<HeaderOf(r), BytesOf(r)>>, <<MissingLine>>}
    BY Zenon, <1>2, <2>1 DEF AnswerIn
  <2>3. CASE pipe[s] = <<HeaderOf(r), BytesOf(r)>>
    <3>1. Tail(pipe[s]) = <<BytesOf(r)>> /\ Head(pipe[s]) = HeaderOf(r) /\ HeaderOf(r).is = "header"
      BY <2>3 DEF HeaderOf
    <3>2. reading' = [reading EXCEPT ![r] = "bytes"] /\ chain' = chain
      BY Zenon, <1>4, <3>1 DEF ReadHeader
    <3> QED
      BY Zenon, <1>2, <2>1, <3>1, <3>2, AheadKeeps
  <2>4. CASE pipe[s] = <<MissingLine>>
    <3>1. Tail(pipe[s]) = <<>> /\ Head(pipe[s]) = MissingLine /\ MissingLine.is = "missing"
      BY <2>4 DEF MissingLine
    <3>2. Settle(r, "rejected")
      BY Zenon, <1>4, <3>1 DEF ReadHeader
    <3>3. result' = [q \in Reads |-> result'[q]] /\ \A q \in Reads : result'[q] = result[q]
      BY Zenon, <2>1 DEF SourceTypeOK
    <3> QED
      BY Zenon, <1>2, <2>1, <3>1, <3>2, <3>3, SettleKeeps
  <2> QED
    BY Zenon, <2>2, <2>3, <2>4
<1>5. CASE ReadBytes(r)
  <2>1. reading[r] = "bytes" /\ pipe' = [pipe EXCEPT ![s] = Tail(pipe[s])] /\ UNCHANGED repoVars
    BY Zenon, <1>5 DEF ReadBytes
  <2>2. pipe[s] = <<BytesOf(r)>>
    BY ZenonT(30), <1>2, <2>1 DEF AnswerIn
  <2>3. Tail(pipe[s]) = <<>> /\ Head(pipe[s]) = BytesOf(r) /\ BytesOf(r).is = "bytes" /\ BytesOf(r).of = Object(SourceOf[r], PathOf[r])
    BY <2>2 DEF BytesOf
  <2>4. Settle(r, "done") /\ result' = [result EXCEPT ![r] = Object(SourceOf[r], PathOf[r])]
    BY Zenon, <1>5, <2>3 DEF ReadBytes
  <2>5. /\ result' = [q \in Reads |-> result'[q]] /\ result'[r] = Object(SourceOf[r], PathOf[r])
        /\ \A q \in Reads \ {r} : result'[q] = result[q]
    BY Zenon, <2>4 DEF SourceTypeOK
  <2> QED
    BY Zenon, <1>2, <2>1, <2>3, <2>4, <2>5, SettleKeeps
<1> QED
  BY Zenon, <1>3, <1>4, <1>5

\* ReadsItsRef, for every number of sources, clones, remotes and reads and every
\* number of faults: a source that opened its gitDir alone reads a commit its ref
\* had since the open began, and every read that answers answers with the object
\* it asked for, though the answers of one child come through one pipe.
THEOREM ReadsAlwaysItsRef == SourceSpec => []ReadsItsRef
<1>1. SourceInit => SourceIInv
  BY Zenon, SourceStarts
<1>2. SourceIInv /\ [SourceNext]_sourceVars => SourceIInv'
  <2> SUFFICES ASSUME SourceIInv, [SourceNext]_sourceVars PROVE SourceIInv'
    BY Zenon
  <2>1. ASSUME NEW r \in Remotes, PushUpstream(r) PROVE SourceIInv'
    BY Zenon, <2>1, RepoKeeps
  <2>2. ASSUME NEW s \in Sources, Open(s) \/ SetRemote(s) \/ Fetch(s) \/ RevParse(s) \/ OpenFails(s) PROVE SourceIInv'
    BY Zenon, <2>2, RepoKeeps
  <2>3. ASSUME NEW s \in Sources, CloseSource(s) PROVE SourceIInv'
    BY Zenon, <2>3, CloseSourceKeeps
  <2>4. ASSUME NEW s \in Sources, SourceClosed(s) PROVE SourceIInv'
    BY Zenon, <2>4, AbandonKeeps DEF SourceClosed
  <2>5. ASSUME NEW s \in Sources, BatchDies(s) PROVE SourceIInv'
    BY Zenon, <2>5, AbandonKeeps DEF BatchDies
  <2>6. ASSUME NEW r \in Reads, ReadEntry(r) PROVE SourceIInv'
    BY Zenon, <2>6, EntryKeeps
  <2>7. ASSUME NEW r \in Reads, WriteName(r) \/ ReadHeader(r) \/ ReadBytes(r) PROVE SourceIInv'
    BY Zenon, <2>7, ReadKeeps
  <2>8. CASE UNCHANGED sourceVars
    <3>1. UNCHANGED <<repoVars, readVars>>
      BY Zenon, <2>8 DEF sourceVars, repoVars, readVars
    <3>2. SourceTypeOK' /\ OpensItsRef'
      BY Zenon, <3>1 DEF SourceIInv, SourceTypeOK, OpensItsRef, Opening, repoVars, readVars
    <3>3. OneAtATime' /\ PipeIsItsAnswer' /\ ReadsAreRight'
      BY Zenon, <3>1, RepoKeepsReads DEF repoVars, readVars
    <3> QED
      BY Zenon, <3>2, <3>3 DEF SourceIInv
  <2> QED
    BY Zenon, <2>1, <2>2, <2>3, <2>4, <2>5, <2>6, <2>7, <2>8 DEF SourceNext
<1>3. SourceIInv => ReadsItsRef
  BY Zenon DEF SourceIInv, OpensItsRef, ReadsAreRight, ReadsItsRef
<1> QED
  BY <1>1, <1>2, <1>3, PTL DEF SourceSpec
==============================================================================
