------------------------------ MODULE TurnProofs ------------------------------
(***************************************************************************)
(* Proofs about the turns of an agent.  OncePerActivity holds for the      *)
(* synthetic rung, for any number of workers, calls, turns and attempts,   *)
(* if heartbeats are recorded at once and only dead attempts are timed     *)
(* out.  AttemptsAreAccounted and VerdictFollowsReply hold for any number  *)
(* of processes, turns and attempts, whatever the gateway replies.         *)
(***************************************************************************)
EXTENDS TurnReceipts, ActivityWorker, SequenceTheorems, TLAPS

-----------------------------------------------------------------------------
(* The receipts of a turn.                                                    *)

\* The conditions under which the receipts do what they are for.
Reliable == Rung = "synthetic" /\ PromptHeartbeats = TRUE /\ Overtaken = FALSE

\* A model reply is a sequence of at most MaxCalls calls.
LEMMA ReplyFacts ==
  ASSUME NEW r \in CallLists
  PROVE  /\ r \in Seq(Calls) /\ Len(r) \in Nat /\ Len(r) <= MaxCalls
         /\ \A i \in 1 .. Len(r) : r[i] \in Calls
  <1>1. PICK n \in 0 .. MaxCalls : r \in [1 .. n -> Calls]
    BY Zenon DEF CallLists
  <1>2. n \in Nat
    BY TurnAssumption
  <1>3. r \in Seq(Calls)
    BY Zenon, <1>1, <1>2, SeqDef
  <1>4. Len(r) = n
    BY <1>1, <1>2, <1>3, LenProperties
  <1> QED
    BY <1>1, <1>2, <1>3, <1>4, TurnAssumption

\* The empty reply of an attempt that has not asked the model.
LEMMA EmptyReply == <<>> \in CallLists /\ Len(<<>>) = 0
  <1>1. <<>> \in [1 .. 0 -> Calls]
    OBVIOUS
  <1>2. 0 \in 0 .. MaxCalls
    BY TurnAssumption
  <1> QED
    BY Zenon, <1>1, <1>2 DEF CallLists

\* The initial state has no attempt and no receipt.
LEMMA InitIInv == Init => IInv
  <1> SUFFICES ASSUME Init PROVE IInv
    BY Zenon
  <1>1. NoReceipts \in [Ids -> Receipts]
    BY Zenon DEF NoReceipts, Missing, Receipts
  <1>2. Idle \in Runs
    BY EmptyReply, TurnAssumption DEF Idle, Runs
  <1>3. TypeOK
    BY <1>1, <1>2, TurnAssumption DEF TypeOK, Init, Idle
  <1>4. \A w \in Workers : run[w].pc = "idle"
    BY Zenon DEF Init, Idle
  <1> QED
    BY Zenon, <1>3, <1>4 DEF IInv, OneAttempt, StoreRecorded, ClaimIsFresh, ExecutedHasReceipt, OncePerActivity, Init

-----------------------------------------------------------------------------

\* Worker w's attempt goes on as r; its activity and attempt stay the same.
Moves(w, r) ==
  /\ run[w].pc # "idle" /\ r \in Runs /\ r.pc # "idle"
  /\ r.turn = run[w].turn /\ r.activity = run[w].activity /\ r.attempt = run[w].attempt
  /\ r.index \in 1 .. Len(r.reply) + 1 /\ r.pc # "model"
  /\ run' = [run EXCEPT ![w] = r]
  /\ UNCHANGED <<turn, activity, attempt, schedule, cached>>

\* A move keeps the attempt the only one, and its typing.
LEMMA MoveFacts ==
  ASSUME IInv, NEW w \in Workers, NEW r, Moves(w, r)
  PROVE  /\ OneAttempt'
         /\ \A v \in Workers : run'[v] = IF v = w THEN r ELSE run[v]
         /\ \A v \in Workers : v # w => run[v].pc = "idle"
         /\ store[w] = details /\ run[w].activity = activity /\ IsCurrent(w)
         /\ run' \in [Workers -> Runs]
         /\ \A v \in Workers : run'[v].pc # "idle" =>
               /\ run'[v].turn # 0 /\ run'[v].activity # 0 /\ run'[v].attempt # 0
               /\ run'[v].index \in 1 .. Len(run'[v].reply) + 1
               /\ run'[v].pc # "model"
  <1>1. \A v \in Workers : run'[v] = IF v = w THEN r ELSE run[v]
    BY Zenon DEF Moves, IInv, TypeOK
  <1>2. \A v \in Workers : v # w => run[v].pc = "idle"
    BY Zenon DEF Moves, IInv, OneAttempt
  <1>3. store[w] = details /\ run[w].activity = activity /\ IsCurrent(w)
    BY Zenon DEF Moves, IInv, OneAttempt, StoreRecorded, IsCurrent
  <1>4. OneAttempt'
    BY <1>1, <1>2, <1>3 DEF Moves, OneAttempt, IsCurrent
  <1>5. run' \in [Workers -> Runs]
    BY Zenon DEF Moves, IInv, TypeOK
  <1>6. run[w].turn # 0 /\ run[w].activity # 0 /\ run[w].attempt # 0
    BY Zenon DEF Moves, IInv, TypeOK
  <1>7. \A v \in Workers : run'[v].pc # "idle" =>
               /\ run'[v].turn # 0 /\ run'[v].activity # 0 /\ run'[v].attempt # 0
               /\ run'[v].index \in 1 .. Len(run'[v].reply) + 1
               /\ run'[v].pc # "model"
    BY Zenon, <1>1, <1>2, <1>6 DEF Moves
  <1> QED
    BY Zenon, <1>1, <1>2, <1>3, <1>4, <1>5, <1>7

\* The record of an attempt at the call it is working on.
LEMMA CallIsTyped ==
  ASSUME TypeOK, NEW w \in Workers, run[w].pc # "idle", run[w].index <= Len(run[w].reply)
  PROVE  /\ run[w] \in Runs /\ Len(run[w].reply) \in Nat
         /\ run[w].index \in 1 .. MaxCalls /\ run[w].index + 1 \in 1 .. Len(run[w].reply) + 1
         /\ Call(w) \in Calls
         /\ Call(w).tool \in Tools => EffectId(w) \in Ids
  <1>1. run[w] \in Runs /\ run[w].index \in 1 .. Len(run[w].reply) + 1
    BY Zenon DEF TypeOK
  <1>2. run[w].reply \in CallLists
    BY Zenon, <1>1 DEF Runs
  <1>3. Len(run[w].reply) \in Nat /\ Len(run[w].reply) <= MaxCalls /\ \A i \in 1 .. Len(run[w].reply) : run[w].reply[i] \in Calls
    BY Zenon, <1>2, ReplyFacts
  <1>4. run[w].index \in 1 .. MaxCalls /\ run[w].index + 1 \in 1 .. Len(run[w].reply) + 1
    BY <1>1, <1>3, TurnAssumption
  <1>5. Call(w) \in Calls
    BY <1>1, <1>3 DEF Call
  <1> QED
    BY Zenon, <1>1, <1>3, <1>4, <1>5 DEF EffectId, Ids

LEMMA CallFacts ==
  ASSUME IInv, NEW w \in Workers, run[w].pc # "idle", run[w].index <= Len(run[w].reply)
  PROVE  /\ run[w] \in Runs /\ Len(run[w].reply) \in Nat
         /\ run[w].index \in 1 .. MaxCalls /\ run[w].index + 1 \in 1 .. Len(run[w].reply) + 1
         /\ Call(w) \in Calls
         /\ Call(w).tool \in Tools => EffectId(w) \in Ids
  BY Zenon, CallIsTyped DEF IInv

\* Going on to the next call, and staying at this one.
LEMMA CallMoves ==
  ASSUME IInv, NEW w \in Workers, run[w].pc # "idle", run[w].index <= Len(run[w].reply),
         UNCHANGED <<server, cached>>
  PROVE  /\ NextCall(w) => \E r : Moves(w, r) /\ r.pc = "calls"
         /\ \A l \in {"claimed", "performed"} : run' = [run EXCEPT ![w].pc = l] =>
               \E r : Moves(w, r) /\ r.pc = l /\ r.index = run[w].index /\ r.reply = run[w].reply
  <1>1. run[w] \in Runs /\ run[w].index + 1 \in 1 .. Len(run[w].reply) + 1
        /\ run[w].index \in 1 .. MaxCalls /\ Len(run[w].reply) \in Nat
    BY Zenon, CallFacts
  <1>2. ASSUME NextCall(w)
        PROVE  \E r : Moves(w, r) /\ r.pc = "calls"
    <2> DEFINE r == [run[w] EXCEPT !.pc = "calls", !.index = @ + 1]
    <2>1. run' = [run EXCEPT ![w] = r]
      BY Zenon, <1>2 DEF NextCall, IInv, TypeOK
    <2>2. r.pc = "calls" /\ r.turn = run[w].turn /\ r.activity = run[w].activity /\ r.attempt = run[w].attempt
          /\ r.index = run[w].index + 1 /\ r.reply = run[w].reply
      BY Zenon, <1>1 DEF Runs
    <2>3. run[w].index + 1 \in 0 .. MaxCalls + 1
      BY <1>1, TurnAssumption
    <2>4. r \in Runs
      BY Zenon, <1>1, <2>3 DEF Runs
    <2> HIDE DEF r
    <2>5. Moves(w, r)
      BY Zenon, <1>1, <2>1, <2>2, <2>4 DEF Moves, server
    <2> QED
      BY Zenon, <2>2, <2>5
  <1>3. ASSUME NEW l \in {"claimed", "performed"}, run' = [run EXCEPT ![w].pc = l]
        PROVE  \E r : Moves(w, r) /\ r.pc = l /\ r.index = run[w].index /\ r.reply = run[w].reply
    <2> DEFINE r == [run[w] EXCEPT !.pc = l]
    <2>1. run' = [run EXCEPT ![w] = r]
      BY Zenon, <1>3 DEF IInv, TypeOK
    <2>2. r.pc = l /\ r.turn = run[w].turn /\ r.activity = run[w].activity /\ r.attempt = run[w].attempt
          /\ r.index = run[w].index /\ r.reply = run[w].reply
      BY Zenon, <1>1 DEF Runs
    <2>3. r \in Runs
      BY Zenon, <1>1 DEF Runs
    <2>4. r.index \in 1 .. Len(r.reply) + 1
      BY <1>1, <2>2
    <2> HIDE DEF r
    <2>5. Moves(w, r)
      BY Zenon, <2>1, <2>2, <2>3, <2>4 DEF Moves, server
    <2> QED
      BY Zenon, <2>2, <2>5
  <1> QED
    BY Zenon, <1>2, <1>3

\* The attempt gets to its next call, or to its first.
LEMMA MoveToCallsPreservesIInv ==
  ASSUME IInv, NEW w \in Workers, NEW r, Moves(w, r), r.pc = "calls",
         UNCHANGED <<details, store, executed>>
  PROVE  IInv'
  <1>1. TypeOK'
    BY Zenon, MoveFacts DEF IInv, TypeOK, Moves
  <1>2. StoreRecorded'
    BY Zenon, MoveFacts DEF IInv, StoreRecorded
  <1>3. ClaimIsFresh'
    BY MoveFacts DEF IInv, ClaimIsFresh
  <1>4. ExecutedHasReceipt' /\ OncePerActivity'
    BY Zenon DEF IInv, ExecutedHasReceipt, OncePerActivity, IdOf, Moves
  <1> QED
    BY Zenon, <1>1, <1>2, <1>3, <1>4, MoveFacts DEF IInv

\* The model's answer, a refused call and a replayed receipt.
LEMMA LoopPreservesIInv ==
  ASSUME IInv, NEW w \in Workers, ModelReply(w) \/ RefuseCall(w) \/ ReplayReceipt(w)
  PROVE  IInv'
  <1>1. run[w] \in Runs /\ run[w].pc # "idle"
    BY Zenon DEF IInv, TypeOK, ModelReply, RefuseCall, ReplayReceipt, HasCall
  <1>2. run[w].index \in 1 .. Len(run[w].reply) + 1
    BY Zenon, <1>1 DEF IInv, TypeOK
  <1>3. CASE ModelReply(w)
    <2>1. PICK reply \in CallLists :
             run' = [run EXCEPT ![w].pc = "calls", ![w].reply = reply]
      BY Zenon, <1>3 DEF ModelReply
    <2> DEFINE r == [run[w] EXCEPT !.pc = "calls", !.reply = reply]
    <2>2. run' = [run EXCEPT ![w] = r]
      BY Zenon, <2>1 DEF IInv, TypeOK
    <2>3. r \in Runs /\ r.index \in 1 .. Len(r.reply) + 1
      <3>1. run[w].index = 1
        BY Zenon, <1>1, <1>3 DEF ModelReply, IInv, TypeOK
      <3>2. Len(reply) \in Nat
        BY Zenon, ReplyFacts
      <3>3. r.index = 1 /\ r.reply = reply
        BY Zenon, <1>1, <3>1 DEF Runs
      <3>4. r \in Runs
        BY Zenon, <1>1 DEF Runs
      <3> QED
        BY <3>2, <3>3, <3>4
    <2>4. Moves(w, r)
      BY Zenon, <1>1, <1>3, <2>2, <2>3 DEF Moves, server, Runs, ModelReply
    <2> QED
      BY Zenon, <1>1, <1>3, <2>4, MoveToCallsPreservesIInv DEF Runs, ModelReply
  <1>4. CASE RefuseCall(w) \/ ReplayReceipt(w)
    <2>1. run[w].index <= Len(run[w].reply) /\ NextCall(w) /\ UNCHANGED <<server, cached>>
      BY Zenon, <1>4 DEF RefuseCall, ReplayReceipt, HasCall
    <2>2. PICK r : Moves(w, r) /\ r.pc = "calls"
      BY Zenon, <1>1, <2>1, CallMoves
    <2> QED
      BY Zenon, <1>4, <2>2, MoveToCallsPreservesIInv DEF RefuseCall, ReplayReceipt
  <1> QED
    BY Zenon, <1>3, <1>4

-----------------------------------------------------------------------------

\* A receipt that is put is recorded at once.
LEMMA PutFacts ==
  ASSUME Reliable, IInv, NEW w \in Workers, NEW r, Moves(w, r), NEW receipt \in Receipts,
         receipt.status # "missing", EffectId(w) \in Ids, PutReceipt(w, receipt), executed' = executed
  PROVE  /\ TypeOK' /\ OneAttempt' /\ StoreRecorded' /\ ExecutedHasReceipt' /\ OncePerActivity'
         /\ details' = [details EXCEPT ![EffectId(w)] = receipt]
  <1>1. details' = store'[w]
    BY Zenon, MoveFacts DEF PutReceipt, Heartbeat, Reliable
  <1>2. store' = [store EXCEPT ![w] = [details EXCEPT ![EffectId(w)] = receipt]]
    BY Zenon, MoveFacts DEF PutReceipt, IInv, TypeOK
  <1>3. store'[w] = [details EXCEPT ![EffectId(w)] = receipt]
    BY Zenon, <1>2 DEF IInv, TypeOK
  <1>4. [details EXCEPT ![EffectId(w)] = receipt] \in [Ids -> Receipts]
    BY Zenon DEF IInv, TypeOK
  <1>5. TypeOK'
    <2>1. store' \in [Workers -> [Ids -> Receipts]] /\ details' \in [Ids -> Receipts]
      BY Zenon, <1>1, <1>2, <1>3, <1>4 DEF IInv, TypeOK
    <2> QED
      BY Zenon, <2>1, MoveFacts DEF IInv, TypeOK, Moves
  <1>6. StoreRecorded'
    BY <1>1, MoveFacts DEF StoreRecorded
  <1>7. ExecutedHasReceipt'
    <2>1. \A id \in Ids : details[id].status # "missing" => details'[id].status # "missing"
      BY Zenon, <1>1, <1>3 DEF IInv, TypeOK
    <2>2. \A x \in executed : IdOf(x) \in Ids
      BY Zenon DEF IInv, TypeOK, ExecutedHasReceipt, Executions, IdOf, Ids
    <2>3. activity' = activity
      BY Zenon DEF Moves
    <2> QED
      BY Zenon, <2>1, <2>2, <2>3 DEF IInv, ExecutedHasReceipt, IdOf
  <1>8. OncePerActivity'
    BY Zenon DEF IInv, OncePerActivity
  <1> QED
    BY Zenon, ZenonT(30), <1>1, <1>3, <1>5, <1>6, <1>7, <1>8, MoveFacts

\* The claim: no execution of this activity has the id, for it has no receipt.
LEMMA ClaimPreservesIInv ==
  ASSUME Reliable, IInv, NEW w \in Workers, ClaimEffect(w)
  PROVE  IInv'
  <1> DEFINE started == [status |-> "started", by |-> NoExecution]
  <1>1. run[w].pc = "calls" /\ run[w].index <= Len(run[w].reply) /\ Call(w).tool \in Tools
    BY Zenon DEF ClaimEffect, HasCall
  <1>2. EffectId(w) \in Ids
    BY Zenon, <1>1, CallFacts
  <1>3. PICK r : Moves(w, r) /\ r.pc = "claimed" /\ r.index = run[w].index /\ r.reply = run[w].reply
    BY Zenon, <1>1, CallMoves DEF ClaimEffect
  <1>4. started \in Receipts /\ started.status # "missing"
    BY Zenon DEF Receipts
  <1>5. TypeOK' /\ OneAttempt' /\ StoreRecorded' /\ ExecutedHasReceipt' /\ OncePerActivity'
        /\ details' = [details EXCEPT ![EffectId(w)] = started]
    BY Zenon, <1>2, <1>3, <1>4, PutFacts DEF ClaimEffect
  <1>6. ClaimIsFresh'
    <2>1. run'[w] = r /\ \A v \in Workers : v # w => run'[v].pc = "idle"
      BY <1>3, MoveFacts
    <2>2. Call(w)' = Call(w) /\ EffectId(w)' = EffectId(w)
      BY Zenon, <1>3, <2>1 DEF Call, EffectId
    <2>3. details'[EffectId(w)].status = "started"
      BY Zenon, <1>2, <1>5 DEF IInv, TypeOK
    <2>4. details[EffectId(w)].status = "missing"
      BY Zenon, <1>1, <1>3, MoveFacts DEF ClaimEffect
    <2>5. \A x \in executed : x.activity = activity => IdOf(x) # EffectId(w)
      BY Zenon, <2>4 DEF IInv, ExecutedHasReceipt
    <2>6. activity' = activity /\ executed' = executed /\ \A x \in executed : IdOf(x)' = IdOf(x)
      BY Zenon, <1>3 DEF Moves, ClaimEffect, IdOf
    <2>7. \A x \in executed' : x.activity = activity' => IdOf(x)' # EffectId(w)'
      BY Zenon, <2>2, <2>5, <2>6
    <2>8. run'[w].index <= Len(run'[w].reply) /\ Call(w)'.tool \in Tools /\ details'[EffectId(w)'].status = "started"
      BY Zenon, ZenonT(30), <1>1, <1>3, <2>1, <2>2, <2>3
    <2> QED
      BY Zenon, <2>1, <2>7, <2>8 DEF ClaimIsFresh
  <1> QED
    BY Zenon, <1>5, <1>6 DEF IInv

\* The outcome: committed or failed, and on to the next call.
LEMMA OutcomePreservesIInv ==
  ASSUME Reliable, IInv, NEW w \in Workers, CommitEffect(w) \/ EffectFails(w)
  PROVE  IInv'
  <1>1. run[w].pc \in {"claimed", "performed"}
    BY Zenon DEF CommitEffect, EffectFails
  <1>2. run[w].index <= Len(run[w].reply) /\ Call(w).tool \in Tools
    BY Zenon, <1>1 DEF IInv, ClaimIsFresh
  <1>3. EffectId(w) \in Ids /\ Call(w) \in Calls /\ run[w].index \in 1 .. MaxCalls /\ run[w] \in Runs
    BY Zenon, <1>1, <1>2, CallFacts
  <1>4. PICK r : Moves(w, r) /\ r.pc = "calls"
    BY Zenon, <1>1, <1>2, CallMoves DEF CommitEffect, EffectFails
  <1>5. Execution(w) \in Executions
    <2>1. run[w].turn # 0 /\ run[w].activity # 0 /\ run[w].attempt # 0
      BY Zenon, <1>1 DEF IInv, TypeOK
    <2>2. run[w].turn \in 1 .. MaxTurns /\ run[w].activity \in 1 .. MaxActivities /\ run[w].attempt \in 1 .. MaxAttempts
      BY <1>3, <2>1, TurnAssumption DEF Runs
    <2> QED
      BY Zenon, <1>3, <2>2 DEF Execution, Executions
  <1>6. PICK receipt \in Receipts : receipt.status # "missing" /\ PutReceipt(w, receipt)
    <2>1. CASE CommitEffect(w)
      <3> DEFINE receipt == [status |-> "committed", by |-> Execution(w)]
      <3>1. receipt \in Receipts /\ receipt.status # "missing"
        BY Zenon, <1>5 DEF Receipts
      <3> QED
        BY Zenon, <2>1, <3>1 DEF CommitEffect
    <2>2. CASE EffectFails(w)
      <3> DEFINE receipt == [status |-> "failed", by |-> NoExecution]
      <3>1. receipt \in Receipts /\ receipt.status # "missing"
        BY Zenon DEF Receipts
      <3> QED
        BY Zenon, <2>2, <3>1 DEF EffectFails
    <2> QED
      BY Zenon, <2>1, <2>2
  <1>7. executed' = executed
    BY Zenon DEF CommitEffect, EffectFails
  <1>8. TypeOK' /\ OneAttempt' /\ StoreRecorded' /\ ExecutedHasReceipt' /\ OncePerActivity'
    BY Zenon, ZenonT(30), <1>3, <1>4, <1>6, <1>7, PutFacts
  <1>9. ClaimIsFresh'
    BY <1>4, MoveFacts DEF ClaimIsFresh
  <1> QED
    BY Zenon, <1>8, <1>9 DEF IInv

\* Carrying out a claimed effect is the first execution of its id.
LEMMA PerformPreservesIInv ==
  ASSUME IInv, NEW w \in Workers, Perform(w)
  PROVE  IInv'
  <1> DEFINE e == Execution(w)
  <1>1. run[w].pc = "claimed"
    BY Zenon DEF Perform
  <1>2. /\ run[w].index <= Len(run[w].reply) /\ Call(w).tool \in Tools
        /\ details[EffectId(w)].status = "started"
        /\ \A x \in executed : x.activity = activity => IdOf(x) # EffectId(w)
    BY Zenon, <1>1 DEF IInv, ClaimIsFresh
  <1>3. Call(w) \in Calls /\ run[w].index \in 1 .. MaxCalls /\ run[w] \in Runs
    BY Zenon, <1>1, <1>2, CallFacts
  <1>4. PICK r : Moves(w, r) /\ r.pc = "performed" /\ r.index = run[w].index /\ r.reply = run[w].reply
    BY Zenon, <1>1, <1>2, CallMoves DEF Perform
  <1>5. run[w].activity = activity /\ activity' = activity /\ UNCHANGED <<details, store>> /\ executed' = executed \cup {e}
    BY Zenon, <1>4, MoveFacts DEF Moves, Perform
  <1>6. e \in Executions
    <2>1. run[w].turn # 0 /\ run[w].activity # 0 /\ run[w].attempt # 0
      BY Zenon, <1>1 DEF IInv, TypeOK
    <2>2. run[w].turn \in 1 .. MaxTurns /\ run[w].activity \in 1 .. MaxActivities /\ run[w].attempt \in 1 .. MaxAttempts
      BY <1>3, <2>1, TurnAssumption DEF Runs
    <2> QED
      BY Zenon, <1>3, <2>2 DEF Execution, Executions
  <1>7. e.activity = activity /\ e.call.tool = Call(w).tool /\ e.index = run[w].index /\ IdOf(e) = EffectId(w)
    BY Zenon, <1>5 DEF Execution, IdOf, EffectId
  <1> HIDE DEF e
  <1>8. TypeOK'
    BY Zenon, ZenonT(30), <1>4, <1>5, <1>6, MoveFacts DEF IInv, TypeOK, Moves
  <1>9. StoreRecorded'
    BY <1>4, <1>5, MoveFacts DEF StoreRecorded
  <1>10. ClaimIsFresh'
    <2>1. run'[w] = r /\ \A v \in Workers : v # w => run'[v].pc = "idle"
      BY <1>4, MoveFacts
    <2>2. Call(w)' = Call(w) /\ EffectId(w)' = EffectId(w)
      BY Zenon, <1>4, <2>1 DEF Call, EffectId
    <2> QED
      BY Zenon, <1>2, <1>4, <1>5, <2>1, <2>2 DEF ClaimIsFresh
  <1>11. ExecutedHasReceipt'
    <2>1. \A x \in executed : /\ x.activity <= activity /\ x.call.tool \in Tools
                              /\ x.activity = activity => details[IdOf(x)].status # "missing"
      BY Zenon DEF IInv, ExecutedHasReceipt
    <2>2. activity <= activity
      BY DEF IInv, TypeOK
    <2> QED
      BY Zenon, ZenonT(30), <1>2, <1>5, <1>7, <2>1, <2>2 DEF ExecutedHasReceipt, IdOf
  <1>12. OncePerActivity'
    <2>1. \A y \in executed : ~(y.activity = activity /\ y.call.tool = e.call.tool /\ y.index = e.index)
      BY Zenon, <1>2, <1>7 DEF IdOf
    <2>2. \A x, y \in executed :
             x.activity = y.activity /\ x.call.tool = y.call.tool /\ x.index = y.index => x = y
      BY Zenon DEF IInv, OncePerActivity
    <2> QED
      BY <1>5, <1>7, <2>1, <2>2 DEF OncePerActivity
  <1> QED
    BY Zenon, ZenonT(30), <1>4, <1>8, <1>9, <1>10, <1>11, <1>12, MoveFacts DEF IInv

\* The attempt's store is the recorded details.
LEMMA StartPreservesIInv ==
  ASSUME Reliable, IInv, NEW w \in Workers, StartAttempt(w)
  PROVE  IInv'
  <1> DEFINE r == [pc |-> "model", turn |-> turn, activity |-> activity,
                   attempt |-> attempt, reply |-> <<>>, index |-> 1]
  <1>1. \A v \in Workers : run[v].pc = "idle"
    BY Zenon DEF StartAttempt, IInv, OneAttempt, IsCurrent
  <1>2. r \in Runs
    BY EmptyReply, TurnAssumption DEF Runs, IInv, TypeOK
  <1>3. run' = [run EXCEPT ![w] = r] /\ details' = details /\ store' = [store EXCEPT ![w] = details]
        /\ UNCHANGED <<turn, activity, attempt, executed>> /\ schedule' = "running"
    BY Zenon DEF StartAttempt, RungStore, Reliable
  <1>4. \A v \in Workers : run'[v] = IF v = w THEN r ELSE run[v]
    BY Zenon, <1>3 DEF IInv, TypeOK
  <1>5. TypeOK'
    <2>1. turn # 0 /\ activity # 0 /\ attempt # 0
      BY DEF IInv, TypeOK
    <2>2. run' \in [Workers -> Runs] /\ store' \in [Workers -> [Ids -> Receipts]] /\ cached' \in [Workers -> BOOLEAN]
      BY ZenonT(30), <1>2, <1>3 DEF IInv, TypeOK, StartAttempt
    <2>3. r.index \in 1 .. Len(r.reply) + 1 /\ r.turn = turn /\ r.activity = activity /\ r.attempt = attempt /\ r.index = 1
      BY EmptyReply
    <2> HIDE DEF r
    <2> QED
      BY Zenon, ZenonT(30), <1>1, <1>3, <1>4, <2>1, <2>2, <2>3 DEF IInv, TypeOK
  <1>6. OneAttempt'
    BY <1>1, <1>3, <1>4 DEF OneAttempt, IsCurrent
  <1>7. StoreRecorded'
    BY Zenon, <1>1, <1>3, <1>4 DEF StoreRecorded, IInv, TypeOK
  <1>8. ClaimIsFresh'
    BY <1>1, <1>4 DEF ClaimIsFresh
  <1>9. ExecutedHasReceipt' /\ OncePerActivity'
    BY Zenon, <1>3 DEF IInv, ExecutedHasReceipt, OncePerActivity, IdOf
  <1> QED
    BY Zenon, <1>5, <1>6, <1>7, <1>8, <1>9 DEF IInv

\* Nothing runs any more; the activity keeps its receipts or is a new one.
Quiet ==
  /\ run' \in [Workers -> Runs] /\ \A v \in Workers : run'[v].pc = "idle"
  /\ turn' \in 1 .. MaxTurns /\ attempt' \in 1 .. MaxAttempts
  /\ schedule' \in {"scheduled", "running", "ended"}
  /\ store' \in [Workers -> [Ids -> Receipts]] /\ cached' \in [Workers -> BOOLEAN]
  /\ executed' = executed
  /\ \/ activity' = activity /\ details' = details
     \/ activity < MaxActivities /\ activity' = activity + 1 /\ details' = NoReceipts

\* A step that leaves nothing running.
LEMMA QuietPreservesIInv ==
  ASSUME IInv, Quiet
  PROVE  IInv'
  <1>1. activity \in 1 .. MaxActivities /\ activity' \in 1 .. MaxActivities /\ activity <= activity'
    BY TurnAssumption DEF IInv, TypeOK, Quiet
  <1>2. NoReceipts \in [Ids -> Receipts]
    BY Zenon DEF NoReceipts, Missing, Receipts
  <1>3. TypeOK'
    BY Zenon, <1>1, <1>2 DEF IInv, TypeOK, Quiet
  <1>4. OneAttempt' /\ StoreRecorded' /\ ClaimIsFresh'
    BY Zenon DEF Quiet, OneAttempt, StoreRecorded, ClaimIsFresh
  <1>5. ExecutedHasReceipt'
    <2>1. \A x \in executed : /\ x.activity \in Nat /\ x.activity <= activity /\ x.call.tool \in Tools
                              /\ x.activity = activity => details[IdOf(x)].status # "missing"
      BY DEF IInv, ExecutedHasReceipt, TypeOK, Executions
    <2>2. CASE activity' = activity /\ details' = details
      BY Zenon, <2>1, <2>2 DEF Quiet, ExecutedHasReceipt, IdOf
    <2>3. CASE activity' = activity + 1
      <3>1. \A x \in executed : x.activity <= activity' /\ x.activity # activity'
        BY <1>1, <2>1, <2>3
      <3> QED
        BY Zenon, <2>1, <3>1 DEF Quiet, ExecutedHasReceipt
    <2> QED
      BY Zenon, <2>2, <2>3 DEF Quiet
  <1>6. OncePerActivity'
    BY Zenon DEF IInv, OncePerActivity, Quiet
  <1> QED
    BY Zenon, <1>3, <1>4, <1>5, <1>6 DEF IInv

\* The end of an attempt, with or without a result, and of a worker.
LEMMA EndPreservesIInv ==
  ASSUME Reliable, IInv,
         Timeout \/ \E w \in Workers : FailAttempt(w) \/ CompleteAttempt(w) \/ Crash(w)
  PROVE  IInv'
  <1>1. Idle \in Runs /\ Idle.pc = "idle"
    BY EmptyReply, TurnAssumption DEF Idle, Runs
  <1>2. ASSUME NEW s, s = details, RetryOrPark(s)
        PROVE  /\ turn' \in 1 .. MaxTurns /\ attempt' \in 1 .. MaxAttempts /\ schedule' = "scheduled"
               /\ \/ activity' = activity /\ details' = details
                  \/ activity < MaxActivities /\ activity' = activity + 1 /\ details' = NoReceipts
    <2>1. attempt < MaxAttempts => attempt + 1 \in 1 .. MaxAttempts
      BY TurnAssumption DEF IInv, TypeOK
    <2>2. 1 \in 1 .. MaxAttempts
      BY TurnAssumption
    <2> QED
      BY Zenon, <1>2, <2>1, <2>2 DEF RetryOrPark, IInv, TypeOK
  <1>3. CASE Timeout
    <2>1. \A v \in Workers : run[v].pc = "idle"
      BY Zenon, <1>3 DEF Timeout, Reliable, IInv, OneAttempt
    <2>2. UNCHANGED <<run, store, cached, executed>>
      BY Zenon, <1>3 DEF Timeout
    <2>3. Quiet
      BY Zenon, <1>2, <1>3, <2>1, <2>2 DEF Timeout, Quiet, IInv, TypeOK
    <2> QED
      BY Zenon, <2>3, QuietPreservesIInv
  <1>4. ASSUME NEW w \in Workers, run[w].pc # "idle", run' = [run EXCEPT ![w] = Idle]
        PROVE  /\ \A v \in Workers : run'[v].pc = "idle"
               /\ run' \in [Workers -> Runs]
               /\ IsCurrent(w) /\ store[w] = details
    BY Zenon, <1>1, <1>4 DEF IInv, TypeOK, OneAttempt, StoreRecorded
  <1>5. ASSUME NEW w \in Workers, FailAttempt(w)
        PROVE  IInv'
    <2>1. run[w].pc # "idle" /\ run' = [run EXCEPT ![w] = Idle]
      BY Zenon, <1>5 DEF FailAttempt
    <2>2. RetryOrPark(store[w]) /\ store[w] = details
      BY Zenon, <1>4, <1>5, <2>1 DEF FailAttempt
    <2>3. Quiet
      BY Zenon, ZenonT(30), <1>2, <1>4, <1>5, <2>1, <2>2 DEF FailAttempt, Quiet, IInv, TypeOK
    <2> QED
      BY Zenon, <2>3, QuietPreservesIInv
  <1>6. ASSUME NEW w \in Workers, CompleteAttempt(w)
        PROVE  IInv'
    <2>1. run[w].pc # "idle" /\ run' = [run EXCEPT ![w] = Idle]
      BY Zenon, <1>6 DEF CompleteAttempt
    <2>2. IsCurrent(w)
      BY Zenon, <1>4, <2>1
    <2>3. 1 \in 1 .. MaxAttempts /\ (turn < MaxTurns => turn + 1 \in 1 .. MaxTurns)
      BY TurnAssumption DEF IInv, TypeOK
    <2>4. /\ turn' \in 1 .. MaxTurns /\ attempt' \in 1 .. MaxAttempts /\ schedule' \in {"scheduled", "ended"}
          /\ \/ activity' = activity /\ details' = details
             \/ activity < MaxActivities /\ activity' = activity + 1 /\ details' = NoReceipts
      BY Zenon, <1>6, <2>2, <2>3 DEF CompleteAttempt, IInv, TypeOK
    <2>5. Quiet
      BY Zenon, <1>4, <1>6, <2>1, <2>4 DEF CompleteAttempt, Quiet, IInv, TypeOK
    <2> QED
      BY Zenon, <2>5, QuietPreservesIInv
  <1>7. ASSUME NEW w \in Workers, Crash(w)
        PROVE  IInv'
    <2>1. CASE run[w].pc # "idle"
      <3>1. NoReceipts \in [Ids -> Receipts]
        BY Zenon DEF NoReceipts, Missing, Receipts
      <3>2. store' \in [Workers -> [Ids -> Receipts]] /\ cached' \in [Workers -> BOOLEAN]
        BY Zenon, <1>7, <3>1 DEF Crash, IInv, TypeOK
      <3>3. Quiet
        BY Zenon, ZenonT(30), <1>4, <1>7, <2>1, <3>2 DEF Crash, Quiet, server, IInv, TypeOK
      <3> QED
        BY Zenon, <3>3, QuietPreservesIInv
    <2>2. CASE run[w].pc = "idle"
      <3>1. NoReceipts \in [Ids -> Receipts]
        BY Zenon DEF NoReceipts, Missing, Receipts
      <3>2. store' \in [Workers -> [Ids -> Receipts]] /\ cached' \in [Workers -> BOOLEAN]
            /\ run' \in [Workers -> Runs] /\ UNCHANGED <<turn, activity, attempt, schedule, details, executed>>
        BY Zenon, <1>1, <1>7, <3>1 DEF Crash, IInv, TypeOK, server
      <3>3. \A v \in Workers : v # w => run'[v] = run[v] /\ store'[v] = store[v]
        BY Zenon, <1>7 DEF Crash, IInv, TypeOK
      <3>4. run'[w].pc = "idle"
        BY Zenon, <1>1, <1>7 DEF Crash, IInv, TypeOK
      <3>5. TypeOK'
        BY Zenon, <3>2, <3>3, <3>4 DEF IInv, TypeOK
      <3>6. OneAttempt' /\ StoreRecorded'
        BY ZenonT(30), <3>2, <3>3, <3>4 DEF IInv, OneAttempt, StoreRecorded, IsCurrent
      <3>7. ClaimIsFresh'
        <4>1. \A v \in Workers : v # w => Call(v)' = Call(v) /\ EffectId(v)' = EffectId(v)
          BY Zenon, <3>3 DEF Call, EffectId
        <4> QED
          BY Zenon, <3>2, <3>3, <3>4, <4>1 DEF IInv, ClaimIsFresh, IdOf
      <3>8. ExecutedHasReceipt' /\ OncePerActivity'
        BY Zenon, <3>2 DEF IInv, ExecutedHasReceipt, OncePerActivity, IdOf
      <3> QED
        BY Zenon, ZenonT(30), <3>5, <3>6, <3>7, <3>8 DEF IInv
    <2> QED
      BY Zenon, <2>1, <2>2
  <1> QED
    BY Zenon, <1>3, <1>5, <1>6, <1>7

\* Every step preserves the invariant; a heartbeat has nothing left to record.
LEMMA NextPreservesIInv ==
  ASSUME Reliable, IInv, [Next]_vars
  PROVE  IInv'
  <1>1. ASSUME NEW w \in Workers, Record(w) PROVE FALSE
    BY Zenon, <1>1 DEF Record, IsCurrent, IInv, StoreRecorded
  <1>2. CASE UNCHANGED vars
    BY Zenon, ZenonT(30), <1>2 DEF vars, IInv, TypeOK, OneAttempt, StoreRecorded, ClaimIsFresh, ExecutedHasReceipt, OncePerActivity,
                IsCurrent, Call, EffectId, IdOf
  <1> QED
    BY Zenon, <1>1, <1>2, LoopPreservesIInv, ClaimPreservesIInv, OutcomePreservesIInv, PerformPreservesIInv,
       StartPreservesIInv, EndPreservesIInv DEF Next

-----------------------------------------------------------------------------

\* The receipts' invariant, for any number of workers, turns and attempts.
THEOREM ReceiptsInvariant ==
  ASSUME Reliable
  PROVE  Spec => []IInv
  <1>1. IInv /\ [Next]_vars => IInv'
    BY Zenon, NextPreservesIInv
  <1> QED
    BY <1>1, InitIInv, PTL DEF Spec

\* If heartbeats are recorded at once and only dead attempts are timed out,
\* an activity carries out each effect id at most once, over all its attempts.
THEOREM EffectsOncePerActivity ==
  ASSUME Reliable
  PROVE  Spec => []OncePerActivity
  <1>1. IInv => OncePerActivity
    BY Zenon DEF IInv
  <1> QED
    BY <1>1, ReceiptsInvariant, PTL

-----------------------------------------------------------------------------
(* A recorded receipt is not erased.                                          *)

Keeps == activity' = activity => \A id \in Ids : details[id].status = "committed" => details'[id] = details[id]

\* Worker w's attempt goes on as r with the receipts s, which keep the recorded
\* ones and are recorded now or not.
LEMMA AttemptGoesOn ==
  ASSUME KeptInv, NEW w \in Workers, NEW r \in Runs, NEW s \in [Ids -> Receipts],
         run[w].pc # "idle", r.pc \notin {"idle", "model"},
         r.turn = run[w].turn, r.activity = run[w].activity, r.attempt = run[w].attempt,
         r.index \in 1 .. Len(r.reply) + 1,
         run' = [run EXCEPT ![w] = r], store' = [store EXCEPT ![w] = s],
         UNCHANGED <<server, cached>>, executed' \subseteq Executions,
         details' = details \/ (IsCurrent(w) /\ details' = s),
         IsCurrent(w) => \A id \in Ids : details[id].status = "committed" => s[id] = details[id],
         r.pc \in {"claimed", "performed"} =>
            /\ r.index <= Len(r.reply) /\ r.reply[r.index].tool \in Tools
            /\ s[<<r.reply[r.index].tool, r.index>>].status = "started"
  PROVE  KeptInv' /\ Keeps
<1>1. /\ \A v \in Workers : run'[v] = IF v = w THEN r ELSE run[v]
      /\ \A v \in Workers : store'[v] = IF v = w THEN s ELSE store[v]
      /\ run' \in [Workers -> Runs] /\ store' \in [Workers -> [Ids -> Receipts]]
  BY Zenon DEF KeptInv, TypeOK
<1>2. details' \in [Ids -> Receipts]
  BY Zenon DEF KeptInv, TypeOK
<1>3. \A v \in Workers : run'[v].pc # "idle" =>
          /\ run'[v].turn # 0 /\ run'[v].activity # 0 /\ run'[v].attempt # 0
          /\ run'[v].index \in 1 .. Len(run'[v].reply) + 1
          /\ run'[v].pc = "model" => run'[v].index = 1
  BY <1>1 DEF KeptInv, TypeOK
<1>4. TypeOK'
  BY Zenon, <1>1, <1>2, <1>3 DEF KeptInv, TypeOK, server
<1>5. AttemptsInOrder'
  BY <1>1 DEF KeptInv, AttemptsInOrder, server
<1>6. ClaimIsStarted'
  BY Zenon, <1>1 DEF KeptInv, ClaimIsStarted, Call, EffectId
<1>7. \A v \in Workers : (IsCurrent(v)' <=> IsCurrent(v)) /\ (IsCurrent(v) /\ IsCurrent(w) => v = w)
  BY <1>1 DEF KeptInv, AttemptsInOrder, IsCurrent, server
<1>8. RecordedIsKept'
  BY <1>1, <1>7 DEF KeptInv, RecordedIsKept
<1>9. Keeps
  BY Zenon DEF Keeps
<1> QED
  BY Zenon, <1>4, <1>5, <1>6, <1>8, <1>9 DEF KeptInv

\* The model's reply, a call that is refused or replayed, and an effect that is
\* carried out change no receipt.
LEMMA LoopKeeps ==
  ASSUME KeptInv, NEW w \in Workers, ModelReply(w) \/ RefuseCall(w) \/ ReplayReceipt(w) \/ Perform(w)
  PROVE  KeptInv' /\ Keeps
<1>1. TypeOK /\ run[w] \in Runs /\ store[w] \in [Ids -> Receipts] /\ store' = [store EXCEPT ![w] = store[w]]
  BY Zenon DEF KeptInv, TypeOK, ModelReply, RefuseCall, ReplayReceipt, Perform
<1>2. /\ run[w].pc # "idle" /\ UNCHANGED <<server, cached>> /\ details' = details
      /\ IsCurrent(w) => \A id \in Ids : details[id].status = "committed" => store[w][id] = details[id]
  BY Zenon DEF ModelReply, RefuseCall, ReplayReceipt, Perform, HasCall, KeptInv, RecordedIsKept
<1>3. CASE ModelReply(w)
  <2>1. PICK reply \in CallLists : run' = [run EXCEPT ![w].pc = "calls", ![w].reply = reply]
    BY Zenon, <1>3 DEF ModelReply
  <2> DEFINE r == [run[w] EXCEPT !.pc = "calls", !.reply = reply]
  <2>2. r \in Runs /\ r.pc = "calls" /\ r.turn = run[w].turn /\ r.activity = run[w].activity /\ r.attempt = run[w].attempt
        /\ r.index = 1 /\ r.reply = reply
    BY Zenon, <1>1, <1>3 DEF Runs, TypeOK, ModelReply
  <2>3. run' = [run EXCEPT ![w] = r] /\ executed' \subseteq Executions
    BY Zenon, <1>1, <1>3, <2>1 DEF TypeOK, ModelReply
  <2>4. Len(reply) \in Nat
    BY Zenon, ReplyFacts
  <2> HIDE DEF r
  <2>5. r.pc \notin {"idle", "model"} /\ r.pc \notin {"claimed", "performed"} /\ r.index \in 1 .. Len(r.reply) + 1
    BY <2>2, <2>4
  <2> QED
    BY Zenon, <1>1, <1>2, <2>2, <2>3, <2>5, AttemptGoesOn
<1>4. CASE RefuseCall(w) \/ ReplayReceipt(w)
  <2>1. HasCall(w) /\ NextCall(w) /\ executed' = executed
    BY Zenon, <1>4 DEF RefuseCall, ReplayReceipt
  <2> DEFINE r == [run[w] EXCEPT !.pc = "calls", !.index = run[w].index + 1]
  <2>2. run[w].index + 1 \in 1 .. Len(run[w].reply) + 1 /\ run[w].index \in 1 .. MaxCalls
    BY Zenon, <1>1, <1>2, <2>1, CallIsTyped DEF HasCall
  <2>3. r \in Runs /\ r.pc = "calls" /\ r.turn = run[w].turn /\ r.activity = run[w].activity /\ r.attempt = run[w].attempt
        /\ r.index = run[w].index + 1 /\ r.reply = run[w].reply
    <3>1. run[w].index + 1 \in 0 .. MaxCalls + 1
      BY <2>2, TurnAssumption
    <3> QED
      BY Zenon, <1>1, <3>1 DEF Runs
  <2>4. run' = [run EXCEPT ![w] = r] /\ executed' \subseteq Executions
    BY Zenon, <1>1, <2>1 DEF TypeOK, NextCall
  <2> HIDE DEF r
  <2> QED
    BY Zenon, <1>1, <1>2, <2>2, <2>3, <2>4, AttemptGoesOn
<1>5. CASE Perform(w)
  <2> DEFINE r == [run[w] EXCEPT !.pc = "performed"]
  <2>1. /\ run[w].index <= Len(run[w].reply) /\ Call(w).tool \in Tools
        /\ store[w][EffectId(w)].status = "started"
    BY Zenon, <1>5 DEF Perform, KeptInv, ClaimIsStarted
  <2>2. Call(w) \in Calls /\ run[w].index \in 1 .. MaxCalls /\ run[w].index \in 1 .. Len(run[w].reply) + 1
    BY Zenon, <1>1, <1>2, <2>1, CallIsTyped DEF TypeOK
  <2>3. r \in Runs /\ r.pc = "performed" /\ r.turn = run[w].turn /\ r.activity = run[w].activity /\ r.attempt = run[w].attempt
        /\ r.index = run[w].index /\ r.reply = run[w].reply
    BY Zenon, <1>1 DEF Runs
  <2>4. run' = [run EXCEPT ![w] = r]
    BY Zenon, <1>1, <1>5 DEF TypeOK, Perform
  <2>5. executed' \subseteq Executions
    <3>1. Execution(w) \in Executions
      <4>1. /\ run[w].turn # 0 /\ run[w].activity # 0 /\ run[w].attempt # 0
            /\ run[w].turn \in 0 .. MaxTurns /\ run[w].activity \in 0 .. MaxActivities /\ run[w].attempt \in 0 .. MaxAttempts
        BY Zenon, <1>1, <1>2 DEF TypeOK, Runs
      <4>2. run[w].turn \in 1 .. MaxTurns /\ run[w].activity \in 1 .. MaxActivities /\ run[w].attempt \in 1 .. MaxAttempts
        BY <4>1, TurnAssumption
      <4> QED
        BY Zenon, <2>2, <4>2 DEF Execution, Executions
    <3> QED
      BY Zenon, <1>1, <1>5, <3>1 DEF TypeOK, Perform
  <2>6. r.reply[r.index].tool \in Tools /\ store[w][<<r.reply[r.index].tool, r.index>>].status = "started"
    BY Zenon, <2>1, <2>3 DEF Call, EffectId
  <2> HIDE DEF r
  <2> QED
    BY Zenon, <1>1, <1>2, <2>1, <2>2, <2>3, <2>4, <2>5, <2>6, AttemptGoesOn
<1> QED
  BY Zenon, <1>3, <1>4, <1>5

\* A receipt that is written replaces none that is committed.
LEMMA PutKeeps ==
  ASSUME KeptInv, NEW w \in Workers, ClaimEffect(w) \/ CommitEffect(w) \/ EffectFails(w)
  PROVE  KeptInv' /\ Keeps
<1> DEFINE id == EffectId(w)
<1>1. TypeOK /\ run[w] \in Runs /\ store[w] \in [Ids -> Receipts] /\ executed' \subseteq Executions
  BY Zenon DEF KeptInv, TypeOK, ClaimEffect, CommitEffect, EffectFails
<1>2. /\ run[w].pc # "idle" /\ run[w].index <= Len(run[w].reply) /\ Call(w).tool \in Tools
      /\ store[w][id].status # "committed" /\ UNCHANGED <<server, cached>>
  BY Zenon DEF ClaimEffect, CommitEffect, EffectFails, HasCall, KeptInv, ClaimIsStarted
<1>3. /\ id \in Ids /\ Call(w) \in Calls /\ run[w].index \in 1 .. MaxCalls
      /\ run[w].index + 1 \in 1 .. Len(run[w].reply) + 1 /\ run[w].index \in 1 .. Len(run[w].reply) + 1
  BY Zenon, <1>1, <1>2, CallIsTyped DEF TypeOK
<1>4. ASSUME NEW receipt \in Receipts, PutReceipt(w, receipt), NEW r \in Runs, run' = [run EXCEPT ![w] = r],
             r.pc \in {"calls", "claimed"}, r.turn = run[w].turn, r.activity = run[w].activity, r.attempt = run[w].attempt,
             r.index \in 1 .. Len(r.reply) + 1,
             r.pc = "claimed" => receipt.status = "started" /\ r.index = run[w].index /\ r.reply = run[w].reply
      PROVE  KeptInv' /\ Keeps
  <2> DEFINE s == [store[w] EXCEPT ![id] = receipt]
  <2>1. s \in [Ids -> Receipts] /\ s[id] = receipt /\ \A x \in Ids : x # id => s[x] = store[w][x]
    BY Zenon, <1>1, <1>3
  <2>2. store' = [store EXCEPT ![w] = s] /\ store'[w] = s
    BY Zenon, <1>1, <1>4 DEF PutReceipt, TypeOK
  <2>3. details' = details \/ (IsCurrent(w) /\ details' = s)
    BY Zenon, <1>4, <2>2 DEF PutReceipt, Heartbeat
  <2>4. IsCurrent(w) => \A x \in Ids : details[x].status = "committed" => s[x] = details[x]
    BY Zenon, <1>2, <2>1 DEF KeptInv, RecordedIsKept
  <2>5. r.pc = "claimed" => /\ r.index <= Len(r.reply) /\ r.reply[r.index].tool \in Tools
                            /\ s[<<r.reply[r.index].tool, r.index>>].status = "started"
    BY Zenon, <1>2, <1>4, <2>1 DEF Call, EffectId
  <2> HIDE DEF s
  <2> QED
    BY Zenon, <1>1, <1>2, <1>4, <2>1, <2>2, <2>3, <2>4, <2>5, AttemptGoesOn
<1>5. ASSUME NEW receipt \in Receipts, PutReceipt(w, receipt), NextCall(w)
      PROVE  KeptInv' /\ Keeps
  <2> DEFINE r == [run[w] EXCEPT !.pc = "calls", !.index = run[w].index + 1]
  <2>1. r \in Runs /\ r.pc = "calls" /\ r.turn = run[w].turn /\ r.activity = run[w].activity /\ r.attempt = run[w].attempt
        /\ r.index = run[w].index + 1 /\ r.reply = run[w].reply
    <3>1. run[w].index + 1 \in 0 .. MaxCalls + 1
      BY <1>3, TurnAssumption
    <3> QED
      BY Zenon, <1>1, <3>1 DEF Runs
  <2>2. run' = [run EXCEPT ![w] = r]
    BY Zenon, <1>1, <1>5 DEF TypeOK, NextCall
  <2> HIDE DEF r
  <2> QED
    BY Zenon, <1>3, <1>4, <1>5, <2>1, <2>2
<1>6. CASE ClaimEffect(w)
  <2> DEFINE r == [run[w] EXCEPT !.pc = "claimed"]
             receipt == [status |-> "started", by |-> NoExecution]
  <2>1. r \in Runs /\ r.pc = "claimed" /\ r.turn = run[w].turn /\ r.activity = run[w].activity /\ r.attempt = run[w].attempt
        /\ r.index = run[w].index /\ r.reply = run[w].reply
    BY Zenon, <1>1 DEF Runs
  <2>2. run' = [run EXCEPT ![w] = r] /\ PutReceipt(w, receipt)
    BY Zenon, <1>1, <1>6 DEF TypeOK, ClaimEffect
  <2>3. receipt \in Receipts /\ receipt.status = "started"
    BY Zenon DEF Receipts
  <2> HIDE DEF r, receipt
  <2> QED
    BY Zenon, <1>3, <1>4, <2>1, <2>2, <2>3
<1>7. CASE CommitEffect(w)
  <2>1. Execution(w) \in Executions
    BY <1>1, <1>2, <1>3 DEF Execution, Executions, TypeOK, Runs
  <2>2. [status |-> "committed", by |-> Execution(w)] \in Receipts
    BY Zenon, <2>1 DEF Receipts
  <2> QED
    BY Zenon, <1>5, <1>7, <2>2 DEF CommitEffect
<1>8. CASE EffectFails(w)
  <2>1. [status |-> "failed", by |-> NoExecution] \in Receipts
    BY Zenon DEF Receipts
  <2> QED
    BY Zenon, <1>5, <1>8, <2>1 DEF EffectFails
<1> QED
  BY Zenon, <1>6, <1>7, <1>8

\* An attempt starts with the recorded receipts.
LEMMA StartKeeps ==
  ASSUME KeptInv, Rung = "synthetic", NEW w \in Workers, StartAttempt(w)
  PROVE  KeptInv' /\ Keeps
<1> DEFINE r == [pc |-> "model", turn |-> turn, activity |-> activity, attempt |-> attempt, reply |-> <<>>, index |-> 1]
<1>1. /\ schedule = "scheduled" /\ schedule' = "running" /\ UNCHANGED <<turn, activity, attempt, executed>>
      /\ run' = [run EXCEPT ![w] = r] /\ store' = [store EXCEPT ![w] = details] /\ details' = details
      /\ cached' \in [Workers -> BOOLEAN]
  BY Zenon DEF StartAttempt, RungStore, KeptInv, TypeOK
<1>2. /\ r \in Runs /\ r.pc = "model" /\ r.turn # 0 /\ r.activity = activity /\ r.attempt = attempt /\ r.index = 1
      /\ activity # 0 /\ attempt # 0 /\ r.index \in 1 .. Len(r.reply) + 1
  BY EmptyReply, TurnAssumption DEF KeptInv, TypeOK, Runs
<1> HIDE DEF r
<1>3. /\ \A v \in Workers : run'[v] = IF v = w THEN r ELSE run[v]
      /\ \A v \in Workers : store'[v] = IF v = w THEN details ELSE store[v]
      /\ run' \in [Workers -> Runs] /\ store' \in [Workers -> [Ids -> Receipts]]
  BY Zenon, <1>1, <1>2 DEF KeptInv, TypeOK
<1>4. \A v \in Workers : run'[v].pc # "idle" =>
          /\ run'[v].turn # 0 /\ run'[v].activity # 0 /\ run'[v].attempt # 0
          /\ run'[v].index \in 1 .. Len(run'[v].reply) + 1
          /\ run'[v].pc = "model" => run'[v].index = 1
  BY Zenon, <1>2, <1>3 DEF KeptInv, TypeOK
<1>5. TypeOK'
  BY Zenon, <1>1, <1>3, <1>4 DEF KeptInv, TypeOK
<1>6. \A v \in Workers : run[v].pc # "idle" => ~(run[v].activity = activity /\ run[v].attempt = attempt)
  <2>1. \A v \in Workers : run[v].activity \in Nat /\ run[v].attempt \in Nat
    BY TurnAssumption DEF KeptInv, TypeOK, Runs
  <2>2. activity \in Nat /\ attempt \in Nat
    BY TurnAssumption DEF KeptInv, TypeOK
  <2> QED
    BY <1>1, <2>1, <2>2 DEF KeptInv, AttemptsInOrder
<1>7. AttemptsInOrder'
  BY <1>1, <1>2, <1>3, <1>6 DEF KeptInv, AttemptsInOrder
<1>8. ClaimIsStarted'
  BY Zenon, <1>2, <1>3 DEF KeptInv, ClaimIsStarted, Call, EffectId
<1>9. RecordedIsKept'
  BY Zenon, <1>1, <1>2, <1>3, <1>6 DEF RecordedIsKept, IsCurrent
<1>10. Keeps
  BY Zenon, <1>1 DEF Keeps
<1> QED
  BY Zenon, <1>5, <1>7, <1>8, <1>9, <1>10 DEF KeptInv

\* Attempts end, and Temporal goes on with the recorded details, with those of the
\* attempt that was current, or with a new activity.
LEMMA EndKeeps ==
  ASSUME KeptInv, run' \in [Workers -> Runs], store' \in [Workers -> [Ids -> Receipts]], cached' \in [Workers -> BOOLEAN],
         \A v \in Workers : run'[v].pc = "idle" \/ (run'[v] = run[v] /\ store'[v] = store[v]),
         UNCHANGED executed,
         turn' \in 1 .. MaxTurns, activity' \in 1 .. MaxActivities, attempt' \in 1 .. MaxAttempts,
         \/ UNCHANGED <<server, details>>
         \/ schedule' = "ended" /\ UNCHANGED <<turn, activity, attempt, details>>
         \/ /\ schedule' = "scheduled" /\ activity' = activity /\ attempt' > attempt
            /\ details' = details \/ \E v \in Workers : IsCurrent(v) /\ details' = store[v]
         \/ schedule' = "scheduled" /\ activity' > activity /\ details' = NoReceipts
  PROVE  KeptInv' /\ Keeps
<1>1. NoReceipts \in [Ids -> Receipts]
  BY Zenon DEF NoReceipts, Missing, Receipts
<1>2. details' \in [Ids -> Receipts] /\ schedule' \in {"scheduled", "running", "ended"}
  BY <1>1 DEF KeptInv, TypeOK, server
<1>3. \A v \in Workers : run'[v].pc # "idle" =>
          /\ run'[v].turn # 0 /\ run'[v].activity # 0 /\ run'[v].attempt # 0
          /\ run'[v].index \in 1 .. Len(run'[v].reply) + 1
          /\ run'[v].pc = "model" => run'[v].index = 1
  BY Zenon DEF KeptInv, TypeOK
<1>4. TypeOK'
  BY Zenon, <1>2, <1>3 DEF KeptInv, TypeOK
<1>n. /\ activity \in Nat /\ attempt \in Nat /\ activity' \in Nat /\ attempt' \in Nat
      /\ \A v \in Workers : run[v].activity \in Nat /\ run[v].attempt \in Nat
  <2>1. /\ activity \in 1 .. MaxActivities /\ attempt \in 1 .. MaxAttempts
        /\ \A v \in Workers : run[v].activity \in 0 .. MaxActivities /\ run[v].attempt \in 0 .. MaxAttempts
    BY Zenon DEF KeptInv, TypeOK, Runs
  <2> QED
    BY <2>1, TurnAssumption
<1>5. AttemptsInOrder'
  <2>1. AttemptsInOrder /\ \A v \in Workers : run'[v].pc # "idle" => run'[v] = run[v]
    BY Zenon DEF KeptInv
  <2>2. ASSUME NEW v \in Workers, run'[v].pc # "idle"
        PROVE  \/ run'[v].activity < activity'
               \/ run'[v].activity = activity' /\ run'[v].attempt < attempt'
               \/ run'[v].activity = activity' /\ run'[v].attempt = attempt' /\ schedule' # "scheduled"
    <3>1. /\ run'[v] = run[v]
          /\ \/ run[v].activity < activity
             \/ run[v].activity = activity /\ run[v].attempt < attempt
             \/ run[v].activity = activity /\ run[v].attempt = attempt /\ schedule # "scheduled"
      BY Zenon, <2>1, <2>2 DEF AttemptsInOrder
    <3> QED
      BY <1>n, <3>1 DEF server
  <2>3. ASSUME NEW v \in Workers, NEW u \in Workers, run'[v].pc # "idle", run'[u].pc # "idle",
               run'[v].activity = run'[u].activity, run'[v].attempt = run'[u].attempt
        PROVE  v = u
    BY ZenonT(30), <2>1, <2>3 DEF AttemptsInOrder
  <2> QED
    BY Zenon, <2>2, <2>3 DEF AttemptsInOrder
<1>6. ClaimIsStarted'
  BY Zenon DEF KeptInv, ClaimIsStarted, Call, EffectId
<1>7. RecordedIsKept'
  <2> SUFFICES ASSUME NEW v \in Workers, IsCurrent(v)'
               PROVE  \A id \in Ids : details'[id].status = "committed" => store'[v][id] = details'[id]
    BY Zenon DEF RecordedIsKept
  <2>1. UNCHANGED <<server, details>> /\ run'[v] = run[v] /\ store'[v] = store[v]
    BY Zenon, <1>n DEF KeptInv, AttemptsInOrder, IsCurrent, server
  <2>2. IsCurrent(v)
    BY Zenon, <2>1 DEF IsCurrent, server
  <2> QED
    BY Zenon, <2>1, <2>2 DEF KeptInv, RecordedIsKept
<1>8. Keeps
  BY <1>n DEF Keeps, KeptInv, RecordedIsKept, server
<1> QED
  BY Zenon, <1>4, <1>5, <1>6, <1>7, <1>8 DEF KeptInv

\* Every step keeps what is recorded.
LEMMA StepKeeps ==
  ASSUME KeptInv, Rung = "synthetic", [Next]_vars
  PROVE  KeptInv' /\ Keeps
<1>t. /\ TypeOK /\ turn \in 1 .. MaxTurns /\ activity \in 1 .. MaxActivities /\ attempt \in 1 .. MaxAttempts
      /\ run \in [Workers -> Runs] /\ store \in [Workers -> [Ids -> Receipts]] /\ cached \in [Workers -> BOOLEAN]
  BY Zenon DEF KeptInv, TypeOK
<1>i. Idle \in Runs /\ Idle.pc = "idle"
  BY EmptyReply, TurnAssumption DEF Idle, Runs
<1>n. NoReceipts \in [Ids -> Receipts]
  BY Zenon DEF NoReceipts, Missing, Receipts
<1>r. ASSUME NEW recorded, RetryOrPark(recorded)
      PROVE  /\ turn' \in 1 .. MaxTurns /\ activity' \in 1 .. MaxActivities /\ attempt' \in 1 .. MaxAttempts
             /\ schedule' = "scheduled"
             /\ \/ activity' = activity /\ attempt' > attempt /\ details' = recorded
                \/ activity' > activity /\ details' = NoReceipts
  BY <1>r, <1>t, TurnAssumption DEF RetryOrPark
<1>1. CASE Timeout
  <2>1. RetryOrPark(details) /\ UNCHANGED <<run, store, cached, executed>>
    BY Zenon, <1>1 DEF Timeout
  <2> QED
    BY Zenon, <1>t, <1>r, <2>1, EndKeeps
<1>2. ASSUME NEW w \in Workers, Record(w)
      PROVE  KeptInv' /\ Keeps
  <2>1. IsCurrent(w) /\ details' = store[w] /\ UNCHANGED <<server, run, store, cached, executed>>
    BY Zenon, <1>2 DEF Record
  <2>2. TypeOK' /\ AttemptsInOrder' /\ ClaimIsStarted'
    BY Zenon, <2>1 DEF KeptInv, TypeOK, AttemptsInOrder, ClaimIsStarted, Call, EffectId, server
  <2>3. \A v \in Workers : IsCurrent(v)' => v = w
    BY Zenon, <2>1 DEF KeptInv, AttemptsInOrder, IsCurrent, server
  <2>4. RecordedIsKept'
    BY Zenon, <2>1, <2>3 DEF RecordedIsKept
  <2>5. Keeps
    BY Zenon, <2>1 DEF Keeps, KeptInv, RecordedIsKept
  <2> QED
    BY Zenon, <2>2, <2>4, <2>5 DEF KeptInv
<1>3. ASSUME NEW w \in Workers, FailAttempt(w)
      PROVE  KeptInv' /\ Keeps
  <2>1. run' = [run EXCEPT ![w] = Idle] /\ UNCHANGED <<store, cached, executed>>
    BY Zenon, <1>3 DEF FailAttempt
  <2>2. run' \in [Workers -> Runs] /\ \A v \in Workers : run'[v].pc = "idle" \/ run'[v] = run[v]
    BY Zenon, <1>t, <1>i, <2>1
  <2>3. CASE IsCurrent(w)
    <3>1. RetryOrPark(store[w])
      BY Zenon, <1>3, <2>3 DEF FailAttempt
    <3> QED
      BY <1>t, <1>r, <2>1, <2>2, <2>3, <3>1, EndKeeps
  <2>4. CASE ~IsCurrent(w)
    <3>1. UNCHANGED <<server, details>>
      BY Zenon, <1>3, <2>4 DEF FailAttempt
    <3> QED
      BY Zenon, <1>t, <2>1, <2>2, <3>1, EndKeeps DEF server
  <2> QED
    BY Zenon, <2>3, <2>4
<1>4. ASSUME NEW w \in Workers, CompleteAttempt(w)
      PROVE  KeptInv' /\ Keeps
  <2>1. run' = [run EXCEPT ![w] = Idle] /\ UNCHANGED <<store, cached, executed>>
    BY Zenon, <1>4 DEF CompleteAttempt
  <2>2. run' \in [Workers -> Runs] /\ \A v \in Workers : run'[v].pc = "idle" \/ run'[v] = run[v]
    BY Zenon, <1>t, <1>i, <2>1
  <2>3. /\ turn' \in 1 .. MaxTurns /\ activity' \in 1 .. MaxActivities /\ attempt' \in 1 .. MaxAttempts
        /\ \/ UNCHANGED <<server, details>>
           \/ schedule' = "ended" /\ UNCHANGED <<turn, activity, attempt, details>>
           \/ schedule' = "scheduled" /\ activity' > activity /\ details' = NoReceipts
    BY <1>4, <1>t, TurnAssumption DEF CompleteAttempt, server
  <2> QED
    BY Zenon, <1>t, <2>1, <2>2, <2>3, EndKeeps
<1>5. ASSUME NEW w \in Workers, Crash(w)
      PROVE  KeptInv' /\ Keeps
  <2>1. /\ run' = [run EXCEPT ![w] = Idle] /\ store' = [store EXCEPT ![w] = NoReceipts]
        /\ cached' = [cached EXCEPT ![w] = FALSE] /\ UNCHANGED <<server, details, executed>>
    BY Zenon, <1>5 DEF Crash
  <2>2. /\ run' \in [Workers -> Runs] /\ store' \in [Workers -> [Ids -> Receipts]] /\ cached' \in [Workers -> BOOLEAN]
        /\ \A v \in Workers : run'[v].pc = "idle" \/ (run'[v] = run[v] /\ store'[v] = store[v])
    BY Zenon, <1>t, <1>i, <1>n, <2>1
  <2> QED
    BY Zenon, <1>t, <2>1, <2>2, EndKeeps DEF server
<1>6. CASE UNCHANGED vars
  BY Zenon, <1>6, <1>t, EndKeeps DEF vars, server
<1> QED
  BY Zenon, <1>1, <1>2, <1>3, <1>4, <1>5, <1>6, LoopKeeps, PutKeeps, StartKeeps DEF Next

\* On the synthetic rung a receipt that Temporal has recorded as committed is
\* recorded as long as its activity lasts, for every number of workers, calls and
\* attempts, however late heartbeats are and whether or not attempts are overtaken
\* (TemporalActivityStateStore and the heartbeats of gateway-run-turn.ts).
THEOREM CommittedReceiptsStay == Rung = "synthetic" => (Spec => ReceiptsNotErased)
<1> SUFFICES ASSUME Rung = "synthetic"
             PROVE  Spec => ReceiptsNotErased
  BY Zenon
<1>1. Init => KeptInv
  <2> SUFFICES ASSUME Init PROVE KeptInv
    BY Zenon
  <2>1. TypeOK
    BY Zenon, InitIInv DEF IInv
  <2>2. \A w \in Workers : run[w].pc = "idle"
    BY Zenon DEF Init, Idle
  <2> QED
    BY Zenon, <2>1, <2>2 DEF KeptInv, AttemptsInOrder, ClaimIsStarted, RecordedIsKept, IsCurrent
<1>2. KeptInv /\ [Next]_vars => KeptInv' /\ Keeps
  BY Zenon, StepKeeps
<1> QED
  BY <1>1, <1>2, PTL DEF Spec, ReceiptsNotErased, Keeps

-----------------------------------------------------------------------------
(* The activity worker.                                                       *)

\* A hint is a number of milliseconds.
LEMMA HintIsInt ==
  ASSUME NEW j \in Jobs, NEW reply \in Replies[j]
  PROVE  parseRetryHintMs(reply.headers) \in Int
<1>1. /\ reply.headers.retryAfter.value \in Int /\ reply.headers.reset.value \in Int /\ reply.headers.date.value \in Int
      /\ EpochSeconds \in Int /\ EpochMs \in Int /\ WorkerNow \in Int
  BY WorkerAssumption DEF Headers
<1>2. referenceNow(reply.headers) \in Int
  BY <1>1 DEF referenceNow
<1>3. ResetMs(reply.headers) \in Int
  BY <1>1, <1>2 DEF ResetMs
<1>4. NoHintMs \in Int
  BY DEF NoHintMs
<1> QED
  BY <1>1, <1>2, <1>3, <1>4 DEF parseRetryHintMs

\* A failure with one cause.
LEMMA OneCause ==
  ASSUME NEW m \in Failures, NEW b \in BOOLEAN, NEW h \in Int, NEW e, e = <<Cause(m, b, h)>>
  PROVE  /\ e \in Errors /\ Len(e) = 1 /\ DOMAIN e = {1} /\ e # << >>
         /\ e[1].message = m /\ e[1].nonRetryable = b /\ e[1].hint = h
  BY DEF Cause, Causes, Errors

\* What a turn throws has one cause, the attempt's own.
LEMMA ThrownIsOne ==
  ASSUME NEW j \in Jobs, NEW reply \in Replies[j], NEW m \in Failures,
         TurnError(Inputs[j], reply, m) # << >>
  PROVE  \E b \in BOOLEAN, h \in Int : TurnError(Inputs[j], reply, m) = <<Cause(m, b, h)>>
<1>1. NoHintMs \in Int /\ parseRetryHintMs(reply.headers) \in Int
  BY HintIsInt DEF NoHintMs
<1>2. \E b \in BOOLEAN, h \in Int : toTemporalError(reply, m) = <<Cause(m, b, h)>>
  <2>1. toTemporalError(reply, m) \in {<<Cause(m, TRUE, NoHintMs)>>, <<Cause(m, FALSE, parseRetryHintMs(reply.headers))>>,
                                      <<Cause(m, FALSE, NoHintMs)>>}
    BY DEF toTemporalError, Plain
  <2> QED
    BY Zenon, <1>1, <2>1
<1>3. \E b \in BOOLEAN, h \in Int : Plain(m) = <<Cause(m, b, h)>>
  BY Zenon, <1>1 DEF Plain
<1> QED
  BY <1>2, <1>3 DEF TurnError

\* The map loses at most an entry.
LEMMA WithoutTakes ==
  ASSUME NEW S, NEW map \in Seq(S), NEW j
  PROVE  /\ Without(map, j) \in Seq(S)
         /\ \A i \in DOMAIN Without(map, j) : \E k \in DOMAIN map : Without(map, j)[i] = map[k]
<1>1. CASE \A i \in DOMAIN map : map[i][1] # j
  BY <1>1 DEF Without
<1>2. CASE ~\A i \in DOMAIN map : map[i][1] # j
  <2> DEFINE own == CHOOSE i \in DOMAIN map : map[i][1] = j
             shorter == [i \in 1 .. Len(map) - 1 |-> IF i < own THEN map[i] ELSE map[i + 1]]
  <2>1. own \in DOMAIN map /\ Len(map) \in Nat /\ DOMAIN map = 1 .. Len(map) /\ Len(map) - 1 \in Nat
    BY <1>2
  <2>2. Without(map, j) = shorter
    BY Zenon, <1>2 DEF Without
  <2> HIDE DEF own
  <2>3. \A i \in 1 .. Len(map) - 1 : \E k \in DOMAIN map : shorter[i] = map[k] /\ map[k] \in S
    BY <2>1
  <2>4. DOMAIN shorter = 1 .. Len(map) - 1
    BY Zenon
  <2>5. shorter \in [1 .. Len(map) - 1 -> S]
    BY <2>3
  <2> HIDE DEF shorter
  <2>6. shorter \in Seq(S)
    BY <2>1, <2>5
  <2> QED
    BY Zenon, <2>2, <2>3, <2>4, <2>6
<1> QED
  BY Zenon, <1>1, <1>2

\* The map gains at most the new entry.
LEMMA RemembersNew ==
  ASSUME NEW j \in Jobs, NEW m \in Failures, NEW map \in Seq(Jobs \X Failures)
  PROVE  /\ rememberFailure(map, j, m) \in Seq(Jobs \X Failures)
         /\ \A i \in DOMAIN rememberFailure(map, j, m) :
               \/ rememberFailure(map, j, m)[i] = <<j, m>>
               \/ \E k \in DOMAIN map : rememberFailure(map, j, m)[i] = map[k]
<1> DEFINE S == Jobs \X Failures
           shorter == Without(map, j)
           longer == Append(shorter, <<j, m>>)
<1>1. /\ shorter \in Seq(S)
      /\ \A i \in DOMAIN shorter : \E k \in DOMAIN map : shorter[i] = map[k]
  BY WithoutTakes
<1>1a. <<j, m>> \in S
  OBVIOUS
<1> HIDE DEF shorter, S
<1>2. longer \in Seq(S) /\ longer # << >>
  BY <1>1, <1>1a, AppendProperties
<1>3. \A i \in DOMAIN longer : longer[i] = <<j, m>> \/ \E k \in DOMAIN map : longer[i] = map[k]
  <2> SUFFICES ASSUME NEW i \in DOMAIN longer
               PROVE  longer[i] = <<j, m>> \/ \E k \in DOMAIN map : longer[i] = map[k]
    BY Zenon
  <2>1. longer[i] = <<j, m>> \/ (i \in DOMAIN shorter /\ longer[i] = shorter[i])
    BY <1>1, <1>1a, AppendProperties
  <2> HIDE DEF longer
  <2> QED
    BY Zenon, <2>1, <1>1
<1> HIDE DEF longer
<1>4. Tail(longer) \in Seq(S) /\ \A i \in DOMAIN Tail(longer) : i + 1 \in DOMAIN longer /\ Tail(longer)[i] = longer[i + 1]
  BY <1>2, HeadTailProperties
<1>5. rememberFailure(map, j, m) \in {longer, Tail(longer)}
  BY Zenon DEF rememberFailure, longer, shorter
<1> QED
  BY Zenon, <1>2, <1>3, <1>4, <1>5 DEF S

\* Only activity j moves, to new; what is remembered anew is the failure of its attempt.
Turns(j, new) ==
  /\ job' = [job EXCEPT ![j] = new] /\ new \in JobRecords /\ new.attempt >= job[j].attempt
  /\ mishap' \in {mishap, mishap \cup {j}} /\ final' \in {final, final \cup {j}}
  /\ unended' \subseteq Failures /\ \A span \in unended' : span \in unended \/ span[1] = j
  /\ lastFailure' \in [Hosts -> Seq(Jobs \X Failures)]
  /\ \A h \in Hosts : \A i \in DOMAIN lastFailure'[h] :
        \/ lastFailure'[h][i] = <<j, Attempt(j)>>
        \/ \E k \in DOMAIN lastFailure[h] : lastFailure'[h][i] = lastFailure[h][k]
  /\ new.at \in {"start", "body", "end"} =>
        lastFailure' = lastFailure /\ (new.attempt > job[j].attempt \/ job[j].at \in {"start", "body", "end"})

\* What then holds of the activity holds of all.
LEMMA TurnsKeep ==
  ASSUME WorkerIInv, NEW j \in Jobs, NEW new, Turns(j, new), AttemptKept(j)', FailureKept(j)'
  PROVE  WorkerIInv'
<1>1. /\ lastFailure \in [Hosts -> Seq(Jobs \X Failures)] /\ job \in [Jobs -> JobRecords]
      /\ \A t \in Jobs : Recalled(t) /\ AttemptKept(t) /\ FailureKept(t)
  BY Zenon DEF WorkerIInv, WorkerTypes
<1>2. WorkerTypes' /\ job'[j] = new /\ \A t \in Jobs \ {j} : job'[t] = job[t]
  BY Zenon, <1>1 DEF Turns, WorkerTypes
<1>3. \A t \in Jobs \ {j} : (t \in mishap <=> t \in mishap') /\ (t \in final <=> t \in final')
  BY Zenon DEF Turns
<1>4. /\ \A span \in unended' : span \in unended \/ span[1] = j
      /\ \A h \in Hosts : \A i \in DOMAIN lastFailure'[h] :
            \/ lastFailure'[h][i] = <<j, Attempt(j)>>
            \/ \E k \in DOMAIN lastFailure[h] : lastFailure'[h][i] = lastFailure[h][k]
  BY Zenon DEF Turns
<1>5. ASSUME NEW t \in Jobs \ {j}  PROVE Recalled(t)'
  <2> SUFFICES ASSUME NEW h \in Hosts, NEW i \in DOMAIN lastFailure'[h], lastFailure'[h][i][1] = t
               PROVE  /\ lastFailure'[h][i][2][1] = t /\ lastFailure'[h][i][2][2] <= job'[t].attempt
                      /\ job'[t].at \in {"start", "body", "end"} => lastFailure'[h][i][2][2] < job'[t].attempt
    BY Zenon DEF Recalled
  <2>1. PICK k \in DOMAIN lastFailure[h] : lastFailure'[h][i] = lastFailure[h][k]
    BY SMTT(20), <1>4, <1>5
  <2> QED
    BY <1>1, <1>2, <1>5, <2>1 DEF Recalled
<1>6. ASSUME NEW t \in Jobs \ {j}  PROVE AttemptKept(t)'
  BY <1>1, <1>2, <1>3, <1>4, <1>6 DEF AttemptKept, On
<1>7. ASSUME NEW t \in Jobs \ {j}  PROVE FailureKept(t)'
  BY Zenon, <1>1, <1>2, <1>3, <1>7 DEF FailureKept, Attempt
<1>8. Recalled(j)'
  <2> SUFFICES ASSUME NEW h \in Hosts, NEW i \in DOMAIN lastFailure'[h], lastFailure'[h][i][1] = j
               PROVE  /\ lastFailure'[h][i][2][1] = j /\ lastFailure'[h][i][2][2] <= new.attempt
                      /\ new.at \in {"start", "body", "end"} => lastFailure'[h][i][2][2] < new.attempt
    BY Zenon, <1>2 DEF Recalled
  <2>1. job[j].attempt \in Nat /\ new.attempt \in Nat /\ new.attempt >= job[j].attempt
    BY ZenonT(30), <1>1 DEF Turns, JobRecords
  <2>2. CASE new.at \in {"start", "body", "end"}
    <3>1. lastFailure' = lastFailure /\ (new.attempt > job[j].attempt \/ job[j].at \in {"start", "body", "end"})
      BY Zenon, <2>2 DEF Turns
    <3>2. /\ lastFailure[h][i][2][1] = j /\ lastFailure[h][i][2][2] <= job[j].attempt
          /\ job[j].at \in {"start", "body", "end"} => lastFailure[h][i][2][2] < job[j].attempt
      BY Zenon, <1>1, <3>1 DEF Recalled
    <3>3. lastFailure[h][i][2][2] \in Nat
      BY <1>1, <3>1 DEF Failures
    <3> QED
      BY <2>1, <3>1, <3>2, <3>3
  <2>3. CASE new.at \notin {"start", "body", "end"} /\ lastFailure'[h][i] = <<j, Attempt(j)>>
    BY <2>1, <2>3 DEF Attempt
  <2>4. CASE new.at \notin {"start", "body", "end"} /\ \E k \in DOMAIN lastFailure[h] : lastFailure'[h][i] = lastFailure[h][k]
    <3>1. PICK k \in DOMAIN lastFailure[h] : lastFailure'[h][i] = lastFailure[h][k]
      BY Zenon, <2>4
    <3>2. lastFailure[h][k][2][1] = j /\ lastFailure[h][k][2][2] <= job[j].attempt
      BY Zenon, <1>1, <3>1 DEF Recalled
    <3>3. lastFailure[h][k][2][2] \in Nat
      BY <1>1 DEF Failures
    <3> QED
      BY <2>1, <2>4, <3>1, <3>2, <3>3
  <2> QED
    BY Zenon, <1>4, <2>2, <2>3, <2>4
<1> QED
  BY Zenon, <1>2, <1>5, <1>6, <1>7, <1>8 DEF WorkerIInv

\* What the record of an activity holds.
LEMMA RecordHolds ==
  ASSUME WorkerIInv, NEW j \in Jobs
  PROVE  /\ lastFailure \in [Hosts -> Seq(Jobs \X Failures)] /\ job \in [Jobs -> JobRecords] /\ job[j] \in JobRecords
         /\ unended \subseteq Failures
         /\ Recalled(j) /\ AttemptKept(j) /\ FailureKept(j) /\ Attempt(j) \in Failures
<1>1. /\ lastFailure \in [Hosts -> Seq(Jobs \X Failures)] /\ job \in [Jobs -> JobRecords]
      /\ unended \subseteq Failures
      /\ Recalled(j) /\ AttemptKept(j) /\ FailureKept(j)
  BY Zenon DEF WorkerIInv, WorkerTypes
<1>2. job[j] \in JobRecords
  BY Zenon, <1>1
<1>3. Attempt(j) \in Failures
  BY <1>2 DEF JobRecords, Attempt, Failures
<1> QED
  BY Zenon, <1>1, <1>2, <1>3

\* Whatever else changes, what is remembered may stay.
LEMMA NothingForgotten ==
  ASSUME WorkerIInv, lastFailure' = lastFailure
  PROVE  /\ lastFailure' \in [Hosts -> Seq(Jobs \X Failures)]
         /\ \A h \in Hosts : \A i \in DOMAIN lastFailure'[h] : \E k \in DOMAIN lastFailure[h] : lastFailure'[h][i] = lastFailure[h][k]
  BY Zenon DEF WorkerIInv, WorkerTypes

\* An attempt that failed goes back to the server.
LEMMA FailingHolds ==
  ASSUME WorkerIInv, NEW j \in Jobs, NEW e \in Errors
  PROVE  LET new == Failing(j, e)
         IN  /\ new \in JobRecords /\ new.on = Nowhere /\ new.error = e /\ new.at \in {"failed", "pending"}
             /\ new.attempt = job[j].attempt /\ new.reason = job[j].reason /\ new.reply = job[j].reply
             /\ e[1].nonRetryable => new.at = "failed"
  BY Zenon, RecordHolds DEF Failing, JobRecords

\* The message of an attempt alone is a failure with one cause.
LEMMA PlainHolds ==
  ASSUME NEW m \in Failures
  PROVE  Plain(m) \in Errors /\ Len(Plain(m)) = 1 /\ Plain(m) # << >> /\ Plain(m)[1].message = m /\ Plain(m)[1].hint = NoHintMs
  BY DEF Plain, Cause, Causes, Errors, NoHintMs

\* An activity nobody has tried.
LEMMA UnstartedHolds == Unstarted \in JobRecords
<1>1. << >> \in Errors
  BY DEF Errors
<1>2. <<"none", 0>> \in Verdicts
  <2>1. "none" \in {"none", "fails", "waits", "quota exhausted", "backs off"} /\ 0 \in Int
    OBVIOUS
  <2> QED
    BY Zenon, <2>1 DEF Verdicts
<1>3. NoReply \in AnyReply
  BY DEF AnyReply
<1>4. {} \in AnyTags
  BY DEF AnyTags
<1>5. Nowhere \in Hosts \cup {Nowhere} /\ NoReason \in Failures \cup {NoReason} /\ 0 \in Nat
  OBVIOUS
<1> QED
  BY Zenon, <1>1, <1>2, <1>3, <1>4, <1>5 DEF JobRecords, Unstarted

\* A process gets an attempt.
LEMMA DispatchKeeps ==
  ASSUME WorkerIInv, NEW j \in Jobs, NEW h \in Hosts, Dispatch(j, h)
  PROVE  WorkerIInv'
<1> DEFINE n == job[j].attempt + 1
           why == IF n > 1 THEN Remembered(lastFailure[h], j) ELSE NoReason
           new == [Unstarted EXCEPT !.at = "start", !.attempt = n, !.on = h, !.reason = why]
<1>0. /\ lastFailure \in [Hosts -> Seq(Jobs \X Failures)] /\ job \in [Jobs -> JobRecords] /\ job[j] \in JobRecords
      /\ unended \subseteq Failures
      /\ Recalled(j) /\ AttemptKept(j) /\ FailureKept(j)
  BY Zenon, RecordHolds
<1>1. /\ job' = [job EXCEPT ![j] = new] /\ lastFailure' = lastFailure /\ unended' = unended /\ final' = final
      /\ mishap' = mishap /\ job[j].at = "pending"
  BY Zenon DEF Dispatch, NoMishap
<1>2. job[j].attempt \in Nat /\ n \in Nat /\ n > job[j].attempt /\ n >= job[j].attempt
  BY <1>0 DEF JobRecords
<1>3. why # NoReason => why \in Failures /\ why[1] = j /\ why[2] < n
  <2> SUFFICES ASSUME why # NoReason PROVE why \in Failures /\ why[1] = j /\ why[2] < n
    BY Zenon
  <2>1. why = Remembered(lastFailure[h], j) /\ Remembered(lastFailure[h], j) # NoReason
    BY Zenon
  <2> HIDE DEF why
  <2>2. PICK i \in DOMAIN lastFailure[h] : lastFailure[h][i][1] = j /\ why = lastFailure[h][i][2]
    BY Zenon, <2>1 DEF Remembered
  <2>3. why[1] = j /\ why[2] <= job[j].attempt
    BY Zenon, <1>0, <2>2 DEF Recalled
  <2>4. why \in Failures /\ why[2] \in Nat
    BY <1>0, <2>2 DEF Failures
  <2> QED
    BY <1>2, <2>3, <2>4
<1> HIDE DEF why
<1> HIDE DEF n
<1>4. new.at = "start" /\ new.attempt = n /\ new.on = h /\ new.reason = why
  BY Zenon DEF Unstarted
<1>5. new \in JobRecords
  <2>1. why \in Failures \cup {NoReason}
    BY Zenon, <1>3
  <2> QED
    BY Zenon, <1>2, <2>1, UnstartedHolds DEF JobRecords, InProcess
<1> HIDE DEF new
<1>6. Turns(j, new)
  BY Zenon, <1>0, <1>1, <1>2, <1>4, <1>5, NothingForgotten DEF Turns
<1>7. job'[j] = new /\ On(j)' = h /\ h # Nowhere
  BY Zenon, <1>0, <1>1, <1>4, WorkerAssumption DEF On, Nowhere
<1>8. On(j) = Nowhere
  BY <1>0, <1>1 DEF AttemptKept, InProcess
<1>9. AttemptKept(j)'
  BY Zenon, <1>0, <1>1, <1>3, <1>4, <1>7, <1>8 DEF AttemptKept, InProcess
<1>10. FailureKept(j)'
  BY <1>4, <1>7 DEF FailureKept
<1> QED
  BY Zenon, <1>6, <1>9, <1>10, TurnsKeep

\* An attempt fails in the hands of its process, something having gone wrong
\* around it or the failure being the one it remembers.
LEMMA FailingKeeps ==
  ASSUME WorkerIInv, NEW j \in Jobs, NEW e \in Errors, job[j].at \in InProcess,
         job' = [job EXCEPT ![j] = Failing(j, e)], lastFailure' = lastFailure, final' = final,
         \/ mishap' = mishap \cup {j} /\ unended' = unended
         \/ mishap' = mishap /\ unended' = unended \ {Attempt(j)} /\ job[j].at = "error" /\ e = job[j].error
  PROVE  WorkerIInv'
<1> DEFINE new == Failing(j, e)
<1>0. /\ lastFailure \in [Hosts -> Seq(Jobs \X Failures)] /\ job \in [Jobs -> JobRecords] /\ job[j] \in JobRecords
      /\ unended \subseteq Failures
      /\ Recalled(j) /\ AttemptKept(j) /\ FailureKept(j) /\ Attempt(j) \in Failures
  BY Zenon, RecordHolds
<1>1. /\ new \in JobRecords /\ new.on = Nowhere /\ new.error = e /\ new.at \in {"failed", "pending"}
      /\ new.attempt = job[j].attempt /\ new.reason = job[j].reason /\ new.reply = job[j].reply
      /\ e[1].nonRetryable => new.at = "failed"
  BY Zenon, FailingHolds
<1> HIDE DEF new
<1>2. new.attempt >= job[j].attempt /\ new.at \notin {"start", "body", "end"} /\ new.at \notin InProcess /\ new.at # "caught"
  BY <1>0, <1>1 DEF JobRecords, InProcess
<1>3. job'[j] = new /\ job' = [job EXCEPT ![j] = new]
  BY Zenon, <1>0 DEF new
<1>4. Turns(j, new)
  <2>1. mishap' \in {mishap, mishap \cup {j}} /\ unended' \subseteq unended /\ final' \in {final, final \cup {j}}
    BY Zenon
  <2> QED
    BY Zenon, <1>0, <1>1, <1>2, <1>3, <2>1, NothingForgotten DEF Turns
<1>5. \A span \in unended' : span[1] = j /\ j \notin mishap' => FALSE
  <2> SUFFICES ASSUME NEW span \in unended', span[1] = j, j \notin mishap' PROVE FALSE
    BY Zenon
  <2>1. unended' = unended \ {Attempt(j)} /\ j \notin mishap
    BY Zenon
  <2>2. span \in unended /\ span # <<j, job[j].attempt>> /\ span[2] = job[j].attempt
    BY Zenon, <1>0, <2>1 DEF AttemptKept, Attempt
  <2>3. span \in Jobs \X Nat
    BY Zenon, <1>0, <2>2 DEF Failures
  <2> QED
    BY <2>2, <2>3
<1>6. AttemptKept(j)'
  <2>1. /\ new.at \in InProcess <=> On(j)' # Nowhere
        /\ new.reason # NoReason => /\ new.reason[1] = j
                                    /\ new.at \in {"start", "body"} => new.reason[2] < new.attempt
    BY Zenon, <1>0, <1>1, <1>2, <1>3 DEF AttemptKept, On
  <2>2. j \notin mishap' /\ j \in final' => new.at = "failed"
    BY Zenon, <1>0, <1>1 DEF AttemptKept
  <2> QED
    BY Zenon, <1>1, <1>2, <1>3, <1>5, <2>1, <2>2 DEF AttemptKept
<1>7. FailureKept(j)'
  BY Zenon, <1>0, <1>1, <1>2, <1>3 DEF FailureKept, Attempt
<1> QED
  BY Zenon, <1>4, <1>6, <1>7, TurnsKeep

\* The interceptor opens the span, or its sink throws.
LEMMA SpanKeeps ==
  ASSUME WorkerIInv, NEW j \in Jobs, Start(j)
  PROVE  WorkerIInv'
<1>0. /\ lastFailure \in [Hosts -> Seq(Jobs \X Failures)] /\ job \in [Jobs -> JobRecords] /\ job[j] \in JobRecords
      /\ unended \subseteq Failures
      /\ Recalled(j) /\ AttemptKept(j) /\ FailureKept(j) /\ Attempt(j) \in Failures
  BY Zenon, RecordHolds
<1>1. job[j].at = "start" /\ lastFailure' = lastFailure /\ final' = final /\ job[j].at \in InProcess
  BY Zenon DEF Start, InProcess
<1>2. CASE Mishap({j}) /\ UNCHANGED unended /\ job' = [job EXCEPT ![j] = Failing(j, Plain(Attempt(j)))]
  <2>1. mishap' = mishap \cup {j} /\ unended' = unended
    BY Zenon, <1>2 DEF Mishap
  <2>2. Plain(Attempt(j)) \in Errors
    BY Zenon, <1>0, PlainHolds
  <2> QED
    BY Zenon, <1>1, <1>2, <2>1, <2>2, FailingKeeps
<1>3. CASE /\ NoMishap /\ unended' = unended \cup {Attempt(j)}
           /\ job' = [job EXCEPT ![j] = [@ EXCEPT !.at = "body", !.tags = compactCorrelation(Inputs[j])]]
  <2> DEFINE new == [job[j] EXCEPT !.at = "body", !.tags = compactCorrelation(Inputs[j])]
  <2>1. compactCorrelation(Inputs[j]) \in AnyTags
    BY Zenon DEF AnyTags
  <2>2. job' = [job EXCEPT ![j] = new] /\ job'[j] = new
    BY Zenon, <1>0, <1>3
  <2>3. /\ new \in JobRecords /\ new.at = "body" /\ new.attempt = job[j].attempt /\ new.on = job[j].on
        /\ new.reason = job[j].reason
    BY Zenon, <1>0, <2>1 DEF JobRecords, InProcess
  <2> HIDE DEF new
  <2>3a. new.attempt >= job[j].attempt
    BY <1>0, <2>3 DEF JobRecords
  <2>4. mishap' = mishap
    BY Zenon, <1>3 DEF NoMishap
  <2>5. \A span \in unended' : span \in unended \/ span = <<j, job[j].attempt>>
    BY Zenon, <1>3 DEF Attempt
  <2>5a. unended' \subseteq Failures
    BY Zenon, <1>0, <1>3
  <2>6. \A span \in unended' : (span \in unended \/ span[1] = j) /\ (span \in unended \/ span[2] = job[j].attempt)
    BY <2>5
  <2>7. Turns(j, new)
    BY Zenon, <1>0, <1>1, <2>3a, <2>5a, <2>2, <2>3, <2>4, <2>6, NothingForgotten DEF Turns
  <2>8. On(j) # Nowhere /\ On(j)' # Nowhere
    BY Zenon, <1>0, <1>1, <2>2, <2>3 DEF AttemptKept, On
  <2>9. AttemptKept(j)'
    BY ZenonT(30), <1>0, <1>1, <2>2, <2>3, <2>4, <2>6, <2>8 DEF AttemptKept, InProcess
  <2>10. FailureKept(j)'
    BY <2>2, <2>3 DEF FailureKept
  <2> QED
    BY Zenon, <2>7, <2>9, <2>10, TurnsKeep
<1> QED
  BY Zenon, <1>2, <1>3 DEF Start

\* An attempt in a process is in one there is.
LEMMA Hosted ==
  ASSUME WorkerIInv, NEW j \in Jobs, job[j].at \in InProcess
  PROVE  On(j) \in Hosts /\ On(j) # Nowhere
<1>1. job[j] \in JobRecords /\ AttemptKept(j)
  BY Zenon, RecordHolds
<1>2. job[j].on \in Hosts \cup {Nowhere}
  BY Zenon, <1>1 DEF JobRecords
<1> QED
  BY Zenon, <1>1, <1>2 DEF AttemptKept, On

\* What a process remembers of j may change, but only by the failure of its attempt.
LEMMA MapChanges ==
  ASSUME WorkerIInv, NEW j \in Jobs, job[j].at \in InProcess, NEW map,
         map \in {Without(lastFailure[On(j)], j), rememberFailure(lastFailure[On(j)], j, Attempt(j))},
         lastFailure' = [lastFailure EXCEPT ![On(j)] = map]
  PROVE  /\ lastFailure' \in [Hosts -> Seq(Jobs \X Failures)]
         /\ \A h \in Hosts : \A i \in DOMAIN lastFailure'[h] :
               \/ lastFailure'[h][i] = <<j, Attempt(j)>>
               \/ \E k \in DOMAIN lastFailure[h] : lastFailure'[h][i] = lastFailure[h][k]
<1>1. lastFailure \in [Hosts -> Seq(Jobs \X Failures)] /\ Attempt(j) \in Failures /\ On(j) \in Hosts
  BY Zenon, RecordHolds, Hosted
<1>2. lastFailure[On(j)] \in Seq(Jobs \X Failures) /\ <<j, Attempt(j)>> \in Jobs \X Failures
  BY Zenon, <1>1
<1>3. /\ map \in Seq(Jobs \X Failures)
      /\ \A i \in DOMAIN map : map[i] = <<j, Attempt(j)>> \/ \E k \in DOMAIN lastFailure[On(j)] : map[i] = lastFailure[On(j)][k]
  <2>1. CASE map = Without(lastFailure[On(j)], j)
    BY <1>2, <2>1, WithoutTakes
  <2>2. CASE map = rememberFailure(lastFailure[On(j)], j, Attempt(j))
    BY <1>2, <2>2, RemembersNew
  <2> QED
    BY Zenon, <2>1, <2>2
<1>4. \A h \in Hosts : lastFailure'[h] = IF h = On(j) THEN map ELSE lastFailure[h]
  BY Zenon, <1>1
<1>5. \A h \in Hosts : lastFailure'[h] \in Seq(Jobs \X Failures)
  BY Zenon, <1>1, <1>3, <1>4
<1>6. ASSUME NEW h \in Hosts, NEW i \in DOMAIN lastFailure'[h]
      PROVE  \/ lastFailure'[h][i] = <<j, Attempt(j)>>
             \/ \E k \in DOMAIN lastFailure[h] : lastFailure'[h][i] = lastFailure[h][k]
  <2>1. CASE h = On(j)
    <3>1. lastFailure'[h] = map
      BY Zenon, <1>4, <2>1
    <3> QED
      BY <1>3, <2>1, <3>1
  <2>2. CASE h # On(j)
    BY Zenon, <1>4, <2>2
  <2> QED
    BY Zenon, <2>1, <2>2
<1>7. lastFailure' \in [Hosts -> Seq(Jobs \X Failures)]
  BY Zenon, <1>1, <1>5
<1> QED
  BY Zenon, <1>6, <1>7

\* The catch of the interceptor: the failure is remembered, or forgotten with the last attempt.
LEMMA CaughtKeeps ==
  ASSUME WorkerIInv, NEW j \in Jobs, NEW e \in Errors, NEW reply \in AnyReply, job[j].at \in InProcess,
         Len(e) = 1, e # << >>, e[1].message = Attempt(j), Caught(j, e, reply), unended' = unended,
         \/ mishap' = mishap \cup {j} /\ final' = final
         \/ /\ mishap' = mishap /\ job[j].at = "body" /\ reply \in Replies[j]
            /\ e = TurnError(Inputs[j], reply, Attempt(j))
            /\ final' = final \/ (final' = final \cup {j} /\ e[1].nonRetryable)
  PROVE  WorkerIInv'
<1> DEFINE new == [job[j] EXCEPT !.at = "error", !.reason = Attempt(j), !.error = e, !.reply = reply]
<1>0. /\ lastFailure \in [Hosts -> Seq(Jobs \X Failures)] /\ job \in [Jobs -> JobRecords] /\ job[j] \in JobRecords
      /\ unended \subseteq Failures
      /\ Recalled(j) /\ AttemptKept(j) /\ FailureKept(j) /\ Attempt(j) \in Failures
  BY Zenon, RecordHolds
<1>1. rootCauseMessage(e) = Attempt(j)
  BY Zenon DEF rootCauseMessage
<1>2. job' = [job EXCEPT ![j] = new] /\ job'[j] = new
  BY Zenon, <1>0, <1>1 DEF Caught
<1>3. /\ new \in JobRecords /\ new.at = "error" /\ new.attempt = job[j].attempt /\ new.on = job[j].on
      /\ new.reason = Attempt(j) /\ new.error = e /\ new.reply = reply
  <2>1. new = [job[j] EXCEPT !.at = "error", !.reason = Attempt(j), !.error = e, !.reply = reply]
    BY Zenon
  <2> HIDE DEF new
  <2> QED
    BY Zenon, <1>0, <2>1 DEF JobRecords, InProcess
<1> HIDE DEF new
<1>4. new.attempt >= job[j].attempt /\ e # << >>
  <2>1. job[j].attempt \in Nat
    BY Zenon, <1>0 DEF JobRecords
  <2> QED
    BY <1>3, <2>1
<1>5. /\ lastFailure' \in [Hosts -> Seq(Jobs \X Failures)]
      /\ \A h \in Hosts : \A i \in DOMAIN lastFailure'[h] :
            \/ lastFailure'[h][i] = <<j, Attempt(j)>>
            \/ \E k \in DOMAIN lastFailure[h] : lastFailure'[h][i] = lastFailure[h][k]
  <2> DEFINE map == IF knowsMax /\ job[j].attempt >= MaxTries THEN Without(lastFailure[On(j)], j)
                    ELSE rememberFailure(lastFailure[On(j)], j, Attempt(j))
  <2>1. lastFailure' = [lastFailure EXCEPT ![On(j)] = map]
    BY Zenon, <1>1 DEF Caught
  <2>2. map \in {Without(lastFailure[On(j)], j), rememberFailure(lastFailure[On(j)], j, Attempt(j))}
    BY Zenon
  <2> HIDE DEF map
  <2> QED
    BY Zenon, <2>1, <2>2, MapChanges
<1>6. Turns(j, new)
  <2>1. mishap' \in {mishap, mishap \cup {j}} /\ final' \in {final, final \cup {j}}
    BY Zenon
  <2>2. new.at \notin {"start", "body", "end"}
    BY Zenon, <1>3
  <2> QED
    BY Zenon, <1>0, <1>2, <1>3, <1>4, <1>5, <2>1, <2>2 DEF Turns
<1>7. On(j)' # Nowhere /\ On(j) # Nowhere
  BY Zenon, <1>2, <1>3, Hosted DEF On
<1>8. new.reason[1] = j
  BY <1>3 DEF Attempt
<1>9. j \notin mishap' /\ j \in final' => e[1].nonRetryable
  <2> SUFFICES ASSUME j \notin mishap', j \in final' PROVE e[1].nonRetryable
    BY Zenon
  <2>1. /\ mishap' = mishap /\ job[j].at = "body"
        /\ final' = final \/ (final' = final \cup {j} /\ e[1].nonRetryable)
    BY Zenon
  <2>2. j \notin final
    BY Zenon, <1>0, <2>1 DEF AttemptKept
  <2> QED
    BY Zenon, <2>1, <2>2
<1>10. AttemptKept(j)'
  BY Zenon, <1>0, <1>2, <1>3, <1>7, <1>8, <1>9 DEF AttemptKept, InProcess
<1>11. FailureKept(j)'
  <2>1. Attempt(j)' = Attempt(j)
    BY Zenon, <1>2, <1>3 DEF Attempt
  <2> QED
    BY Zenon, <1>2, <1>3, <1>4, <2>1 DEF FailureKept
<1> QED
  BY Zenon, <1>6, <1>10, <1>11, TurnsKeep

\* The turn returns or throws.
LEMMA RunTurnKeeps ==
  ASSUME WorkerIInv, NEW j \in Jobs, NEW reply \in Replies[j], RunTurn(j, reply)
  PROVE  WorkerIInv'
<1> DEFINE e == TurnError(Inputs[j], reply, Attempt(j))
<1>0. /\ lastFailure \in [Hosts -> Seq(Jobs \X Failures)] /\ job \in [Jobs -> JobRecords] /\ job[j] \in JobRecords
      /\ unended \subseteq Failures
      /\ Recalled(j) /\ AttemptKept(j) /\ FailureKept(j) /\ Attempt(j) \in Failures
  BY Zenon, RecordHolds
<1>1. /\ job[j].at = "body" /\ mishap' = mishap /\ unended' = unended /\ job[j].at \in InProcess
      /\ final' = IF e = << >> \/ isNonRetryableFailure(e) THEN final \cup {j} ELSE final
      /\ IF e = << >> THEN job' = [job EXCEPT ![j] = [@ EXCEPT !.at = "end", !.reply = reply]] /\ lastFailure' = lastFailure
         ELSE Caught(j, e, reply)
  BY Zenon DEF RunTurn, NoMishap, InProcess
<1>2. reply \in AnyReply
  BY DEF AnyReply
<1>3. CASE e = << >>
  <2> DEFINE new == [job[j] EXCEPT !.at = "end", !.reply = reply]
  <2>1. job' = [job EXCEPT ![j] = new] /\ job'[j] = new
    BY Zenon, <1>0, <1>1, <1>3
  <2>2. /\ new \in JobRecords /\ new.at = "end" /\ new.attempt = job[j].attempt /\ new.on = job[j].on
        /\ new.reason = job[j].reason
    BY ZenonT(30), <1>0, <1>2 DEF JobRecords, InProcess
  <2> HIDE DEF new
  <2>3. new.attempt >= job[j].attempt
    BY <1>0, <2>2 DEF JobRecords
  <2>4. lastFailure' = lastFailure /\ final' = final \cup {j}
    BY Zenon, <1>1, <1>3
  <2>5. Turns(j, new)
    BY Zenon, <1>0, <1>1, <2>1, <2>2, <2>3, <2>4, NothingForgotten DEF Turns
  <2>6. On(j)' = On(j) /\ On(j) # Nowhere
    BY Zenon, <1>1, <2>1, <2>2, Hosted DEF On
  <2>7. AttemptKept(j)'
    BY Zenon, <1>0, <1>1, <2>1, <2>2, <2>4, <2>6 DEF AttemptKept, InProcess
  <2>8. FailureKept(j)'
    BY Zenon, <2>1, <2>2 DEF FailureKept
  <2> QED
    BY Zenon, <2>5, <2>7, <2>8, TurnsKeep
<1>4. CASE e # << >>
  <2>1. PICK b \in BOOLEAN, h \in Int : e = <<Cause(Attempt(j), b, h)>>
    BY Zenon, <1>0, <1>4, ThrownIsOne
  <2>2. e = TurnError(Inputs[j], reply, Attempt(j))
    BY ZenonT(30)
  <2> HIDE DEF e
  <2>3. /\ e \in Errors /\ Len(e) = 1 /\ DOMAIN e = {1} /\ e[1].message = Attempt(j)
    BY <1>0, <2>1, OneCause
  <2>4. final' = final \/ (final' = final \cup {j} /\ e[1].nonRetryable)
    BY Zenon, <1>1, <1>4, <2>3 DEF isNonRetryableFailure
  <2>5. Caught(j, e, reply)
    BY Zenon, <1>1, <1>4
  <2> QED
    BY Zenon, <1>1, <1>2, <1>4, <2>2, <2>3, <2>4, <2>5, CaughtKeeps
<1> QED
  BY Zenon, <1>3, <1>4

\* The end span closes the attempt, or its sink throws.
LEMMA EmitEndKeeps ==
  ASSUME WorkerIInv, NEW j \in Jobs, EmitEnd(j)
  PROVE  WorkerIInv'
<1>0. /\ lastFailure \in [Hosts -> Seq(Jobs \X Failures)] /\ job \in [Jobs -> JobRecords] /\ job[j] \in JobRecords
      /\ unended \subseteq Failures
      /\ Recalled(j) /\ AttemptKept(j) /\ FailureKept(j) /\ Attempt(j) \in Failures
  BY Zenon, RecordHolds
<1>1. job[j].at = "end" /\ job[j].at \in InProcess /\ final' = final
  BY Zenon DEF EmitEnd, InProcess
<1>2. CASE Mishap({j}) /\ Caught(j, Plain(Attempt(j)), job[j].reply) /\ UNCHANGED unended
  <2>1. mishap' = mishap \cup {j} /\ unended' = unended /\ Caught(j, Plain(Attempt(j)), job[j].reply)
    BY Zenon, <1>2 DEF Mishap
  <2>2. job[j].reply \in AnyReply
    BY Zenon, <1>0 DEF JobRecords
  <2>3. /\ Plain(Attempt(j)) \in Errors /\ Len(Plain(Attempt(j))) = 1 /\ Plain(Attempt(j)) # << >>
        /\ Plain(Attempt(j))[1].message = Attempt(j)
    BY Zenon, <1>0, PlainHolds
  <2> QED
    BY Zenon, <1>1, <2>1, <2>2, <2>3, CaughtKeeps
<1>3. CASE /\ NoMishap /\ unended' = unended \ {Attempt(j)}
           /\ job' = [job EXCEPT ![j] = [@ EXCEPT !.at = "done", !.on = Nowhere]]
           /\ lastFailure' = [lastFailure EXCEPT ![On(j)] = Without(@, j)]
  <2> DEFINE new == [job[j] EXCEPT !.at = "done", !.on = Nowhere]
  <2>1. job' = [job EXCEPT ![j] = new] /\ job'[j] = new /\ mishap' = mishap
    BY Zenon, <1>0, <1>3 DEF NoMishap
  <2>2. /\ new \in JobRecords /\ new.at = "done" /\ new.attempt = job[j].attempt /\ new.on = Nowhere
        /\ new.reason = job[j].reason
    BY Zenon, <1>0 DEF JobRecords, InProcess
  <2> HIDE DEF new
  <2>3. new.attempt >= job[j].attempt
    BY <1>0, <2>2 DEF JobRecords
  <2>4. On(j) \in Hosts
    BY Zenon, <1>1, Hosted
  <2>5. lastFailure' = [lastFailure EXCEPT ![On(j)] = Without(lastFailure[On(j)], j)]
    BY Zenon, <1>0, <1>3, <2>4
  <2>6. /\ lastFailure' \in [Hosts -> Seq(Jobs \X Failures)]
        /\ \A h \in Hosts : \A i \in DOMAIN lastFailure'[h] :
              \/ lastFailure'[h][i] = <<j, Attempt(j)>>
              \/ \E k \in DOMAIN lastFailure[h] : lastFailure'[h][i] = lastFailure[h][k]
    BY Zenon, <1>1, <2>5, MapChanges
  <2>7. unended' \subseteq unended
    BY Zenon, <1>3
  <2>8. Turns(j, new)
    BY Zenon, <1>0, <1>1, <2>1, <2>2, <2>3, <2>6, <2>7 DEF Turns
  <2>9. ASSUME NEW span \in unended', span[1] = j, j \notin mishap' PROVE FALSE
    <3>1. span \in unended /\ span # <<j, job[j].attempt>> /\ span[2] = job[j].attempt
      BY Zenon, <1>0, <1>3, <2>1, <2>9 DEF AttemptKept, Attempt
    <3>2. span \in Jobs \X Nat
      BY Zenon, <1>0, <3>1 DEF Failures
    <3> QED
      BY <2>9, <3>1, <3>2
  <2>10. On(j)' = Nowhere
    BY Zenon, <2>1, <2>2 DEF On
  <2>11. AttemptKept(j)'
    BY Zenon, <1>0, <2>1, <2>2, <2>9, <2>10 DEF AttemptKept, InProcess
  <2>12. FailureKept(j)'
    BY Zenon, <2>1, <2>2 DEF FailureKept
  <2> QED
    BY Zenon, <2>8, <2>11, <2>12, TurnsKeep
<1> QED
  BY Zenon, <1>2, <1>3 DEF EmitEnd

\* The error span closes the attempt, or its sink throws.
LEMMA EmitErrorKeeps ==
  ASSUME WorkerIInv, NEW j \in Jobs, EmitError(j)
  PROVE  WorkerIInv'
<1>0. /\ lastFailure \in [Hosts -> Seq(Jobs \X Failures)] /\ job \in [Jobs -> JobRecords] /\ job[j] \in JobRecords
      /\ unended \subseteq Failures
      /\ Recalled(j) /\ AttemptKept(j) /\ FailureKept(j) /\ Attempt(j) \in Failures
  BY Zenon, RecordHolds
<1>1. job[j].at = "error" /\ job[j].at \in InProcess /\ final' = final /\ lastFailure' = lastFailure
  BY Zenon DEF EmitError, InProcess
<1>2. CASE Mishap({j}) /\ UNCHANGED unended /\ job' = [job EXCEPT ![j] = Failing(j, Plain(Attempt(j)))]
  <2>1. mishap' = mishap \cup {j} /\ unended' = unended
    BY Zenon, <1>2 DEF Mishap
  <2>2. Plain(Attempt(j)) \in Errors
    BY Zenon, <1>0, PlainHolds
  <2> QED
    BY Zenon, <1>1, <1>2, <2>1, <2>2, FailingKeeps
<1>3. CASE NoMishap /\ unended' = unended \ {Attempt(j)} /\ job' = [job EXCEPT ![j] = Failing(j, job[j].error)]
  <2>1. mishap' = mishap
    BY Zenon, <1>3 DEF NoMishap
  <2>2. job[j].error \in Errors
    BY Zenon, <1>0 DEF JobRecords
  <2> QED
    BY Zenon, <1>1, <1>3, <2>1, <2>2, FailingKeeps
<1> QED
  BY Zenon, <1>2, <1>3 DEF EmitError

\* The failure the workflow gets, around one that has at most one cause, has its
\* hint and is for good if that is.
LEMMA WrappedHint ==
  ASSUME NEW m \in Failures, NEW e \in Errors, NEW f, f = Plain(m) \o e
  PROVE  /\ e # << >> => retryAfterMsFromError(f) = e[1].hint /\ (isNonRetryableFailure(f) <=> e[1].nonRetryable)
         /\ retryAfterMsFromError(f) \in Int
<1>0. NoHintMs \in Int
  BY DEF NoHintMs
<1>w. /\ e = << >> => DOMAIN f = {1}
      /\ e # << >> => DOMAIN f = {1, 2} /\ DOMAIN e = {1} /\ f[2] = e[1] /\ e[1] \in Causes
      /\ f[1].nonRetryable = FALSE /\ f[1].hint = NoHintMs
  BY DEF Plain, Cause, Errors
<1> DEFINE hinted == {i \in DOMAIN f : f[i].hint # NoHintMs}
           first == CHOOSE i \in hinted : \A k \in hinted : i <= k
<1>1. retryAfterMsFromError(f) = IF hinted = {} THEN NoHintMs ELSE f[first].hint
  BY Zenon DEF retryAfterMsFromError
<1>2. CASE e = << >>
  <2>1. DOMAIN f = {1} /\ f[1].hint = NoHintMs
    BY Zenon, <1>2, <1>w
  <2>2. hinted = {}
    BY Zenon, <2>1
  <2> QED
    BY Zenon, <1>0, <1>1, <1>2, <2>2
<1>3. CASE e # << >>
  <2>1. DOMAIN f = {1, 2} /\ f[2] = e[1] /\ f[1].nonRetryable = FALSE /\ f[1].hint = NoHintMs /\ e[1] \in Causes
    BY Zenon, <1>3, <1>w
  <2>2. isNonRetryableFailure(f) <=> e[1].nonRetryable
    BY Zenon, <2>1 DEF isNonRetryableFailure
  <2>3. e[1].hint \in Int
    BY Zenon, <2>1 DEF Causes
  <2>4. CASE e[1].hint = NoHintMs
    <3>1. hinted = {}
      BY Zenon, <2>1, <2>4
    <3> QED
      BY Zenon, <1>0, <1>1, <1>3, <2>2, <2>4, <3>1
  <2>5. CASE e[1].hint # NoHintMs
    <3>1. hinted = {2}
      BY Zenon, <2>1, <2>5
    <3> HIDE DEF hinted
    <3>2. 2 \in hinted /\ \A k \in hinted : 2 <= k
      BY <3>1
    <3>3. first \in hinted
      BY Zenon, <3>2
    <3> HIDE DEF first
    <3>4. first = 2
      BY Zenon, <3>1, <3>3
    <3> QED
      BY Zenon, <1>1, <1>3, <2>1, <2>2, <2>3, <3>1, <3>4
  <2> QED
    BY Zenon, <2>4, <2>5
<1> QED
  BY Zenon, <1>2, <1>3

\* A verdict is a pair.
LEMMA VerdictPair ==
  ASSUME NEW x \in {"none", "fails", "waits", "quota exhausted", "backs off"}, NEW n \in Int, NEW v, v = <<x, n>>
  PROVE  v \in Verdicts /\ v[1] = x /\ v[2] = n
<1>1. v \in Verdicts
  BY Zenon DEF Verdicts
<1>2. v[1] = x /\ v[2] = n
  BY Zenon
<1> QED
  BY Zenon, <1>1, <1>2

\* The workflow fails for good, waits for the hint, or does neither.
LEMMA VerdictIsOne ==
  ASSUME NEW f, retryAfterMsFromError(f) \in Int
  PROVE  LET raw == retryAfterMsFromError(f)
             v == VerdictOn(f)
             usable == ~isNonRetryableFailure(f) /\ raw > 0 /\ raw <= MAX_PARK_HINT
         IN  /\ v \in Verdicts /\ (v[1] = "fails" <=> isNonRetryableFailure(f))
             /\ (v[1] = "waits" <=> usable) /\ (usable => v[2] = raw)
<1> DEFINE raw == retryAfterMsFromError(f)
           v == VerdictOn(f)
           lost == isNonRetryableFailure(f)
<1>0. 0 \in Int
  OBVIOUS
<1>1. CASE lost
  <2>1. v = <<"fails", 0>>
    BY Zenon, <1>1 DEF VerdictOn
  <2> HIDE DEF v, lost
  <2>2. v \in Verdicts /\ v[1] = "fails"
    BY Zenon, <1>0, <2>1, VerdictPair
  <2> QED
    BY Zenon, <1>1, <2>2 DEF v, lost
<1>2. CASE ~lost /\ raw > 0 /\ raw <= MAX_PARK_HINT
  <2>1. ~(raw > MAX_PARK_HINT)
    BY <1>2 DEF MAX_PARK_HINT
  <2>2. v = <<"waits", raw>>
    BY Zenon, <1>2, <2>1 DEF VerdictOn
  <2> HIDE DEF v, lost, raw
  <2>3. v \in Verdicts /\ v[1] = "waits" /\ v[2] = raw
    BY Zenon, <2>2, VerdictPair DEF raw
  <2> QED
    BY Zenon, <1>2, <2>3 DEF v, lost, raw
<1>3. CASE ~lost /\ ~(raw > 0 /\ raw <= MAX_PARK_HINT)
  <2>1. v = <<"quota exhausted", 0>> \/ v = <<"backs off", 0>>
    BY Zenon, <1>3 DEF VerdictOn
  <2> HIDE DEF v, lost
  <2>2. v \in Verdicts /\ v[1] # "fails" /\ v[1] # "waits"
    BY Zenon, <1>0, <2>1, VerdictPair
  <2> QED
    BY Zenon, <1>3, <2>2 DEF v, lost
<1> QED
  BY Zenon, <1>1, <1>2, <1>3

\* For a failure the reply calls for, that is what the reply calls for.
LEMMA VerdictBefits ==
  ASSUME NEW j \in Jobs, NEW reply \in Replies[j], NEW m \in Failures, RungAllowed(Inputs[j]),
         TurnError(Inputs[j], reply, m) # << >>
  PROVE  Befits(VerdictOn(Plain(m) \o TurnError(Inputs[j], reply, m)), reply)
<1> DEFINE e == TurnError(Inputs[j], reply, m)
           f == Plain(m) \o e
           hint == parseRetryHintMs(reply.headers)
           busy == reply.status \in {429, 503}
           lost == reply.status \in PERMANENT_HTTP_STATUSES
<1>1. PICK b \in BOOLEAN, h \in Int : e = <<Cause(m, b, h)>>
  BY Zenon, ThrownIsOne
<1>2. hint \in Int
  BY Zenon, HintIsInt
<1>3. ~(busy /\ lost) /\ (busy => reply.status # 200) /\ (lost => reply.status # 200)
  BY DEF PERMANENT_HTTP_STATUSES
<1>4. e = IF lost THEN <<Cause(m, TRUE, NoHintMs)>> ELSE IF busy THEN <<Cause(m, FALSE, hint)>> ELSE Plain(m)
  <2>1. CASE lost
    BY ZenonT(30), <1>3, <2>1 DEF TurnError, toTemporalError
  <2>2. CASE ~lost /\ busy
    BY ZenonT(30), <1>3, <2>2 DEF TurnError, toTemporalError
  <2>3. CASE ~lost /\ ~busy
    <3>1. toTemporalError(reply, m) = Plain(m)
      BY ZenonT(30), <2>3 DEF toTemporalError
    <3>2. e = Plain(m)
      BY Zenon, <3>1 DEF TurnError
    <3> QED
      BY ZenonT(30), <2>3, <3>2
  <2> QED
    BY Zenon, <2>1, <2>2, <2>3
<1> HIDE DEF e, hint, busy, lost
<1>5. e \in Errors /\ e # << >>
  BY <1>1, OneCause
<1>6. /\ retryAfterMsFromError(f) = e[1].hint /\ (isNonRetryableFailure(f) <=> e[1].nonRetryable)
      /\ retryAfterMsFromError(f) \in Int
  BY Zenon, <1>5, WrappedHint
<1> HIDE DEF f
<1>7. (e[1].nonRetryable <=> lost) /\ e[1].hint = IF busy THEN hint ELSE NoHintMs
  BY <1>2, <1>3, <1>4 DEF Cause, Plain
<1>8. ~(NoHintMs > 0)
  BY DEF NoHintMs
<1>9. LET v == VerdictOn(f)
          usable == ~isNonRetryableFailure(f) /\ e[1].hint > 0 /\ e[1].hint <= MAX_PARK_HINT
      IN  /\ (v[1] = "fails" <=> isNonRetryableFailure(f)) /\ (v[1] = "waits" <=> usable) /\ (usable => v[2] = e[1].hint)
  BY Zenon, <1>6, VerdictIsOne
<1>10. Befits(VerdictOn(f), reply)
  <2> DEFINE v == VerdictOn(f)
  <2> HIDE DEF v
  <2>1. /\ (v[1] = "fails" <=> lost) /\ (v[1] = "waits" <=> busy /\ hint > 0 /\ hint <= MAX_PARK_HINT)
        /\ busy /\ hint > 0 /\ hint <= MAX_PARK_HINT => v[2] = hint
    BY ZenonT(30), <1>3, <1>6, <1>7, <1>8, <1>9 DEF v
  <2> QED
    BY Zenon, <2>1 DEF Befits, busy, lost, hint, v
<1> QED
  BY Zenon, <1>10 DEF e, f

\* The workflow gets the failure.
LEMMA WorkflowCatchesKeeps ==
  ASSUME WorkerIInv, NEW j \in Jobs, WorkflowCatches(j)
  PROVE  WorkerIInv'
<1> DEFINE v == VerdictOn(Plain(Attempt(j)) \o job[j].error)
           new == [job[j] EXCEPT !.at = "caught", !.verdict = v]
<1>0. /\ lastFailure \in [Hosts -> Seq(Jobs \X Failures)] /\ job \in [Jobs -> JobRecords] /\ job[j] \in JobRecords
      /\ unended \subseteq Failures
      /\ Recalled(j) /\ AttemptKept(j) /\ FailureKept(j) /\ Attempt(j) \in Failures
  BY Zenon, RecordHolds
<1>1. job[j].at = "failed" /\ mishap' = mishap /\ unended' = unended /\ final' = final /\ lastFailure' = lastFailure
  BY Zenon DEF WorkflowCatches, NoMishap
<1>2. job' = [job EXCEPT ![j] = new] /\ job'[j] = new
  BY Zenon, <1>0 DEF WorkflowCatches
<1>3. v \in Verdicts
  <2>1. job[j].error \in Errors
    BY Zenon, <1>0 DEF JobRecords
  <2>2. retryAfterMsFromError(Plain(Attempt(j)) \o job[j].error) \in Int
    BY Zenon, <1>0, <2>1, WrappedHint
  <2> QED
    BY Zenon, <2>2, VerdictIsOne
<1>4. j \notin mishap /\ RungAllowed(Inputs[j]) => Befits(v, job[j].reply)
  BY Zenon, <1>0, <1>1, VerdictBefits DEF FailureKept
<1> HIDE DEF v
<1>5. /\ new \in JobRecords /\ new.at = "caught" /\ new.attempt = job[j].attempt /\ new.on = job[j].on
      /\ new.reason = job[j].reason /\ new.reply = job[j].reply /\ new.verdict = v
  BY Zenon, <1>0, <1>3 DEF JobRecords, InProcess
<1> HIDE DEF new
<1>6. new.attempt >= job[j].attempt
  BY <1>0, <1>5 DEF JobRecords
<1>7. Turns(j, new)
  BY Zenon, <1>0, <1>1, <1>2, <1>5, <1>6, NothingForgotten DEF Turns
<1>8. On(j)' = On(j) /\ On(j) = Nowhere
  BY Zenon, <1>0, <1>1, <1>2, <1>5 DEF AttemptKept, On, InProcess
<1>9. AttemptKept(j)'
  BY Zenon, <1>0, <1>1, <1>2, <1>5, <1>8 DEF AttemptKept, InProcess
<1>10. FailureKept(j)'
  BY Zenon, <1>1, <1>2, <1>4, <1>5 DEF FailureKept
<1> QED
  BY Zenon, <1>7, <1>9, <1>10, TurnsKeep

\* A process dies: its attempts fail, and the others go on.
LEMMA DiesKeeps ==
  ASSUME WorkerIInv, NEW h \in Hosts, Dies(h)
  PROVE  WorkerIInv'
<1>0. lastFailure \in [Hosts -> Seq(Jobs \X Failures)] /\ job \in [Jobs -> JobRecords] /\ unended \subseteq Failures
  BY Zenon DEF WorkerIInv, WorkerTypes
<1>1. /\ lastFailure' = lastFailure /\ unended' = unended /\ final' = final /\ mishap' = mishap \cup InFlightAt(h)
      /\ job' = [j \in Jobs |-> IF On(j) = h THEN Failing(j, Plain(Attempt(j))) ELSE job[j]]
  BY Zenon DEF Dies, Mishap
<1>2. ASSUME NEW j \in Jobs
      PROVE  job'[j] \in JobRecords /\ Recalled(j)' /\ AttemptKept(j)' /\ FailureKept(j)'
  <2>1. job[j] \in JobRecords /\ Recalled(j) /\ AttemptKept(j) /\ FailureKept(j) /\ Attempt(j) \in Failures
    BY Zenon, RecordHolds
  <2>2. CASE On(j) # h
    <3>1. job'[j] = job[j] /\ (j \in mishap' <=> j \in mishap)
      BY Zenon, <1>1, <2>2 DEF InFlightAt
    <3>2. Recalled(j)'
      BY Zenon, <1>1, <2>1, <3>1 DEF Recalled
    <3>3. AttemptKept(j)'
      BY Zenon, <1>1, <2>1, <3>1 DEF AttemptKept, On
    <3>4. FailureKept(j)'
      BY Zenon, <1>1, <2>1, <3>1 DEF FailureKept, Attempt
    <3> QED
      BY Zenon, <2>1, <3>1, <3>2, <3>3, <3>4
  <2>3. CASE On(j) = h
    <3> DEFINE new == Failing(j, Plain(Attempt(j)))
    <3>1. job'[j] = new /\ j \in mishap'
      BY Zenon, <1>1, <2>3 DEF InFlightAt
    <3>2. Plain(Attempt(j)) \in Errors
      BY Zenon, <2>1, PlainHolds
    <3>3. /\ new \in JobRecords /\ new.on = Nowhere /\ new.at \in {"failed", "pending"}
          /\ new.attempt = job[j].attempt /\ new.reason = job[j].reason
      BY Zenon, <3>2, FailingHolds
    <3> HIDE DEF new
    <3>4. new.at \notin {"start", "body", "end"} /\ new.at \notin InProcess
      BY Zenon, <3>3 DEF InProcess
    <3>5. Recalled(j)'
      BY Zenon, <1>1, <2>1, <3>1, <3>3, <3>4 DEF Recalled
    <3>6. AttemptKept(j)'
      BY Zenon, <1>1, <2>1, <3>1, <3>3, <3>4 DEF AttemptKept, On
    <3>7. FailureKept(j)'
      BY Zenon, <3>1 DEF FailureKept
    <3> QED
      BY Zenon, <3>1, <3>3, <3>5, <3>6, <3>7
  <2> QED
    BY Zenon, <2>2, <2>3
<1>3. WorkerTypes'
  BY Zenon, <1>0, <1>1, <1>2 DEF WorkerTypes
<1> QED
  BY Zenon, <1>2, <1>3 DEF WorkerIInv

\* The next process remembers nothing.
LEMMA StartWorkerKeeps ==
  ASSUME WorkerIInv, NEW h \in Hosts, StartWorker(h)
  PROVE  WorkerIInv'
<1>0. /\ lastFailure \in [Hosts -> Seq(Jobs \X Failures)] /\ job \in [Jobs -> JobRecords] /\ unended \subseteq Failures
      /\ \A j \in Jobs : Recalled(j) /\ AttemptKept(j) /\ FailureKept(j)
  BY Zenon DEF WorkerIInv, WorkerTypes
<1>1. /\ lastFailure' = [lastFailure EXCEPT ![h] = << >>]
      /\ job' = job /\ unended' = unended /\ final' = final /\ mishap' = mishap
  BY Zenon DEF StartWorker, NoMishap
<1>2. << >> \in Seq(Jobs \X Failures) /\ DOMAIN << >> = {}
  OBVIOUS
<1>3. WorkerTypes' /\ \A g \in Hosts : lastFailure'[g] = IF g = h THEN << >> ELSE lastFailure[g]
  BY ZenonT(30), <1>0, <1>1, <1>2 DEF WorkerTypes
<1>4. ASSUME NEW j \in Jobs  PROVE Recalled(j)'
  <2> SUFFICES ASSUME NEW g \in Hosts, NEW i \in DOMAIN lastFailure'[g], lastFailure'[g][i][1] = j
               PROVE  /\ lastFailure'[g][i][2][1] = j /\ lastFailure'[g][i][2][2] <= job'[j].attempt
                      /\ job'[j].at \in {"start", "body", "end"} => lastFailure'[g][i][2][2] < job'[j].attempt
    BY Zenon DEF Recalled
  <2>1. g # h
    BY Zenon, <1>2, <1>3
  <2>2. lastFailure'[g] = lastFailure[g] /\ i \in DOMAIN lastFailure[g] /\ job' = job
    BY Zenon, <1>1, <1>3, <2>1
  <2>3. Recalled(j)
    BY Zenon, <1>0
  <2> QED
    BY <2>2, <2>3 DEF Recalled
<1>5. ASSUME NEW j \in Jobs  PROVE AttemptKept(j)' /\ FailureKept(j)'
  BY ZenonT(30), <1>0, <1>1 DEF AttemptKept, FailureKept, On, Attempt
<1> QED
  BY Zenon, <1>3, <1>4, <1>5 DEF WorkerIInv

\* Every step of the worker keeps the invariant.
LEMMA WorkerKeeps == WorkerIInv /\ [WorkerNext]_workerVars => WorkerIInv'
<1> SUFFICES ASSUME WorkerIInv, [WorkerNext]_workerVars PROVE WorkerIInv'
  BY Zenon
<1>1. ASSUME UNCHANGED <<lastFailure, job, unended, final, mishap>>  PROVE WorkerIInv'
  <2>1. WorkerTypes'
    BY Zenon, <1>1 DEF WorkerIInv, WorkerTypes
  <2>2. ASSUME NEW j \in Jobs  PROVE Recalled(j)' /\ AttemptKept(j)' /\ FailureKept(j)'
    <3>1. Recalled(j) /\ AttemptKept(j) /\ FailureKept(j)
      BY Zenon DEF WorkerIInv
    <3>2. Recalled(j)'
      BY Zenon, <1>1, <3>1 DEF Recalled
    <3>3. AttemptKept(j)'
      BY Zenon, <1>1, <3>1 DEF AttemptKept, On
    <3>4. FailureKept(j)'
      BY Zenon, <1>1, <3>1 DEF FailureKept, Attempt
    <3> QED
      BY Zenon, <3>2, <3>3, <3>4
  <2> QED
    BY Zenon, <2>1, <2>2 DEF WorkerIInv
<1>2. CASE UNCHANGED workerVars
  BY Zenon, <1>1, <1>2 DEF workerVars
<1>3. ASSUME NEW h \in Hosts, Drain(h) \/ Drained(h)  PROVE WorkerIInv'
  BY Zenon, <1>1, <1>3 DEF Drain, Drained, NoMishap
<1> QED
  BY Zenon, <1>2, <1>3, DispatchKeeps, SpanKeeps, EmitEndKeeps, EmitErrorKeeps, WorkflowCatchesKeeps, RunTurnKeeps,
     DiesKeeps, StartWorkerKeeps DEF WorkerNext

\* Before the first attempt nothing is remembered or open.
LEMMA WorkerStarts == WorkerInit => WorkerIInv
<1> SUFFICES ASSUME WorkerInit PROVE WorkerIInv
  BY Zenon
<1>1. << >> \in Seq(Jobs \X Failures) /\ DOMAIN << >> = {}
  OBVIOUS
<1>2. /\ lastFailure = [h \in Hosts |-> << >>] /\ job = [j \in Jobs |-> Unstarted]
      /\ unended = {} /\ final = {} /\ mishap = {}
  BY Zenon DEF WorkerInit
<1>3. Unstarted.at = "pending" /\ Unstarted.on = Nowhere /\ Unstarted.reason = NoReason
  BY Zenon DEF Unstarted
<1>4. WorkerTypes
  BY Zenon, <1>1, <1>2, UnstartedHolds DEF WorkerTypes
<1>5. ASSUME NEW j \in Jobs  PROVE Recalled(j) /\ AttemptKept(j) /\ FailureKept(j)
  <2>1. job[j] = Unstarted /\ \A h \in Hosts : lastFailure[h] = << >>
    BY Zenon, <1>2
  <2>2. Recalled(j)
    BY Zenon, <1>1, <2>1 DEF Recalled
  <2>3. AttemptKept(j)
    BY Zenon, <1>2, <1>3, <2>1 DEF AttemptKept, On, InProcess
  <2>4. FailureKept(j)
    BY Zenon, <1>3, <2>1 DEF FailureKept
  <2> QED
    BY Zenon, <2>2, <2>3, <2>4
<1> QED
  BY Zenon, <1>4, <1>5 DEF WorkerIInv

\* For every number of processes, turns, attempts and entries: the retry reason of
\* an attempt is a failure of an earlier attempt of the same turn, and unless
\* something went wrong around it a turn that is over is not tried again and has
\* ended its spans (createSynthActivityInterceptors, rememberFailure).
THEOREM AttemptsAccounted == WorkerSpec => []AttemptsAreAccounted
<1>1. WorkerIInv => AttemptsAreAccounted
  <2> SUFFICES ASSUME WorkerIInv, NEW j \in Jobs
               PROVE  /\ job[j].reason # NoReason =>
                            /\ job[j].reason[1] = j
                            /\ job[j].at \in {"start", "body"} => job[j].reason[2] < job[j].attempt
                      /\ j \notin mishap =>
                            /\ j \in final => job[j].at \notin {"pending", "start", "body"}
                            /\ \A n \in 1 .. MaxTries : <<j, n>> \in unended => n = job[j].attempt /\ On(j) # Nowhere
    BY Zenon DEF AttemptsAreAccounted
  <2>1. AttemptKept(j)
    BY Zenon, RecordHolds
  <2>2. ASSUME NEW n, <<j, n>> \in unended, j \notin mishap  PROVE n = job[j].attempt /\ On(j) # Nowhere
    <3>1. <<j, n>>[1] = j /\ <<j, n>>[2] = n
      OBVIOUS
    <3> QED
      BY Zenon, <2>1, <2>2, <3>1 DEF AttemptKept
  <2> QED
    BY Zenon, <2>1, <2>2 DEF AttemptKept
<1> QED
  BY <1>1, WorkerStarts, WorkerKeeps, PTL DEF WorkerSpec

\* For every reply, hint and number of attempts: unless something went wrong around
\* it, a failed turn ends the agent exactly for a permanent status and waits
\* exactly the time a 429 or 503 gave (toTemporalError, durableAgentWorkflow).
THEOREM VerdictAsReplied == WorkerSpec => []VerdictFollowsReply
<1>1. WorkerIInv => VerdictFollowsReply
  BY Zenon DEF WorkerIInv, FailureKept, VerdictFollowsReply
<1> QED
  BY <1>1, WorkerStarts, WorkerKeeps, PTL DEF WorkerSpec
==============================================================================
