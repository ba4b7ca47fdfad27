------------------------------- MODULE MCTurns -------------------------------
(***************************************************************************)
(* Side by side: the attempts of one agent's turns with their receipts     *)
(* (TurnReceipts), and the attempts of two turns that fail in every way    *)
(* under the interceptors of two worker processes (ActivityWorker).        *)
(***************************************************************************)
EXTENDS TurnReceipts, ActivityWorker, TLC

CONSTANT Parts      \* the parts a run explores

VARIABLE part

\* A configured tool, and one the turn does not have.
MCCalls == {[tool |-> "write", arg |-> 1], [tool |-> "unknown", arg |-> 1]}

WorkerSymmetry == Permutations(Workers)

turnsVars == <<part, vars, workerVars>>

Absent == [form |-> "none", value |-> 0]
Header(form, value) == [form |-> form, value |-> value]
Failed(status, retryAfter, reset, date) ==
    [status |-> status, headers |-> [retryAfter |-> retryAfter, reset |-> reset, date |-> date], events |-> << >>]
Answer(events) ==
    [status |-> 200, headers |-> [retryAfter |-> Absent, reset |-> Absent, date |-> Absent], events |-> events]

\* j1 meets every kind of reply, the clock of the server three seconds ahead of
\* the worker's; j2, scored on the synthetic rung, is refused in the same processes.
MCReplies ==
    [j \in Jobs |->
        IF j # "j1" THEN {Answer(<<"news">>)}
        ELSE {Answer(<<"news">>), Answer(<<"junk">>), Failed(401, Absent, Absent, Absent),
              Failed(429, Header("seconds", 2), Absent, Absent),
              Failed(429, Header("seconds", 4000), Absent, Absent),
              Failed(503, Header("junk", 0), Header("number", 1005), Header("date", 1003000))}]

MCInputs == [j \in Jobs |-> [agent |-> j, kinds |-> <<"news">>, rung |-> "synthetic", scored |-> j = "j2"]]

MCTurnsInit == part \in Parts /\ Init /\ WorkerInit /\ (part = "receipts" => knowsMax)

MCTurnsNext ==
    /\ UNCHANGED part
    /\ \/ part = "receipts" /\ Next /\ UNCHANGED workerVars
       \/ part = "worker" /\ WorkerNext /\ UNCHANGED vars

MCTurnsSpec == MCTurnsInit /\ [][MCTurnsNext]_turnsVars
=============================================================================
