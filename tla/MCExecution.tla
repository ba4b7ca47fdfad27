----------------------------- MODULE MCExecution -----------------------------
(* The effect broker, the executors that keep a workspace in pods, and the    *)
(* kubectl backend that makes the pods, side by side: a behaviour is one of   *)
(* one of them, with the others' variables left as they start.                *)
EXTENDS EffectBroker, SandboxRung, SandboxBackend, TLC

VARIABLE layer

\* The synthetic executor, and two resource classes.
MCExecutors == <<[fidelity |-> 1, class |-> "none"], [fidelity |-> 3, class |-> "small"], [fidelity |-> 3, class |-> "large"]>>

\* Any executor; a preferred class and a floor; one class, no escalation.
MCPolicies == {
    [minFidelity |-> 0, allowed |-> {"small", "large"}, preferred |-> "none", allowEscalation |-> TRUE],
    [minFidelity |-> 2, allowed |-> {"small", "large"}, preferred |-> "large", allowEscalation |-> TRUE],
    [minFidelity |-> 0, allowed |-> {"small"}, preferred |-> "small", allowEscalation |-> FALSE]}

MCLadder == <<"small", "heavy">>
MCOrigin == "x" :> "old" @@ "y" :> "none"
MCSeed == "x" :> "old" @@ "y" :> "new"

Symmetry == Permutations(Callers)

executionVars == <<vars, rungVars, backendVars, layer>>

ExecutionInit ==
    /\ layer \in {"broker", "rung", "backend"}
    /\ Init /\ RungInit /\ BackendInit
    /\ layer # "broker" => \A c \in Calls : policy[c] = CHOOSE p \in Policies : TRUE

ExecutionNext ==
    \/ layer = "broker" /\ Next /\ UNCHANGED <<rungVars, backendVars, layer>>
    \/ layer = "rung" /\ RungNext /\ UNCHANGED <<vars, backendVars, layer>>
    \/ layer = "backend" /\ BackendNext /\ UNCHANGED <<vars, rungVars, layer>>

ExecutionSpec == ExecutionInit /\ [][ExecutionNext]_executionVars

=============================================================================
