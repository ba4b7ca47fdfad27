------------------------------ MODULE MCSandbox ------------------------------
(* The warm pool and the project cells, side by side: a behaviour is one of   *)
(* one of them, with the other's variables left as they start.                *)
EXTENDS WarmPool, ProjectCells, TLC

VARIABLE plane

sandboxVars == <<poolVars, cellVars, plane>>

MCNamespaceOf == "a" :> "n1" @@ "b" :> "n2"

PoolTurn(A) == plane = "pool" /\ A /\ UNCHANGED <<cellVars, plane>>
CellTurn(A) == plane = "cells" /\ A /\ UNCHANGED <<poolVars, plane>>

SandboxInit ==
    /\ PoolInit /\ CellInit /\ plane \in {"pool", "cells"}
    /\ plane # "pool" => minReady = 0

SandboxNext == PoolTurn(PoolNext) \/ CellTurn(CellNext)

SandboxSpec ==
    /\ SandboxInit /\ [][SandboxNext]_sandboxVars
    /\ WF_sandboxVars(PoolTurn(PoolFairSteps))

=============================================================================
