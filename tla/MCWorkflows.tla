---------------------------- MODULE MCWorkflows ----------------------------
(* The graph workflow, the session supervisor and the three parts of a gym   *)
(* attempt, side by side: a behaviour is one of one system, with the others' *)
(* variables left as they start.                                             *)
EXTENDS GraphWorkflow, Supervisor, GymWorkflow, GymAttempt, GymScoring

CONSTANTS Yes, No

VARIABLE system

\* A leaf, a loop over a fanout and a branch in sequence; the loop and the branch
\* watch the leaf b.
MCKind == [R |-> "sequence", a |-> "leaf", L |-> "loop", F |-> "fanout", b |-> "leaf", c |-> "leaf", B |-> "branch", d |-> "leaf", e |-> "leaf"]
MCSteps == [R |-> <<"a", "L", "B">>, L |-> <<"F">>, F |-> <<"b", "c">>, B |-> <<"d", "e">>, a |-> <<>>, b |-> <<>>, c |-> <<>>, d |-> <<>>, e |-> <<>>]
MCWatched == [L |-> "b", B |-> "b"]
MCEquals == [L |-> Yes, B |-> Yes]
MCMaxIterations == [L |-> 2]
MCValues == [a |-> {No}, b |-> {Yes, No}, c |-> {No}, d |-> {No}, e |-> {No}]

WorkflowsInit ==
    /\ system \in {"graph", "supervisor", "gym", "attempt", "scoring"}
    /\ GraphInit /\ SupInit /\ GymInit /\ AttemptInit /\ ScoringInit
    /\ system # "scoring" => subject = [patch |-> "clean", setting |-> "host"]

GraphTurn(A) == system = "graph" /\ A /\ UNCHANGED <<supVars, gymVars, attemptVars, scoringVars, system>>
SupTurn(A) == system = "supervisor" /\ A /\ UNCHANGED <<graphVars, gymVars, attemptVars, scoringVars, system>>

WorkflowsNext ==
    \/ GraphTurn(GraphNext)
    \/ SupTurn(SupNext)
    \/ system = "gym" /\ GymNext /\ UNCHANGED <<graphVars, supVars, attemptVars, scoringVars, system>>
    \/ system = "attempt" /\ AttemptNext /\ UNCHANGED <<graphVars, supVars, gymVars, scoringVars, system>>
    \/ system = "scoring" /\ ScoringNext /\ UNCHANGED <<graphVars, supVars, gymVars, attemptVars, system>>

workflowsVars == <<graphVars, supVars, gymVars, attemptVars, scoringVars, system>>

\* Temporal resolves every activity and child, which have timeouts and bounded
\* attempts, and workflow code runs.  Nothing is assumed of the supervisor's
\* timer, of people, of the schedule, or of a gym attempt.
WorkflowsSpec ==
    /\ WorkflowsInit /\ [][WorkflowsNext]_workflowsVars
    /\ WF_workflowsVars(GraphTurn(GraphStep) \/ SupTurn(SupSteps))

=============================================================================
