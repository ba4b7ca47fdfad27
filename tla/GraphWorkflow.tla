--------------------------- MODULE GraphWorkflow ---------------------------
(***************************************************************************)
(* runGraphWorkflow (graph-workflow.ts) over the interpreter executeGraph  *)
(* (graph.ts): a graph of leaves (turns, activities, children) composed by *)
(* sequences, fanouts, branches and loops, whose completed occurrences are *)
(* journaled so that a continued run does not repeat them.                 *)
(*                                                                         *)
(* An occurrence is a path from the root: pairs of a position (or, under a *)
(* loop, an iteration) and a node.  executeGraph is re-entrant under a     *)
(* fanout, so the calls that have not returned are a set of paths.  An     *)
(* action is what one call does until it awaits or returns.                *)
(***************************************************************************)
EXTENDS Integers, Sequences, FiniteSets

CONSTANTS
    Root,
    Kind,            \* per node: "leaf", "sequence", "fanout", "branch" or "loop"
    Steps,           \* per node: its steps; <<then>> or <<then, else>>; <<body>>
    Watched, Equals, \* per branch and loop: the node its condition reads, and the value
    MaxIterations,   \* per loop
    Values,          \* per leaf: what its handler may return
    Undefined,
    NodesPerRun      \* CONTINUE_AS_NEW_AFTER_NODES

Nodes == DOMAIN Kind

ASSUME GraphAssumption ==
    /\ Root \in Nodes /\ Steps \in [Nodes -> Seq(Nodes)]
    /\ \A n \in Nodes :
          /\ Kind[n] \in {"leaf", "sequence", "fanout", "branch", "loop"}
          /\ Kind[n] = "branch" => Len(Steps[n]) \in {1, 2}
          /\ Kind[n] = "loop" => Len(Steps[n]) = 1 /\ MaxIterations[n] \in Nat

VARIABLES
    status,     \* state.status
    results,    \* scope.results
    journal,    \* scope.journal
    calls,      \* calls of executeGraph that have not returned in this run
    back,       \* calls that have returned in this run
    threw,      \* calls whose handler or onNode threw
    newNodes,   \* completedThisRun
    cancelled,
    stop,       \* what the root's promise is rejected with, or "none"
    started,    \* history, per leaf occurrence: how often its handler was called
    dropped     \* history, per leaf occurrence: how often a run continued as new before it completed

graphVars == <<status, results, journal, calls, back, threw, newNodes, cancelled, stop, started, dropped>>

NodeOf(p) == p[Len(p)][2]
RootPath == <<<<0, Root>>>>
Sub(p, i, n) == Append(p, <<i, n>>)
Positions(n) == IF Kind[n] = "loop" THEN 0 .. MaxIterations[n] - 1 ELSE DOMAIN Steps[n]
StepAt(n, i) == IF Kind[n] = "loop" THEN Steps[n][1] ELSE Steps[n][i]
SubPaths(p) == {Sub(p, i, StepAt(NodeOf(p), i)) : i \in Positions(NodeOf(p))}

GraphInit ==
    /\ status = "running" /\ results = [n \in Nodes |-> Undefined] /\ journal = {}
    /\ calls = {RootPath} /\ back = {} /\ threw = {} /\ newNodes = 0 /\ cancelled = FALSE /\ stop = "none"
    /\ started = <<>> /\ dropped = <<>>

Matches(n) == results[Watched[n]] = Equals[n]

\* The iteration a loop is at: the first one that is not journaled.
Iteration(p) ==
    LET n == NodeOf(p)
    IN CHOOSE i \in 0 .. MaxIterations[n] :
         /\ \A j \in 0 .. i - 1 : Sub(p, j, StepAt(n, j)) \in journal
         /\ i < MaxIterations[n] => Sub(p, i, StepAt(n, i)) \notin journal

LoopEnds(p) == Iteration(p) = MaxIterations[NodeOf(p)] \/ (Iteration(p) > 0 /\ Matches(NodeOf(p)))

\* The position of a branch's chosen step, 0 when there is none.
Chosen(n) == IF Matches(n) THEN 1 ELSE IF Len(Steps[n]) = 2 THEN 2 ELSE 0

\* The calls that the call at p makes next: one by one, or a fanout's all at once.
NextCalls(p) ==
    LET n == NodeOf(p)
        made == SubPaths(p) \cap (calls \cup back)
        waiting == SubPaths(p) \cap calls # {}
    IN CASE Kind[n] = "leaf" -> {}
         [] Kind[n] = "sequence" ->
              IF waiting \/ made = SubPaths(p) THEN {} ELSE {Sub(p, Cardinality(made) + 1, Steps[n][Cardinality(made) + 1])}
         [] Kind[n] = "fanout" -> SubPaths(p) \ made
         [] Kind[n] = "branch" -> IF made # {} \/ Chosen(n) = 0 THEN {} ELSE {Sub(p, Chosen(n), Steps[n][Chosen(n)])}
         [] OTHER -> IF waiting \/ LoopEnds(p) THEN {} ELSE {Sub(p, Iteration(p), Steps[n][1])}

Count(f, S) == [p \in DOMAIN f \cup S |-> (IF p \in DOMAIN f THEN f[p] ELSE 0) + (IF p \in S THEN 1 ELSE 0)]
Times(f, p) == IF p \in DOMAIN f THEN f[p] ELSE 0
Leaves(S) == {p \in S : Kind[NodeOf(p)] = "leaf"}

\* Mutated: the journal is not consulted.
CachedNever(S) == {}

\* Calls answered from the journal.
Cached(S) == S \cap journal

\* Mutated: calls answered from the journal count towards the threshold.
ExecuteGraphCounts(p) ==
    LET made == NextCalls(p)
        count == newNodes + Cardinality(Cached(made))
    IN /\ status = "running" /\ p \in calls \ threw /\ made # {}
       /\ calls' = calls \cup (made \ Cached(made))
       /\ back' = back \cup Cached(made)
       /\ started' = Count(started, Leaves(made \ Cached(made)))
       /\ newNodes' = count
       /\ stop' = IF stop = "none" /\ count >= NodesPerRun THEN "continue" ELSE stop
       /\ UNCHANGED <<status, results, journal, threw, cancelled, dropped>>

\* A call makes its next calls; a leaf's calls its handler.
ExecuteGraph(p) ==
    LET made == NextCalls(p)
    IN /\ status = "running" /\ p \in calls \ threw /\ made # {}
       /\ calls' = calls \cup (made \ Cached(made))
       /\ back' = back \cup Cached(made)
       /\ started' = Count(started, Leaves(made \ Cached(made)))
       /\ UNCHANGED <<status, results, journal, threw, newNodes, cancelled, stop, dropped>>

Rejected(reason) == stop' = IF stop = "none" THEN reason ELSE stop

\* The hook, after which the call returns or throws.
OnNode(p) ==
    \/ cancelled /\ Rejected("cancelled") /\ threw' = threw \cup {p} /\ UNCHANGED <<calls, back, newNodes>>
    \/ /\ ~cancelled /\ newNodes' = newNodes + 1
       /\ \/ newNodes + 1 >= NodesPerRun /\ Rejected("continue") /\ threw' = threw \cup {p} /\ UNCHANGED <<calls, back>>
          \/ /\ newNodes + 1 < NodesPerRun
             /\ calls' = calls \ {p} /\ back' = back \cup {p} /\ UNCHANGED <<stop, threw>>

Complete(p, value) ==
    /\ results' = [results EXCEPT ![NodeOf(p)] = value]
    /\ journal' = journal \cup {p}
    /\ OnNode(p)
    /\ UNCHANGED <<status, cancelled, started, dropped>>

InFlight == {p \in Leaves(calls) : p \notin threw}

HandlerReturns(p) ==
    /\ status = "running" /\ p \in InFlight
    /\ \E value \in Values[NodeOf(p)] : Complete(p, value)

HandlerFails(p) ==
    /\ status = "running" /\ p \in InFlight
    /\ threw' = threw \cup {p} /\ Rejected("failed")
    /\ UNCHANGED <<status, results, journal, calls, back, newNodes, cancelled, started, dropped>>

LastValue(q) == IF q = <<>> THEN Undefined ELSE results[q[Len(q)]]

\* What a composite returns.  A loop that runs no iteration in this run because
\* it was continued after its last one has no child to take the value from.
ValueOf(p) ==
    LET n == NodeOf(p)
    IN CASE Kind[n] = "sequence" -> LastValue(Steps[n])
         [] Kind[n] = "fanout" -> [i \in DOMAIN Steps[n] |-> results[Steps[n][i]]]
         [] Kind[n] = "branch" -> IF SubPaths(p) \cap back = {} THEN Undefined ELSE results[NodeOf(CHOOSE c \in SubPaths(p) : c \in back)]
         [] OTHER -> IF SubPaths(p) \cap back # {} \/ Matches(n) THEN results[Steps[n][1]] ELSE Undefined

StepReturns(p) ==
    /\ status = "running" /\ p \in calls \ threw /\ Kind[NodeOf(p)] # "leaf"
    /\ NextCalls(p) = {} /\ SubPaths(p) \cap calls = {}
    /\ Complete(p, ValueOf(p))

\* The root's promise settles: runGraphWorkflow returns, or continues as new
\* with the scope and none of the run's local state.
Settle ==
    /\ status = "running" /\ (stop # "none" \/ RootPath \in back)
    /\ IF stop = "continue"
       THEN /\ calls' = {RootPath} \ journal /\ back' = {RootPath} \cap journal
            /\ threw' = {} /\ newNodes' = 0 /\ cancelled' = FALSE /\ stop' = "none"
            /\ dropped' = Count(dropped, Leaves(calls) \ journal)
            /\ UNCHANGED <<status, started>>
       ELSE /\ status' = IF stop = "none" THEN "completed" ELSE stop
            /\ UNCHANGED <<calls, back, threw, newNodes, cancelled, stop, started, dropped>>
    /\ UNCHANGED <<results, journal>>

\* A signal is handled while the workflow waits, never between a throw and what
\* catches it.
CancelGraph ==
    /\ status = "running" /\ ~cancelled /\ stop = "none" /\ RootPath \notin back
    /\ cancelled' = TRUE
    /\ UNCHANGED <<status, results, journal, calls, back, threw, newNodes, stop, started, dropped>>

GraphStep == (\E p \in calls : ExecuteGraph(p) \/ HandlerReturns(p) \/ HandlerFails(p) \/ StepReturns(p)) \/ Settle
GraphNext == GraphStep \/ CancelGraph
GraphSpec == GraphInit /\ [][GraphNext]_graphVars

-----------------------------------------------------------------------------
(* A completed node is not run again by a continued run.  Only a handler that *)
(* had not completed in a fanout when its sibling reached the threshold is    *)
(* called again (graph.ts:108, graph-workflow.ts:110).                        *)
NodeRunsOnce == \A p \in DOMAIN started : started[p] <= 1 + Times(dropped, p)

(* A graph whose leaves return comes to an end however small the threshold: a  *)
(* continued run gets a full threshold of new nodes (graph-workflow.ts:88).    *)
GraphEnds == started # <<>> ~> status # "running"

(* Nothing is awaited when a run continues as new (graph-workflow.ts:109). *)
ContinuesAtRest == stop = "continue" => InFlight = {}

(* The inductive invariant of NodeRunsOnce: an occurrence's handler was called *)
(* once more than it was dropped only if the occurrence is under way or        *)
(* journaled, and then it is not called again.                                 *)
Paths == {p \in Seq(Int \X Nodes) : p # << >>}
StartedForGood(p) == started[p] <= Times(dropped, p) + (IF p \in calls \cup journal THEN 1 ELSE 0)
GraphIInv ==
    /\ calls \subseteq Paths
    /\ started \in [DOMAIN started -> Nat] /\ dropped \in [DOMAIN dropped -> Nat]
    /\ \A p \in DOMAIN started : Kind[NodeOf(p)] = "leaf" /\ StartedForGood(p)

=============================================================================
