----------------------------- MODULE Admission -----------------------------
(***************************************************************************)
(* How the inference gateway admits a request: the request handler of      *)
(* createInferenceGateway (server.ts), CompositeTenantPolicy and its       *)
(* policies (tenant-policy.ts), and PriorityLanePolicy over LaneScheduler  *)
(* (lane-scheduler.ts).                                                    *)
(*                                                                         *)
(* The gateway is one JavaScript process: an action is what runs between   *)
(* two awaits.  A request carries its lane; a ticket is named after its    *)
(* request; time is the age of a queued ticket, counted up to just past    *)
(* its deadline.  Fractions of a slot are counted in units of 1/Den.       *)
(***************************************************************************)
EXTENDS Integers, Sequences, SequencesExt, FiniteSetsExt

CONSTANTS
    Requests,
    LanesOf,       \* per client: the lanes its principal may name (or be defaulted to)
    Lanes,         \* the configured lanes
    Priority, Weight, MaxWait,  \* per lane: LaneSpec
    Capacity,
    SchedulerDefault,  \* LaneScheduler's defaultLane, one of Lanes
    PolicyDefault,     \* PriorityLanePolicy's defaultLane, any name
    Num, Den,          \* lowerBandReserveFraction = Num / Den
    Policies,          \* the composed policies, in order: "acl", "lane", "rate"
    Limit              \* requestsPerMinute of the one tenant

VARIABLES
    pc,        \* per request: "idle", "policy", "queued", "serving", "throwing", "finally"
    lane,      \* per request: the lane it names, or "none" when idle
    step,      \* per request: index of the policy that authorizes next, 1 when idle
    inFlight,  \* #inFlight
    queue,     \* #queue: tickets in arrival order
    age,       \* per request: now - enqueuedAt
    deficit,   \* #deficit, per lane named by a request
    credit,    \* #reserveCredit, in units of 1 / Den
    waiters,   \* keys of #waiters
    count,     \* the tenant's requests in the current window
    holds,     \* history: requests that were given a slot and have not returned it
    passedOver \* history: slots given to the top band in a row while a lower band queued

admissionVars == <<pc, lane, step, inFlight, queue, age, deficit, credit, waiters, count, holds, passedOver>>

LaneNames == UNION {LanesOf[r] : r \in Requests}

AdmissionInit ==
    /\ pc = [r \in Requests |-> "idle"] /\ step = [r \in Requests |-> 1]
    /\ lane = [r \in Requests |-> "none"]
    /\ inFlight = 0 /\ queue = <<>> /\ age = [r \in Requests |-> 0]
    /\ deficit = [l \in LaneNames |-> 0] /\ credit = 0
    /\ waiters = {} /\ count = 0 /\ holds = {} /\ passedOver = 0

-----------------------------------------------------------------------------
(* LaneScheduler. *)

\* A request that names no configured lane has the default lane's deadline ...
Deadline(r) == MaxWait[IF lane[r] \in Lanes THEN lane[r] ELSE SchedulerDefault]

\* ... but priority 0 and weight 1.
PriorityOf(r) == IF lane[r] \in Lanes THEN Priority[lane[r]] ELSE 0
WeightOf(l) == IF l \in Lanes /\ Weight[l] > 0 THEN Weight[l] ELSE 1

Overdue(r) == Deadline(r) > 0 /\ age[r] > Deadline(r)

Live(q) == SelectSeq(q, LAMBDA r : ~Overdue(r))

MaxPriority(q) == Max({PriorityOf(r) : r \in ToSet(q)})
Top(q) == SelectSeq(q, LAMBDA r : PriorityOf(r) = MaxPriority(q))
Lower(q) == SelectSeq(q, LAMBDA r : PriorityOf(r) < MaxPriority(q))

\* Mutated: the reservation is never honoured.
BandTopOnly(q) == Top(q)

\* The band the next slot goes to: a lower one when its reservation is due.
Band(q) == IF Lower(q) # <<>> /\ credit >= Den THEN Lower(q) ELSE Top(q)

Credit(q) == Min({Den, credit + Num - IF Band(q) = Lower(q) THEN Den ELSE 0})

\* pickWeighted: every lane in the group gains its weight; the richest one wins,
\* the longest queued among equals, and pays the group's total weight.
Active(g) == {lane[r] : r \in ToSet(g)}
Funded(g) == [l \in LaneNames |-> deficit[l] + IF l \in Active(g) THEN WeightOf(l) ELSE 0]
FirstOf(g, l) == SelectInSeq(g, LAMBDA r : lane[r] = l)
BestLane(g) ==
    CHOOSE l \in Active(g) : \A k \in Active(g) \ {l} :
        \/ Funded(g)[l] > Funded(g)[k]
        \/ Funded(g)[l] = Funded(g)[k] /\ FirstOf(g, l) < FirstOf(g, k)
Chosen(g) == g[FirstOf(g, BestLane(g))]
Paid(g) == [Funded(g) EXCEPT ![BestLane(g)] = @ - MapThenSumSet(WeightOf, Active(g))]

-----------------------------------------------------------------------------
(* Steps of a request. *)

\* A policy that returns hands over to the next one, the last one to the backend.
Granted(f, rs) ==
    [r \in Requests |-> IF r \notin rs THEN f[r]
                        ELSE IF step[r] = Len(Policies) THEN "serving" ELSE "policy"]
Pass(r) ==
    /\ pc' = Granted(pc, {r})
    /\ step' = [step EXCEPT ![r] = @ + 1]

Throw(r) == pc' = [pc EXCEPT ![r] = "throwing"] /\ UNCHANGED step

At(r, policy) == pc[r] = "policy" /\ Policies[step[r]] = policy

\* The body is read, parsed and authenticated; anything else is answered at once.
Arrive(r) ==
    /\ pc[r] = "idle"
    /\ \E l \in LanesOf[r] : lane' = [lane EXCEPT ![r] = l]
    /\ pc' = [pc EXCEPT ![r] = "policy"]
    /\ UNCHANGED <<step, inFlight, queue, age, deficit, credit, waiters, count, holds, passedOver>>

\* ModelAclPolicy.authorize.
Acl(r) ==
    /\ At(r, "acl")
    /\ Pass(r) \/ Throw(r)
    /\ UNCHANGED <<lane, inFlight, queue, age, deficit, credit, waiters, count, holds, passedOver>>

\* A rate-limit policy counts the request, then compares; counting stops above Limit.
Rate(r) ==
    /\ At(r, "rate")
    /\ count' = Min({Limit + 1, count + 1})
    /\ IF Limit > 0 /\ count' > Limit THEN Throw(r) ELSE Pass(r)
    /\ UNCHANGED <<lane, inFlight, queue, age, deficit, credit, waiters, holds, passedOver>>

NewWindow ==
    /\ count > 0 /\ count' = 0
    /\ UNCHANGED <<lane, pc, step, inFlight, queue, age, deficit, credit, waiters, holds, passedOver>>

\* LaneScheduler.admit: a free slot at once ...
Admit(r) ==
    /\ At(r, "lane") /\ inFlight < Capacity
    /\ inFlight' = inFlight + 1 /\ holds' = holds \cup {r}
    /\ Pass(r)
    /\ UNCHANGED <<lane, queue, age, deficit, credit, waiters, count, passedOver>>

\* ... no slot and no waiting in this lane ...
LaneFull(r) ==
    /\ At(r, "lane") /\ inFlight >= Capacity /\ Deadline(r) <= 0
    /\ Throw(r)
    /\ UNCHANGED <<lane, inFlight, queue, age, deficit, credit, waiters, count, holds, passedOver>>

\* ... or a ticket, a waiter and a timer.
Enqueue(r) ==
    /\ At(r, "lane") /\ inFlight >= Capacity /\ Deadline(r) > 0
    /\ queue' = Append(queue, r) /\ age' = [age EXCEPT ![r] = 0]
    /\ waiters' = waiters \cup {r}
    /\ pc' = [pc EXCEPT ![r] = "queued"]
    /\ UNCHANGED <<lane, step, inFlight, deficit, credit, count, holds, passedOver>>

\* The timer's delay, from the policy's own view of the lanes.
TimerDelay(r) ==
    Max({1, CASE lane[r] \in Lanes -> MaxWait[lane[r]]
              [] lane[r] \notin Lanes /\ PolicyDefault \in Lanes -> MaxWait[PolicyDefault]
              [] OTHER -> 0})

\* Mutated: the timer leaves the ticket in the scheduler's queue.
TimerFiresKeepTicket(r) ==
    /\ pc[r] = "queued" /\ r \in waiters /\ age[r] >= TimerDelay(r)
    /\ waiters' = waiters \ {r}
    /\ Throw(r)
    /\ UNCHANGED <<lane, queue, inFlight, age, deficit, credit, count, holds, passedOver>>

\* Mutated: nothing rejects a queued request.
TimerNeverFires(r) == FALSE /\ TimerFiresKeepTicket(r)

\* The timer of authorize: cancel the ticket and reject.
TimerFires(r) ==
    /\ pc[r] = "queued" /\ r \in waiters /\ age[r] >= TimerDelay(r)
    /\ waiters' = waiters \ {r} /\ queue' = SelectSeq(queue, LAMBDA x : x # r)
    /\ Throw(r)
    /\ UNCHANGED <<lane, inFlight, age, deficit, credit, count, holds, passedOver>>

\* The request is answered and forgotten.
Answer(r) == lane' = [lane EXCEPT ![r] = "none"]

\* PriorityLanePolicy.release by r with nobody left to serve: the slot is free.
FreeSlot(r) ==
    /\ Live(queue) = <<>>
    /\ inFlight' = Max({0, inFlight - 1})
    /\ queue' = <<>> /\ holds' = holds \ {r} /\ passedOver' = 0
    /\ pc' = [pc EXCEPT ![r] = "idle"] /\ step' = [step EXCEPT ![r] = 1]
    /\ UNCHANGED <<age, deficit, credit, waiters, count>>

\* ... or the slot goes to the chosen ticket, and the waiter behind it passes on.
HandOver(r) ==
    LET q == Live(queue)
        g == Band(q)
        c == Chosen(g)
    IN /\ q # <<>>
       /\ inFlight' = Max({0, inFlight - 1}) + 1
       /\ queue' = SelectSeq(q, LAMBDA x : x # c)
       /\ credit' = Credit(q) /\ deficit' = Paid(g)
       /\ passedOver' = IF Lower(q) \in {<<>>, g} THEN 0 ELSE passedOver + 1
       /\ waiters' = waiters \ {c} /\ holds' = (holds \ {r}) \cup {c}
       /\ pc' = [Granted(pc, IF c \in waiters THEN {c} ELSE {}) EXCEPT ![r] = "idle"]
       /\ step' = [step EXCEPT ![r] = 1, ![c] = IF c \in waiters THEN @ + 1 ELSE @]
       /\ UNCHANGED <<age, count>>

Release(r) == Answer(r) /\ (FreeSlot(r) \/ HandOver(r))

ReleaseNothing(r) ==
    /\ Answer(r)
    /\ pc' = [pc EXCEPT ![r] = "idle"] /\ step' = [step EXCEPT ![r] = 1]
    /\ UNCHANGED <<inFlight, queue, age, deficit, credit, waiters, count, holds, passedOver>>

LaneStep == SelectInSeq(Policies, LAMBDA p : p = "lane")

\* Mutated: a policy that throws leaves the earlier policies' admissions taken.
UnwindLeaky(r) == pc[r] = "throwing" /\ ReleaseNothing(r)

\* CompositeTenantPolicy.authorize after a throw: what authorized before is released.
Unwind(r) ==
    /\ pc[r] = "throwing"
    /\ IF LaneStep < step[r] THEN Release(r) ELSE ReleaseNothing(r)

\* The backend's response is sent, or the backend failed, or the client is gone.
Served(r) ==
    /\ pc[r] = "serving" /\ pc' = [pc EXCEPT ![r] = "finally"]
    /\ UNCHANGED <<lane, step, inFlight, queue, age, deficit, credit, waiters, count, holds, passedOver>>

\* The handler's finally block.
Finish(r) == pc[r] = "finally" /\ Release(r)

\* LaneScheduler.expire, called by anyone.
Expire ==
    /\ \E r \in ToSet(queue) : Overdue(r)
    /\ queue' = Live(queue)
    /\ UNCHANGED <<lane, pc, step, inFlight, age, deficit, credit, waiters, count, holds, passedOver>>

\* A millisecond passes; beyond both deadlines a ticket's age no longer matters.
Tick ==
    /\ \E r \in waiters : age[r] <= Max({TimerDelay(r), Deadline(r)})
    /\ age' = [r \in Requests |->
                 IF r \in waiters THEN Min({Max({TimerDelay(r), Deadline(r)}) + 1, age[r] + 1}) ELSE 0]
    /\ UNCHANGED <<lane, pc, step, inFlight, queue, deficit, credit, waiters, count, holds, passedOver>>

Handle(r) == Acl(r) \/ Rate(r) \/ Admit(r) \/ LaneFull(r) \/ Enqueue(r) \/ TimerFires(r) \/ Unwind(r) \/ Finish(r)

AdmissionNext ==
    \/ \E r \in Requests : Arrive(r) \/ Handle(r) \/ Served(r)
    \/ NewWindow \/ Expire \/ Tick

AdmissionSpec == AdmissionInit /\ [][AdmissionNext]_admissionVars

\* Timers fire and time passes.  Nothing is assumed of the backend: a request
\* that holds a slot may hold it for ever.
AdmissionFairness ==
    /\ \A r \in Requests : WF_admissionVars(TimerFires(r))
    /\ WF_admissionVars(Tick)

-----------------------------------------------------------------------------
(* Properties. *)

\* Every slot the scheduler counts is held by exactly one request that will
\* return it, never more than the capacity, and a request queues only while
\* all are taken: no error path, late timer or refused policy leaks a slot.
SlotsAccounted ==
    /\ inFlight = Cardinality(holds) /\ inFlight <= Capacity
    /\ holds = {r \in Requests : \/ pc[r] \in {"serving", "finally"}
                                 \/ pc[r] \in {"policy", "throwing"} /\ LaneStep < step[r]}
    /\ queue # <<>> => inFlight = Capacity
    /\ ToSet(queue) \subseteq waiters

\* A backlogged lower band is passed over at most 1 / reserve times in a row,
\* however much the bands above it ask for (#takeNext's reservation).
LowerBandNotStarved == passedOver * Num < Den + Num

\* A slot is never handed to a request whose lane deadline has passed, even when
\* its timer has not fired yet (release after a late tick).
NoLateAdmission ==
    [][\A r \in Requests : pc[r] = "queued" /\ r \in holds' => ~Overdue(r)]_admissionVars

\* A queued request is admitted or rejected even if no slot is ever returned.
QueuedIsAnswered == \A r \in Requests : pc[r] = "queued" ~> pc[r] # "queued"

\* A request that queues is answered, and not with a slot after its deadline
\* (PriorityLanePolicy.authorize, #takeNext).
AnsweredInTime == QueuedIsAnswered /\ NoLateAdmission

=============================================================================
