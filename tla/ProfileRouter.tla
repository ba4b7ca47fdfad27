--------------------------- MODULE ProfileRouter ---------------------------
(***************************************************************************)
(* ProfileRouterBackend.handle (profile-router-backend.ts) in gateway      *)
(* replicas that share one RouterStateStore (router-state.ts, and the      *)
(* PostgreSQL tables of distributed-state.ts): failover over the routes of *)
(* one profile, cooldown of failed routes and sticky sessions.             *)
(*                                                                         *)
(* Every access to the store is an await, so an action is one access, or   *)
(* the answer of a backend.  Only what steers routing is kept of a route's *)
(* health, cooldownUntil.  The rows are taken to exist, so that a          *)
(* replica's own copy (#healthCache) is written and never read.            *)
(***************************************************************************)
EXTENDS Integers, Sequences, FiniteSets

CONSTANTS
    Calls,       \* the requests
    SessionOf,   \* per request: its affinity key, or NoKey
    NoKey,
    Environment, \* the environment's providers: [json, groups]
    Model,       \* the virtual model that is requested
    MaxCool,     \* cooldowns last 1 .. MaxCool
    MaxNow       \* bound on the clock

-----------------------------------------------------------------------------
(* The routes come from the configuration (provider-config.ts): a sequence of  *)
(* providers [id, baseUrl, model, profile], a field that is missing being "".  *)
(* The environment has either a JSON list or a group of variables for each.    *)

providerProfileId(provider) == IF provider.profile = "" THEN provider.id ELSE provider.profile
requireString(value) == value # ""

\* A configuration is refused as a whole: for a field, or for an id given twice.
parseGatewayConfig(entries) ==
    IF /\ entries # << >>
       /\ \A i \in DOMAIN entries : requireString(entries[i].id) /\ requireString(entries[i].baseUrl) /\ requireString(entries[i].model)
       /\ \A i, j \in DOMAIN entries : i # j => entries[i].id # entries[j].id
    THEN entries ELSE << >>

\* A group without an address or a model is passed over.
providersFromEnv(env) ==
    IF env.json # << >> THEN parseGatewayConfig(env.json)
    ELSE SelectSeq(env.groups, LAMBDA g : requireString(g.baseUrl) /\ requireString(g.model))

\* One backend for each provider, and one route, in the order of the configuration, of its profile.
buildProviderRouter(providers) ==
    [backends |-> {providers[i].id : i \in DOMAIN providers},
     routes |-> [m \in {providerProfileId(providers[i]) : i \in DOMAIN providers} |->
                    LET own == SelectSeq(providers, LAMBDA p : providerProfileId(p) = m)
                    IN [i \in DOMAIN own |-> own[i].id]]]

Routes == buildProviderRouter(providersFromEnv(Environment)).routes[Model]
Backed == buildProviderRouter(providersFromEnv(Environment)).backends

-----------------------------------------------------------------------------
(* Requests.                                                                   *)

NoRoute == "no route"
Keys == {SessionOf[c] : c \in Calls} \ {NoKey}

VARIABLES
    clock,
    cool,      \* store: cooldownUntil of each route, 0 when undefined
    affinity,  \* store: the route of each session, or NoRoute
    at,        \* per request: where its handle stands
    sticky,    \* per request: stickyRoute
    todo,      \* per request: the routes still to check, then the candidates left
    healthy,   \* per request: candidates found so far
    until,     \* per request: the cooldown about to be written
    caught,    \* per request: handling an error, no longer inside the try
    gone,      \* per request: the client disconnected
    accepted,  \* history, per request: routes that gave it a final answer
    threw      \* history: requests for which an access to the store threw

routerVars == <<clock, cool, affinity, at, sticky, todo, healthy, until, caught, gone, accepted, threw>>
local == <<sticky, todo, healthy, until, caught>>

RouterInit ==
    /\ clock = 1 /\ cool = [r \in {Routes[i] : i \in DOMAIN Routes} |-> 0] /\ affinity = [k \in Keys |-> NoRoute]
    /\ at = [c \in Calls |-> "new"] /\ sticky = [c \in Calls |-> NoRoute]
    /\ todo = [c \in Calls |-> <<>>] /\ healthy = [c \in Calls |-> <<>>]
    /\ until = [c \in Calls |-> 0] /\ caught = [c \in Calls |-> FALSE]
    /\ gone = [c \in Calls |-> FALSE] /\ accepted = [c \in Calls |-> {}] /\ threw = {}

Goto(c, where) == at' = [at EXCEPT ![c] = where]
Current(c) == Head(todo[c])

-----------------------------------------------------------------------------
(* Choosing the candidates. *)

\* getAffinity, then the sticky route first.
Lookup(c) ==
    LET s == IF SessionOf[c] = NoKey THEN NoRoute ELSE affinity[SessionOf[c]]
    IN /\ at[c] = "new" /\ Goto(c, "check")
       /\ sticky' = [sticky EXCEPT ![c] = s]
       /\ todo' = [todo EXCEPT ![c] = SelectSeq(Routes, LAMBDA r : r = s) \o SelectSeq(Routes, LAMBDA r : r # s)]
       /\ UNCHANGED <<clock, cool, affinity, healthy, until, caught, gone, accepted, threw>>

\* One route's health is read: a candidate when its cooldown is over.
Check(c) ==
    /\ at[c] = "check" /\ todo[c] # <<>>
    /\ healthy' = [healthy EXCEPT ![c] =
                     IF cool[Current(c)] <= clock /\ Current(c) \in Backed THEN Append(@, Current(c)) ELSE @]
    /\ todo' = [todo EXCEPT ![c] = Tail(@)]
    /\ UNCHANGED <<clock, cool, affinity, at, sticky, until, caught, gone, accepted, threw>>

\* All are read: no candidate is a 503.
Checked(c) ==
    /\ at[c] = "check" /\ todo[c] = <<>>
    /\ todo' = [todo EXCEPT ![c] = healthy[c]]
    /\ Goto(c, IF healthy[c] = <<>> THEN "failed" ELSE "try")
    /\ UNCHANGED <<clock, cool, affinity, sticky, healthy, until, caught, gone, accepted, threw>>

-----------------------------------------------------------------------------
(* One round of the loop over the candidates. *)

\* The loop is over (502 or 503), the client is gone, or the request is forwarded.
Try(c) ==
    /\ at[c] = "try"
    /\ Goto(c, IF todo[c] = <<>> \/ gone[c] THEN "failed" ELSE "calling")
    /\ caught' = [caught EXCEPT ![c] = FALSE]
    /\ UNCHANGED <<clock, cool, affinity, sticky, todo, healthy, until, gone, accepted, threw>>

\* A status that is not retryable: 2xx keeps the session on this route.
Final(c, ok) ==
    /\ at[c] = "calling"
    /\ Goto(c, IF ok THEN "good" ELSE "refused")
    /\ accepted' = [accepted EXCEPT ![c] = @ \cup {Current(c)}]
    /\ UNCHANGED <<clock, cool, affinity, local, gone, threw>>

\* 408, 409, 425, 429 or 5xx, with a cooldown from the hint or the route.
Retryable(c, d) ==
    /\ at[c] = "calling" /\ Goto(c, "bad")
    /\ until' = [until EXCEPT ![c] = clock + d]
    /\ UNCHANGED <<clock, cool, affinity, sticky, todo, healthy, caught, gone, accepted, threw>>

\* The catch block: over when the client is gone, else the route cools down.
Catch(c, d) ==
    /\ Goto(c, IF gone[c] THEN "failed" ELSE "bad")
    /\ until' = [until EXCEPT ![c] = clock + d] /\ caught' = [caught EXCEPT ![c] = TRUE]
    /\ UNCHANGED <<clock, cool, affinity, sticky, todo, healthy, gone, accepted>>

BackendThrows(c, d) == at[c] = "calling" /\ Catch(c, d) /\ UNCHANGED threw

\* Mutated: a refusal (4xx) is offered to the next candidate too.
PutGoodFailsOver(c) ==
    /\ at[c] \in {"good", "refused"}
    /\ cool' = [cool EXCEPT ![Current(c)] = 0]
    /\ IF at[c] = "refused"
       THEN todo' = [todo EXCEPT ![c] = Tail(@)] /\ Goto(c, "try")
       ELSE Goto(c, IF SessionOf[c] # NoKey THEN "stick" ELSE "answered") /\ UNCHANGED todo
    /\ UNCHANGED <<clock, affinity, sticky, healthy, until, caught, gone, accepted, threw>>

\* putRouteHealth after a final answer: the cooldown is cleared, whoever set it.
PutGood(c) ==
    /\ at[c] \in {"good", "refused"}
    /\ cool' = [cool EXCEPT ![Current(c)] = 0]
    /\ Goto(c, IF at[c] = "good" /\ SessionOf[c] # NoKey THEN "stick" ELSE "answered")
    /\ UNCHANGED <<clock, affinity, local, gone, accepted, threw>>

Stick(c) ==
    /\ at[c] = "stick" /\ Goto(c, "answered")
    /\ affinity' = [affinity EXCEPT ![SessionOf[c]] = Current(c)]
    /\ UNCHANGED <<clock, cool, local, gone, accepted, threw>>

\* The route failed: the last candidate's own response is returned, an error goes on.
After(c) == IF Len(todo[c]) = 1 /\ ~caught[c] THEN "failed" ELSE "try"
NextCandidate(c) == todo' = [todo EXCEPT ![c] = Tail(@)] /\ Goto(c, After(c))

PutBad(c) ==
    /\ at[c] = "bad"
    /\ cool' = [cool EXCEPT ![Current(c)] = until[c]]
    /\ IF SessionOf[c] # NoKey /\ sticky[c] = Current(c)
       THEN Goto(c, "unstick") /\ UNCHANGED todo
       ELSE NextCandidate(c)
    /\ UNCHANGED <<clock, affinity, sticky, healthy, until, caught, gone, accepted, threw>>

Unstick(c) ==
    /\ at[c] = "unstick"
    /\ affinity' = [affinity EXCEPT ![SessionOf[c]] = NoRoute]
    /\ NextCandidate(c)
    /\ UNCHANGED <<clock, cool, sticky, healthy, until, caught, gone, accepted, threw>>

\* The store throws: inside the try it is caught, as if the backend had failed.
StoreThrows(c, d) ==
    /\ at[c] \notin {"calling", "answered", "failed"}
    /\ threw' = threw \cup {c}
    /\ IF caught[c] \/ at[c] \in {"new", "check", "try"}
       THEN Goto(c, "failed") /\ UNCHANGED <<clock, cool, affinity, local, gone, accepted>>
       ELSE Catch(c, d)

Disconnect(c) ==
    /\ ~gone[c] /\ at[c] \notin {"answered", "failed"}
    /\ gone' = [gone EXCEPT ![c] = TRUE]
    /\ UNCHANGED <<clock, cool, affinity, at, local, accepted, threw>>

-----------------------------------------------------------------------------

\* clearAffinity, or the entry's time to live is over.
Forget(k) ==
    /\ affinity[k] # NoRoute /\ affinity' = [affinity EXCEPT ![k] = NoRoute]
    /\ UNCHANGED <<clock, cool, at, local, gone, accepted, threw>>

ClockAdvances == clock < MaxNow /\ clock' = clock + 1 /\ UNCHANGED <<cool, affinity, at, local, gone, accepted, threw>>

Route(c) ==
    \/ Lookup(c) \/ Check(c) \/ Checked(c) \/ Try(c) \/ PutGood(c) \/ Stick(c) \/ PutBad(c) \/ Unstick(c)
    \/ \E ok \in BOOLEAN : Final(c, ok)
    \/ \E d \in 1 .. MaxCool : Retryable(c, d) \/ BackendThrows(c, d) \/ StoreThrows(c, d)

RouterNext ==
    (\E c \in Calls : Route(c) \/ Disconnect(c)) \/ (\E k \in Keys : Forget(k)) \/ ClockAdvances

RouterSpec == RouterInit /\ [][RouterNext]_routerVars

\* A request is accepted by at most one upstream: failover (handle's loop) stops
\* at the first final answer, that answer reaches the client, and an error is
\* answered only when no upstream accepted.  A request one of whose writes to the
\* store threw is excepted: handle takes it for a failure of the route.
AcceptedOnce ==
    \A c \in Calls \ threw :
        /\ Cardinality(accepted[c]) <= 1
        /\ at[c] = "answered" => accepted[c] = {Current(c)}
        /\ at[c] \in {"try", "calling", "failed"} => accepted[c] = {}

\* The inductive invariant: from a final answer on, the upstream that accepted is
\* the candidate the request stands at, and before it there is none.
Answered == {"good", "refused", "stick", "answered"}
AcceptedByCurrent(c) == accepted[c] = IF at[c] \in Answered THEN {Current(c)} ELSE {}
RouterIInv ==
    /\ DOMAIN at = Calls /\ DOMAIN todo = Calls /\ DOMAIN accepted = Calls
    /\ \A c \in Calls \ threw : AcceptedByCurrent(c)

=============================================================================
