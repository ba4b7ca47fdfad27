---------------------------- MODULE AgentFencing ----------------------------
(***************************************************************************)
(* Leases and fenced agent writes of the PostgreSQL stores                 *)
(* (src/postgres/distributed-state.ts, persistence.ts).                    *)
(*                                                                         *)
(* Every operation is one SQL statement under READ COMMITTED.  A statement *)
(* reads the database clock (its db_clock CTE) and, for putAgentFenced,    *)
(* the lease row when it STARTS; it updates its target row LATER, when it  *)
(* gets the row lock, re-evaluating only the conditions on that row.       *)
(* Between the two any other statement may run, so a statement that uses   *)
(* the clock or the lease is an Issue action and an Exec action, with what *)
(* it read kept in its record in "inflight".                               *)
(***************************************************************************)
EXTENDS Naturals, FiniteSets

CONSTANTS
    Workers,      \* ownerIds of leases, and the writers of agent rows
    Agents,       \* agent ids; the lease of agent a is the resource agent:a
    Ttls,         \* the ttlMs values callers pass
    None,         \* "no owner", "no writer": the row does not exist
    MaxClock,     \* bound: last tick of the database clock
    MaxToken,     \* bound: last fencing token of a resource
    MaxInflight   \* bound: statements in flight at once

ASSUME FencingAssumption ==
    /\ Ttls \subseteq Nat \ {0}      \* acquireLease/renewLease throw on ttlMs <= 0
    /\ None \notin Workers
    /\ MaxClock \in Nat /\ MaxToken \in Nat /\ MaxInflight \in Nat

VARIABLES
    clock,      \* the database clock
    lease,      \* synth_leases: per agent [owner, token, expires]; token 0: no row
    row,        \* synth_agents: per agent [token, writer]; writer None: no row
    inflight,   \* statements that have started and not yet taken effect
    grants      \* history: every [agent, owner, token] acquireLease returned

fencingVars == <<clock, lease, row, inflight, grants>>

Fence == [agent : Agents, owner : Workers, token : Nat]

Statement == [op : {"acquire", "renew", "release", "putFenced"},
              agent : Agents, owner : Workers, token : Nat,
              ttl : Ttls \cup {0}, now : Nat]

FencingTypeOK ==
    /\ clock \in Nat
    /\ lease \in [Agents -> [owner : Workers \cup {None}, token : Nat, expires : Nat]]
    /\ row \in [Agents -> [token : Nat, writer : Workers \cup {None}]]
    /\ inflight \subseteq Statement
    /\ grants \subseteq Fence

FencingInit ==
    /\ clock = 0
    /\ lease = [a \in Agents |-> [owner |-> None, token |-> 0, expires |-> 0]]
    /\ row = [a \in Agents |-> [token |-> 0, writer |-> None]]
    /\ inflight = {}
    /\ grants = {}

-----------------------------------------------------------------------------
Tick ==
    /\ clock < MaxClock
    /\ clock' = clock + 1
    /\ UNCHANGED <<lease, row, inflight, grants>>

Issue(s) ==
    /\ Cardinality(inflight) < MaxInflight
    /\ inflight' = inflight \cup {s}
    /\ UNCHANGED <<clock, lease, row, grants>>

\* owner_id, fencing_token and expires_at_ms > now_ms: the condition
\* validateLease, renewLease and putAgentFenced share.
LeaseCurrent(a, owner, token, now) ==
    /\ lease[a].owner = owner
    /\ lease[a].token = token
    /\ lease[a].expires > now

IssueAcquire(w, a, ttl) ==
    Issue([op |-> "acquire", agent |-> a, owner |-> w, token |-> 0,
           ttl |-> ttl, now |-> clock])

\* A caller renews and releases with a fence it was granted at some time,
\* current or not: nothing tells it that the lease has moved on.  The UPDATE
\* goes on only if it finds the row to update in its snapshot.
IssueRenew(g, ttl) ==
    /\ LeaseCurrent(g.agent, g.owner, g.token, clock)
    /\ Issue([op |-> "renew", agent |-> g.agent, owner |-> g.owner, token |-> g.token,
              ttl |-> ttl, now |-> clock])

IssueRelease(g) ==
    /\ lease[g.agent].owner = g.owner /\ lease[g.agent].token = g.token
    /\ Issue([op |-> "release", agent |-> g.agent, owner |-> g.owner, token |-> g.token,
              ttl |-> 0, now |-> clock])

\* putAgentFenced up to the INSERT: the fence must be for this agent, and the
\* SELECT over synth_leases must find it current (else false, nothing written).
IssueFencedWrite(a, g) ==
    /\ g.agent = a
    /\ LeaseCurrent(g.agent, g.owner, g.token, clock)
    /\ Issue([op |-> "putFenced", agent |-> a, owner |-> g.owner, token |-> g.token,
              ttl |-> 0, now |-> clock])

Finish(s) == inflight' = inflight \ {s}

\* INSERT token 1, or token+1 over a row that expired by the statement's clock.
ExecAcquire(s) ==
    /\ s.op = "acquire"
    /\ lease[s.agent].token < MaxToken
    /\ LET a == s.agent
           token == lease[a].token + 1
       IN  IF lease[a].token = 0 \/ lease[a].expires <= s.now
           THEN /\ lease' = [lease EXCEPT ![a] =
                                [owner |-> s.owner, token |-> token,
                                 expires |-> s.now + s.ttl]]
                /\ grants' = grants \cup {[agent |-> a, owner |-> s.owner, token |-> token]}
           ELSE UNCHANGED <<lease, grants>>
    /\ Finish(s)
    /\ UNCHANGED <<clock, row>>

ExecRenew(s) ==
    /\ s.op = "renew"
    /\ lease' = IF LeaseCurrent(s.agent, s.owner, s.token, s.now)
                THEN [lease EXCEPT ![s.agent].expires = s.now + s.ttl]
                ELSE lease
    /\ Finish(s)
    /\ UNCHANGED <<clock, row, grants>>

\* Release expires the row and keeps its token; it does not look at expiry.
ExecRelease(s) ==
    /\ s.op = "release"
    /\ lease' = IF lease[s.agent].owner = s.owner /\ lease[s.agent].token = s.token
                THEN [lease EXCEPT ![s.agent].expires = s.now]
                ELSE lease
    /\ Finish(s)
    /\ UNCHANGED <<clock, row, grants>>

\* The INSERT ... ON CONFLICT of putAgentFenced: only the agent row is looked
\* at again.
ExecFencedWrite(s) ==
    /\ s.op = "putFenced"
    /\ row' = IF row[s.agent].writer = None \/ row[s.agent].token <= s.token
              THEN [row EXCEPT ![s.agent] = [token |-> s.token, writer |-> s.owner]]
              ELSE row
    /\ Finish(s)
    /\ UNCHANGED <<clock, lease, grants>>

\* createAgent: ON CONFLICT DO NOTHING.
CreateAgent(w, a) ==
    /\ row[a].writer = None
    /\ row' = [row EXCEPT ![a] = [token |-> 0, writer |-> w]]
    /\ UNCHANGED <<clock, lease, inflight, grants>>

\* Mutated: the unfenced upsert overwrites a fenced row.
PutAgentOverFence(w, a) ==
    /\ row' = [row EXCEPT ![a].writer = w]
    /\ UNCHANGED <<clock, lease, inflight, grants>>

\* putAgent: an unfenced upsert, refused (AGENT_FENCE_REQUIRED) once fenced.
PutAgent(w, a) ==
    /\ row[a].writer = None \/ row[a].token = 0
    /\ row' = [row EXCEPT ![a].writer = w]
    /\ UNCHANGED <<clock, lease, inflight, grants>>

IssueAny ==
    \/ \E w \in Workers, a \in Agents, ttl \in Ttls : IssueAcquire(w, a, ttl)
    \/ \E g \in grants, ttl \in Ttls : IssueRenew(g, ttl)
    \/ \E g \in grants : IssueRelease(g)
    \/ \E a \in Agents, g \in grants : IssueFencedWrite(a, g)

ExecAny ==
    \E s \in inflight :
        ExecAcquire(s) \/ ExecRenew(s) \/ ExecRelease(s) \/ ExecFencedWrite(s)

FencingNext ==
    \/ Tick
    \/ IssueAny
    \/ ExecAny
    \/ \E w \in Workers, a \in Agents : CreateAgent(w, a) \/ PutAgent(w, a)

FencingSpec == FencingInit /\ [][FencingNext]_fencingVars

-----------------------------------------------------------------------------
(* Safety. *)

\* A fencing token names one owner for ever: acquireLease never hands the same
\* generation of a resource to two workers, whatever the races between claims,
\* renewals and releases.
TokenNamesOneOwner ==
    \A g, h \in grants : g.agent = h.agent /\ g.token = h.token => g.owner = h.owner

\* An agent row stamped with generation t was written by the worker that
\* acquireLease granted t, and t is not ahead of the lease: putAgentFenced
\* never stamps a generation nobody holds.
RowGenerationGranted ==
    \A a \in Agents : row[a].token > 0 =>
        /\ [agent |-> a, owner |-> row[a].writer, token |-> row[a].token] \in grants
        /\ row[a].token <= lease[a].token

\* Once the current generation has written, the row is its owner's: neither an
\* overtaken putAgentFenced still in flight nor an unfenced putAgent or
\* createAgent replaces it.
CurrentGenerationKeepsRow ==
    \A a \in Agents :
        row[a].token > 0 /\ row[a].token = lease[a].token => row[a].writer = lease[a].owner

\* The fencing_token column never goes down (synth_agents "prevents generation
\* regression"), and within one generation the row never passes to another writer.
GenerationNeverRegresses ==
    [][\A a \in Agents :
          /\ row'[a].token >= row[a].token
          /\ row[a].token > 0 /\ row'[a].token = row[a].token => row'[a].writer = row[a].writer]_fencingVars

\* A resource changes hands only when the previous lease has run out by the
\* database clock of that moment, although acquireLease compares with the clock
\* of the moment its statement started.
HandoverOnlyAfterExpiry ==
    [][\A a \in Agents : lease'[a].token # lease[a].token =>
          lease[a].token = 0 \/ lease[a].expires <= clock]_fencingVars

\* What DurabilityProvider.putAgentFenced is documented to do: "Atomically
\* persist an agent snapshot only if the supplied fencing proof is still
\* current".  It does not hold: a write that waited for its row lock lands under
\* the generation it read, as long as a later one has not written.
FenceCurrentAtWrite ==
    [][\A a \in Agents : row'[a] # row[a] /\ row'[a].token > 0 =>
          lease[a].token = row'[a].token]_fencingVars

-----------------------------------------------------------------------------
(* The inductive invariant behind the safety properties. *)

\* A statement's clock is not in the future.
ClocksRead == \A s \in inflight : s.now <= clock

\* Every grant is of a generation the lease row has reached, and the row's own
\* generation was granted to its owner.
GrantsMatchLeases ==
    /\ \A g \in grants : 0 < g.token /\ g.token <= lease[g.agent].token
    /\ \A a \in Agents : lease[a].token > 0 =>
          [agent |-> a, owner |-> lease[a].owner, token |-> lease[a].token] \in grants

\* A fenced write in flight carries a fence that was granted to its writer.
InflightWritesGranted ==
    \A s \in inflight : s.op = "putFenced" =>
        [agent |-> s.agent, owner |-> s.owner, token |-> s.token] \in grants

FencingIInv ==
    /\ FencingTypeOK
    /\ ClocksRead
    /\ GrantsMatchLeases
    /\ InflightWritesGranted
    /\ TokenNamesOneOwner
    /\ RowGenerationGranted

=============================================================================
