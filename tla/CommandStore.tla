---------------------------- MODULE CommandStore ----------------------------
(***************************************************************************)
(* Durable commands under leases: the lease store (control-plane/lease.ts), *)
(* whose fencing tokens are the generations of the workers, and the command *)
(* records of the runtime state store (durability/runtime-state.ts,         *)
(* local-runtime-state.ts, postgres/persistence.ts), which a worker claims, *)
(* performs and settles while the lease may pass to another worker at any   *)
(* point.                                                                   *)
(***************************************************************************)
EXTENDS Naturals, Sequences

CONSTANTS
    Workers,
    MaxToken,   \* bound on leases taken
    MaxClaims   \* bound on claims granted

VARIABLES
    lease,       \* #leases: owner, token and whether expiresAt has passed; owner "none" when there is no row
    tokens,      \* #tokens
    held,        \* per worker: the token it last acquired, 0 when none
    command,     \* the command record: status, token and writer
    doing,       \* per worker: "idle" or "performing"
    claims,      \* history: the claims granted, in order
    staleClaim   \* history: a claim replaced a record of a newer generation

commandVars == <<lease, tokens, held, command, doing, claims, staleClaim>>

NoLease == [owner |-> "none", token |-> 0, expired |-> TRUE]
NoRecord == [status |-> "none", token |-> 0, by |-> "none"]

CommandInit ==
    /\ lease = NoLease
    /\ tokens = 0
    /\ held = [w \in Workers |-> 0]
    /\ command = NoRecord
    /\ doing = [w \in Workers |-> "idle"]
    /\ claims = <<>>
    /\ staleClaim = FALSE

-----------------------------------------------------------------------------
(* Leases *)

\* Tokens outlive the rows they were given with.
NextToken == tokens + 1

AcquireLease(w) ==
    /\ tokens < MaxToken
    /\ lease.expired
    /\ tokens' = NextToken
    /\ lease' = [owner |-> w, token |-> NextToken, expired |-> FALSE]
    /\ held' = [held EXCEPT ![w] = NextToken]
    /\ UNCHANGED <<command, doing, claims, staleClaim>>

LeaseExpires ==
    /\ ~lease.expired
    /\ lease' = [lease EXCEPT !.expired = TRUE]
    /\ UNCHANGED <<tokens, held, command, doing, claims, staleClaim>>

Owns(w) == lease.owner = w /\ lease.token = held[w]

ReleaseLease(w) ==
    /\ Owns(w)
    /\ lease' = NoLease
    /\ UNCHANGED <<tokens, held, command, doing, claims, staleClaim>>

\* renewLease and validateLease answer alike: the lease is the worker's and has not expired.
ValidateLease(w) == Owns(w) /\ ~lease.expired

-----------------------------------------------------------------------------
(* Commands *)

Record(w, status) == [status |-> status, token |-> held[w], by |-> w]

\* Mutated: the fence is not looked at.
CanReplaceCommandUnfenced(next) == command.status = "committed" => next.status = "committed"

\* A stale generation, or a write that is not a commit, does not replace a commit.
CanReplaceCommand(next) ==
    /\ next.token >= command.token
    /\ command.status = "committed" => next.status = "committed"

Claimable == command.status \in {"none", "failed"}

ClaimCommand(w) ==
    /\ held[w] > 0 /\ doing[w] = "idle"
    /\ Len(claims) < MaxClaims
    /\ Claimable
    /\ command' = Record(w, "started")
    /\ doing' = [doing EXCEPT ![w] = "performing"]
    /\ claims' = Append(claims, [by |-> w, token |-> held[w]])
    /\ staleClaim' = (staleClaim \/ held[w] < command.token)
    /\ UNCHANGED <<lease, tokens, held>>

PutCommand(next) == command' = IF CanReplaceCommand(next) THEN next ELSE command

\* The worker that performed the command writes how it went, under the token it
\* claimed with.
SettleCommand(w, status) ==
    /\ doing[w] = "performing"
    /\ LET c == CHOOSE i \in DOMAIN claims : claims[i].by = w /\ \A j \in DOMAIN claims : claims[j].by = w => j <= i
       IN  PutCommand([status |-> status, token |-> claims[c].token, by |-> w])
    /\ doing' = [doing EXCEPT ![w] = "idle"]
    /\ UNCHANGED <<lease, tokens, held, claims, staleClaim>>

\* A worker that has the lease gives a command of an older generation up.
RecoverCommand(w) ==
    /\ ValidateLease(w)
    /\ command.status = "started" /\ command.token < held[w]
    /\ PutCommand(Record(w, "failed"))
    /\ UNCHANGED <<lease, tokens, held, doing, claims, staleClaim>>

CommandNext ==
    \/ LeaseExpires
    \/ \E w \in Workers :
        \/ AcquireLease(w)
        \/ ReleaseLease(w)
        \/ ClaimCommand(w)
        \/ \E status \in {"committed", "failed"} : SettleCommand(w, status)
        \/ RecoverCommand(w)

CommandSpec == CommandInit /\ [][CommandNext]_commandVars

-----------------------------------------------------------------------------
(* Properties *)

\* What a command is recorded to have committed is what the last claim of it did
\* (runtime-state.ts canReplaceCommand): a worker that lost the lease and wakes up
\* late neither commits over a later claim nor fails it.  claimCommand does not
\* look at fencing tokens, so this is claimed only while no worker of an older
\* generation has claimed a command that a newer one gave up.
CommittedByLastClaim ==
    ~staleClaim /\ command.status = "committed" => command.by = claims[Len(claims)].by

\* A fencing token was given to one worker.
TokensNameWorkers ==
    /\ tokens \in Nat
    /\ held \in [Workers -> 0 .. tokens]
    /\ claims \in Seq([by : Workers, token : 1 .. tokens])
    /\ command \in [status : {"none", "started", "committed", "failed"}, token : 0 .. tokens, by : Workers \cup {"none"}]
    /\ doing \in [Workers -> {"idle", "performing"}]
    /\ staleClaim \in BOOLEAN
    /\ \A v, w \in Workers : held[v] = held[w] /\ held[v] # 0 => v = w
    /\ \A i \in DOMAIN claims, w \in Workers : claims[i].token = held[w] => claims[i].by = w
    /\ \A i, j \in DOMAIN claims : claims[i].token = claims[j].token => claims[i].by = claims[j].by

\* A worker performs what it claimed, and only a claimed command is settled.
PerformedIsClaimed ==
    /\ \A w \in Workers : doing[w] = "performing" => \E i \in DOMAIN claims : claims[i].by = w
    /\ command.status = "committed" => claims # <<>>

\* The generations of the claims, and of the record, only grow.
ClaimsGrow ==
    ~staleClaim => \A i \in DOMAIN claims :
        claims[i].token <= claims[Len(claims)].token /\ claims[i].token <= command.token

\* Inductive: CommittedByLastClaim is part of it.
CommandIInv == TokensNameWorkers /\ PerformedIsClaimed /\ ClaimsGrow /\ CommittedByLastClaim
=============================================================================
