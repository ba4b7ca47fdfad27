----------------------------- MODULE AgentProofs ------------------------------
(***************************************************************************)
(* Proofs about the agents that outlive a process: their leases and fenced *)
(* rows, for every number of workers, agents, lifetimes and statements in  *)
(* flight, and the durable workflow's mailbox, for every number of         *)
(* messages, hints and park overrides.                                     *)
(***************************************************************************)
EXTENDS AgentFencing, DurableAgent, SequenceTheorems, TLAPS

-----------------------------------------------------------------------------
(* Leases and fenced rows.                                                    *)

\* The ttl a statement carries is a number, 0 where it has none.
LEMMA StatementNumbers == \A s \in Statement : s.ttl \in Nat
  <1>1. Ttls \cup {0} \subseteq Nat
    BY FencingAssumption
  <1> QED
    BY Zenon, <1>1 DEF Statement

\* Nothing is leased, written or in flight at the start.
LEMMA InitFencingIInv == FencingInit => FencingIInv
  BY FencingAssumption
  DEF FencingInit, FencingIInv, FencingTypeOK, ClocksRead, GrantsMatchLeases, InflightWritesGranted,
      TokenNamesOneOwner, RowGenerationGranted, Fence, Statement

\* Starting any statement but putAgentFenced keeps the invariant, and so does
\* starting a putAgentFenced whose fence was granted.
LEMMA IssuePreservesIInv ==
  ASSUME FencingIInv, NEW s \in Statement, Issue(s), s.now = clock,
         s.op = "putFenced" =>
            [agent |-> s.agent, owner |-> s.owner, token |-> s.token] \in grants
  PROVE  FencingIInv'
  BY FencingAssumption
  DEF FencingIInv, FencingTypeOK, Issue, ClocksRead, GrantsMatchLeases, InflightWritesGranted,
      TokenNamesOneOwner, RowGenerationGranted

\* The four ways a statement starts.
LEMMA IssueAnyPreservesIInv ==
  ASSUME FencingIInv, IssueAny
  PROVE  FencingIInv'
  <1> USE FencingAssumption DEF FencingIInv
  <1>1. ASSUME NEW w \in Workers, NEW a \in Agents, NEW ttl \in Ttls, IssueAcquire(w, a, ttl)
        PROVE  FencingIInv'
    <2> DEFINE s == [op |-> "acquire", agent |-> a, owner |-> w, token |-> 0,
                     ttl |-> ttl, now |-> clock]
    <2>1. s \in Statement /\ s.now = clock /\ s.op # "putFenced"
      BY Zenon DEF Statement, FencingTypeOK
    <2> QED
      BY Zenon, <1>1, <2>1, IssuePreservesIInv DEF IssueAcquire
  <1>2. ASSUME NEW g \in grants, NEW ttl \in Ttls, IssueRenew(g, ttl)
        PROVE  FencingIInv'
    <2> DEFINE s == [op |-> "renew", agent |-> g.agent, owner |-> g.owner,
                     token |-> g.token, ttl |-> ttl, now |-> clock]
    <2>1. s \in Statement /\ s.now = clock /\ s.op # "putFenced"
      BY Zenon DEF Statement, FencingTypeOK, Fence
    <2> QED
      BY Zenon, <1>2, <2>1, IssuePreservesIInv DEF IssueRenew
  <1>3. ASSUME NEW g \in grants, IssueRelease(g)
        PROVE  FencingIInv'
    <2> DEFINE s == [op |-> "release", agent |-> g.agent, owner |-> g.owner,
                     token |-> g.token, ttl |-> 0, now |-> clock]
    <2>1. s \in Statement /\ s.now = clock /\ s.op # "putFenced"
      BY Zenon DEF Statement, FencingTypeOK, Fence
    <2> QED
      BY Zenon, <1>3, <2>1, IssuePreservesIInv DEF IssueRelease
  <1>4. ASSUME NEW a \in Agents, NEW g \in grants, IssueFencedWrite(a, g)
        PROVE  FencingIInv'
    <2> DEFINE s == [op |-> "putFenced", agent |-> a, owner |-> g.owner,
                     token |-> g.token, ttl |-> 0, now |-> clock]
    <2>1. s \in Statement /\ s.now = clock
      BY Zenon DEF Statement, FencingTypeOK, Fence
    <2>2. [agent |-> s.agent, owner |-> s.owner, token |-> s.token] = g
      BY Zenon, <1>4 DEF IssueFencedWrite, FencingTypeOK, Fence
    <2> HIDE DEF s
    <2>3. Issue(s)
      BY Zenon, <1>4 DEF IssueFencedWrite, s
    <2> QED
      BY Zenon, <2>1, <2>2, <2>3, IssuePreservesIInv
  <1> QED
    BY Zenon, <1>1, <1>2, <1>3, <1>4 DEF IssueAny

\* acquireLease: the new generation is one above every grant of the resource,
\* so it can be confused with none of them.
LEMMA AcquirePreservesIInv ==
  ASSUME FencingIInv, NEW s \in inflight, ExecAcquire(s)
  PROVE  FencingIInv'
  <1> DEFINE a == s.agent
             g == [agent |-> a, owner |-> s.owner, token |-> lease[a].token + 1]
  <1> USE FencingAssumption DEF FencingIInv
  <1>1. s \in Statement /\ a \in Agents /\ s.owner \in Workers /\ s.now \in Nat /\ s.ttl \in Nat
    BY Zenon, StatementNumbers DEF FencingTypeOK, Statement
  <1>2. CASE lease[a].token = 0 \/ lease[a].expires <= s.now
    <2>1. /\ lease' = [lease EXCEPT ![a] = [owner |-> s.owner, token |-> lease[a].token + 1,
                                            expires |-> s.now + s.ttl]]
          /\ grants' = grants \cup {g}
          /\ inflight' = inflight \ {s}
          /\ clock' = clock /\ row' = row
      BY Zenon, <1>2 DEF ExecAcquire, Finish
    <2>2. g \in Fence /\ lease[a].token \in Nat
      BY <1>1 DEF FencingTypeOK, Fence
    <2>3. FencingTypeOK'
      BY <1>1, <2>1, <2>2 DEF FencingTypeOK
    <2>4. GrantsMatchLeases'
      BY <1>1, <2>1, <2>2 DEF GrantsMatchLeases, FencingTypeOK, Fence
    <2>5. TokenNamesOneOwner'
      <3>1. \A h \in grants : h.agent = a => h.token < g.token
        BY <2>2 DEF GrantsMatchLeases, FencingTypeOK, Fence
      <3>2. \A h \in grants : h.token \in Nat
        BY Zenon DEF FencingTypeOK, Fence
      <3> QED
        BY <2>1, <2>2, <3>1, <3>2 DEF TokenNamesOneOwner, Fence
    <2>6. RowGenerationGranted'
      BY <1>1, <2>1, <2>2 DEF RowGenerationGranted, FencingTypeOK
    <2>7. ClocksRead' /\ InflightWritesGranted'
      BY Zenon, <2>1 DEF ClocksRead, InflightWritesGranted
    <2> QED
      BY Zenon, <2>3, <2>4, <2>5, <2>6, <2>7
  <1>3. CASE ~(lease[a].token = 0 \/ lease[a].expires <= s.now)
    <2>1. lease' = lease /\ grants' = grants /\ inflight' = inflight \ {s} /\ clock' = clock /\ row' = row
      BY Zenon, <1>3 DEF ExecAcquire, Finish
    <2> QED
      BY Zenon, <2>1 DEF FencingTypeOK, ClocksRead, GrantsMatchLeases, InflightWritesGranted,
                  TokenNamesOneOwner, RowGenerationGranted
  <1> QED
    BY Zenon, <1>2, <1>3

\* renewLease and releaseLease move only the expiry of the lease row.
LEMMA ExpiryOnly ==
  ASSUME FencingIInv, NEW s \in inflight, ExecRenew(s) \/ ExecRelease(s)
  PROVE  /\ lease' \in [Agents -> [owner : Workers \cup {None}, token : Nat, expires : Nat]]
         /\ \A a \in Agents : lease'[a].owner = lease[a].owner /\ lease'[a].token = lease[a].token
  <1>1. s \in Statement /\ s.agent \in Agents /\ s.now \in Nat /\ s.now + s.ttl \in Nat
    BY StatementNumbers DEF FencingIInv, FencingTypeOK, Statement
  <1>2. \E e \in Nat : lease' = [lease EXCEPT ![s.agent].expires = e] \/ lease' = lease
    BY Zenon, <1>1 DEF ExecRenew, ExecRelease
  <1> QED
    BY <1>1, <1>2 DEF FencingIInv, FencingTypeOK

\* Hence they preserve the invariant, which does not look at expiry.
LEMMA ExpiryOnlyPreservesIInv ==
  ASSUME FencingIInv, NEW s \in inflight, ExecRenew(s) \/ ExecRelease(s)
  PROVE  FencingIInv'
  <1> USE DEF FencingIInv
  <1>1. inflight' = inflight \ {s} /\ clock' = clock /\ row' = row /\ grants' = grants
    BY Zenon DEF ExecRenew, ExecRelease, Finish
  <1>2. FencingTypeOK'
    BY Zenon, <1>1, ExpiryOnly DEF FencingTypeOK
  <1>3. GrantsMatchLeases'
    BY Zenon, <1>1, ExpiryOnly DEF GrantsMatchLeases, FencingTypeOK, Fence
  <1>4. RowGenerationGranted'
    BY Zenon, <1>1, ExpiryOnly DEF RowGenerationGranted
  <1>5. ClocksRead' /\ InflightWritesGranted' /\ TokenNamesOneOwner'
    BY Zenon, <1>1 DEF ClocksRead, InflightWritesGranted, TokenNamesOneOwner
  <1> QED
    BY Zenon, <1>2, <1>3, <1>4, <1>5

\* The second half of putAgentFenced stamps the row with a granted generation.
LEMMA FencedWritePreservesIInv ==
  ASSUME FencingIInv, NEW s \in inflight, ExecFencedWrite(s)
  PROVE  FencingIInv'
  <1> USE FencingAssumption DEF FencingIInv
  <1>1. s \in Statement /\ s.agent \in Agents /\ s.owner \in Workers /\ s.token \in Nat
    BY Zenon DEF FencingTypeOK, Statement
  <1>2. inflight' = inflight \ {s} /\ clock' = clock /\ lease' = lease /\ grants' = grants
    BY Zenon DEF ExecFencedWrite, Finish
  <1>3. \/ row' = row
        \/ row' = [row EXCEPT ![s.agent] = [token |-> s.token, writer |-> s.owner]]
    BY Zenon DEF ExecFencedWrite
  <1>4. [agent |-> s.agent, owner |-> s.owner, token |-> s.token] \in grants
    BY Zenon DEF ExecFencedWrite, InflightWritesGranted
  <1>5. s.token <= lease[s.agent].token
    BY Zenon, <1>4 DEF GrantsMatchLeases
  <1>6. FencingTypeOK'
    BY <1>1, <1>2, <1>3 DEF FencingTypeOK
  <1>7. RowGenerationGranted'
    BY <1>1, <1>2, <1>3, <1>4, <1>5 DEF RowGenerationGranted, FencingTypeOK
  <1>8. ClocksRead' /\ InflightWritesGranted' /\ TokenNamesOneOwner' /\ GrantsMatchLeases'
    BY Zenon, <1>2 DEF ClocksRead, InflightWritesGranted, TokenNamesOneOwner, GrantsMatchLeases
  <1> QED
    BY Zenon, <1>6, <1>7, <1>8

\* A row that does not exist has no generation: a stamped row has a writer.
LEMMA AbsentRowUnfenced ==
  ASSUME FencingIInv, NEW a \in Agents
  PROVE  row[a].writer = None => row[a].token = 0
  <1> SUFFICES ASSUME row[a].token # 0 PROVE row[a].writer # None
    BY Zenon
  <1>1. row[a].token > 0
    BY DEF FencingIInv, FencingTypeOK
  <1>2. [agent |-> a, owner |-> row[a].writer, token |-> row[a].token] \in Fence
    BY Zenon, <1>1 DEF FencingIInv, FencingTypeOK, RowGenerationGranted
  <1> QED
    BY Zenon, <1>2, FencingAssumption DEF Fence

\* createAgent and putAgent leave the generation of the row at 0.
LEMMA UnfencedPreservesIInv ==
  ASSUME FencingIInv, NEW w \in Workers, NEW a \in Agents, CreateAgent(w, a) \/ PutAgent(w, a)
  PROVE  FencingIInv'
  <1> USE FencingAssumption DEF FencingIInv
  <1>0. row[a].writer = None => row[a].token = 0
    BY Zenon, AbsentRowUnfenced
  <1>1. UNCHANGED <<clock, lease, inflight, grants>>
    BY Zenon DEF CreateAgent, PutAgent
  <1>2. row' = [row EXCEPT ![a] = [token |-> 0, writer |-> w]]
    BY <1>0 DEF CreateAgent, PutAgent, FencingTypeOK
  <1>3. FencingTypeOK' /\ RowGenerationGranted'
    BY <1>1, <1>2 DEF FencingTypeOK, RowGenerationGranted
  <1>4. ClocksRead' /\ InflightWritesGranted' /\ TokenNamesOneOwner' /\ GrantsMatchLeases'
    BY Zenon, <1>1 DEF ClocksRead, InflightWritesGranted, TokenNamesOneOwner, GrantsMatchLeases
  <1> QED
    BY Zenon, <1>3, <1>4

\* The clock only moves forward, so what statements read stays in the past.
LEMMA TickPreservesIInv ==
  ASSUME FencingIInv, Tick
  PROVE  FencingIInv'
  <1>1. FencingTypeOK' /\ ClocksRead'
    BY DEF FencingIInv, FencingTypeOK, ClocksRead, Tick, Statement
  <1>2. GrantsMatchLeases' /\ InflightWritesGranted' /\ TokenNamesOneOwner' /\ RowGenerationGranted'
    BY Zenon DEF FencingIInv, Tick, GrantsMatchLeases, InflightWritesGranted, TokenNamesOneOwner,
           RowGenerationGranted
  <1> QED
    BY Zenon, <1>1, <1>2 DEF FencingIInv

\* Every step of the stores preserves the invariant.
LEMMA NextPreservesFencingIInv == FencingIInv /\ [FencingNext]_fencingVars => FencingIInv'
  <1> SUFFICES ASSUME FencingIInv, [FencingNext]_fencingVars PROVE FencingIInv'
    BY Zenon
  <1>1. CASE Tick
    BY Zenon, <1>1, TickPreservesIInv
  <1>2. CASE IssueAny
    BY Zenon, <1>2, IssueAnyPreservesIInv
  <1>3. CASE ExecAny
    BY Zenon, <1>3, AcquirePreservesIInv, ExpiryOnlyPreservesIInv, FencedWritePreservesIInv DEF ExecAny
  <1>4. CASE \E w \in Workers, a \in Agents : CreateAgent(w, a) \/ PutAgent(w, a)
    BY Zenon, <1>4, UnfencedPreservesIInv
  <1>5. CASE UNCHANGED fencingVars
    BY Zenon, <1>5 DEF fencingVars, FencingIInv, FencingTypeOK, ClocksRead, GrantsMatchLeases, InflightWritesGranted,
                TokenNamesOneOwner, RowGenerationGranted
  <1> QED
    BY Zenon, <1>1, <1>2, <1>3, <1>4, <1>5 DEF FencingNext

\* The leases and agent rows of the PostgreSQL stores satisfy the fencing
\* invariant under every interleaving of their statements: tokens name one
\* owner, and a stamped row was written by the owner of its generation.
THEOREM FencingInvariant == FencingSpec => []FencingIInv
  <1> QED
    BY InitFencingIInv, NextPreservesFencingIInv, PTL DEF FencingSpec

\* Once the current generation has written an agent row, the row is its
\* owner's until the lease changes hands (putAgentFenced, putAgent, createAgent).
THEOREM RowBelongsToCurrentGeneration == FencingSpec => []CurrentGenerationKeepsRow
  <1>1. FencingIInv => CurrentGenerationKeepsRow
    <2> SUFFICES ASSUME FencingIInv, NEW a \in Agents, row[a].token > 0, row[a].token = lease[a].token
                 PROVE  row[a].writer = lease[a].owner
      BY Zenon DEF CurrentGenerationKeepsRow
    <2>1. /\ [agent |-> a, owner |-> row[a].writer, token |-> row[a].token] \in grants
          /\ [agent |-> a, owner |-> lease[a].owner, token |-> lease[a].token] \in grants
      BY Zenon DEF FencingIInv, RowGenerationGranted, GrantsMatchLeases
    <2> QED
      BY Zenon, <2>1 DEF FencingIInv, TokenNamesOneOwner
  <1> QED
    BY <1>1, FencingInvariant, PTL

\* One step of a fenced write: the row it replaces has an older generation, or
\* the same generation and hence the same writer.
LEMMA StepKeepsGeneration ==
  ASSUME FencingIInv, [FencingNext]_fencingVars, NEW a \in Agents
  PROVE  /\ row'[a].token >= row[a].token
         /\ row[a].token > 0 /\ row'[a].token = row[a].token => row'[a].writer = row[a].writer
  <1> USE FencingAssumption
  <1>0. row[a].token \in Nat
    BY Zenon DEF FencingIInv, FencingTypeOK
  <1>1. CASE row' = row
    BY <1>0, <1>1
  <1>2. ASSUME NEW w \in Workers, NEW b \in Agents, CreateAgent(w, b) \/ PutAgent(w, b)
        PROVE  /\ row'[a].token >= row[a].token
               /\ row[a].token > 0 /\ row'[a].token = row[a].token => row'[a].writer = row[a].writer
    <2>1. row[b].token = 0
      BY Zenon, <1>2, AbsentRowUnfenced DEF CreateAgent, PutAgent
    <2> QED
      BY <1>0, <1>2, <2>1 DEF CreateAgent, PutAgent, FencingIInv, FencingTypeOK
  <1>3. ASSUME NEW s \in inflight, ExecFencedWrite(s)
        PROVE  /\ row'[a].token >= row[a].token
               /\ row[a].token > 0 /\ row'[a].token = row[a].token => row'[a].writer = row[a].writer
    <2>1. s.agent \in Agents /\ s.token \in Nat /\ s.owner \in Workers
      BY Zenon DEF FencingIInv, FencingTypeOK, Statement
    <2>2. [agent |-> s.agent, owner |-> s.owner, token |-> s.token] \in grants
      BY Zenon, <1>3 DEF ExecFencedWrite, FencingIInv, InflightWritesGranted
    <2>3. row[a].token > 0 =>
             [agent |-> a, owner |-> row[a].writer, token |-> row[a].token] \in grants
      BY Zenon DEF FencingIInv, RowGenerationGranted
    <2>4. row[a].token > 0 /\ a = s.agent /\ row[a].token = s.token => row[a].writer = s.owner
      BY Zenon, <2>2, <2>3 DEF FencingIInv, TokenNamesOneOwner
    <2>5. row[s.agent].writer = None => row[s.agent].token = 0
      BY Zenon, <2>1, AbsentRowUnfenced
    <2>6. CASE row' = row
      BY <1>0, <2>6
    <2>7. CASE /\ row' = [row EXCEPT ![s.agent] = [token |-> s.token, writer |-> s.owner]]
               /\ row[s.agent].writer = None \/ row[s.agent].token <= s.token
      BY <1>0, <2>1, <2>4, <2>5, <2>7 DEF FencingIInv, FencingTypeOK
    <2> QED
      BY Zenon, <1>3, <2>6, <2>7 DEF ExecFencedWrite
  <1>4. ASSUME ~ \E s \in inflight : ExecFencedWrite(s),
               ~ \E w \in Workers, b \in Agents : CreateAgent(w, b) \/ PutAgent(w, b)
        PROVE  row' = row
    BY Zenon, <1>4 DEF FencingNext, fencingVars, Tick, IssueAny, IssueAcquire, IssueRenew, IssueRelease, IssueFencedWrite,
                Issue, ExecAny, ExecAcquire, ExecRenew, ExecRelease
  <1> QED
    BY Zenon, <1>1, <1>2, <1>3, <1>4

\* The generation of an agent row never goes down, and a generation's row never
\* passes to another writer (putAgentFenced, putAgent, createAgent).
THEOREM GenerationsOnlyAdvance == FencingSpec => GenerationNeverRegresses
  <1>1. FencingIInv /\ [FencingNext]_fencingVars =>
          [\A a \in Agents :
             /\ row'[a].token >= row[a].token
             /\ row[a].token > 0 /\ row'[a].token = row[a].token => row'[a].writer = row[a].writer]_fencingVars
    BY Zenon, StepKeepsGeneration
  <1> QED
    BY <1>1, FencingInvariant, PTL DEF FencingSpec, GenerationNeverRegresses

\* acquireLease hands a resource over only when the lease it replaces has
\* expired by the database clock of that moment.
THEOREM HandoverAfterExpiry == FencingSpec => HandoverOnlyAfterExpiry
  <1>1. FencingIInv /\ [FencingNext]_fencingVars =>
          [\A a \in Agents : lease'[a].token # lease[a].token =>
              lease[a].token = 0 \/ lease[a].expires <= clock]_fencingVars
    <2> SUFFICES ASSUME FencingIInv, [FencingNext]_fencingVars, NEW a \in Agents, lease'[a].token # lease[a].token
                 PROVE  lease[a].token = 0 \/ lease[a].expires <= clock
      BY Zenon
    <2>1. ASSUME NEW s \in inflight, ExecAcquire(s)
          PROVE  lease[a].token = 0 \/ lease[a].expires <= clock
      <3>1. s.agent \in Agents /\ s.now \in Nat /\ s.now <= clock /\ clock \in Nat
        BY Zenon DEF FencingIInv, FencingTypeOK, Statement, ClocksRead
      <3>2. lease[a].expires \in Nat
        BY Zenon DEF FencingIInv, FencingTypeOK
      <3>3. \A b \in Agents : b # s.agent => lease'[b] = lease[b]
        BY Zenon, <2>1, <3>1 DEF ExecAcquire, FencingIInv, FencingTypeOK
      <3>4. lease' # lease => lease[s.agent].token = 0 \/ lease[s.agent].expires <= s.now
        BY Zenon, <2>1 DEF ExecAcquire
      <3> QED
        BY <3>1, <3>2, <3>3, <3>4
    <2>2. ASSUME NEW s \in inflight, ExecRenew(s) \/ ExecRelease(s)
          PROVE  lease'[a].token = lease[a].token
      BY Zenon, <2>2, ExpiryOnly
    <2>3. ASSUME ~ \E s \in inflight : ExecAcquire(s) \/ ExecRenew(s) \/ ExecRelease(s)
          PROVE  lease' = lease
      BY Zenon, <2>3 DEF FencingNext, fencingVars, Tick, IssueAny, IssueAcquire, IssueRenew, IssueRelease, IssueFencedWrite,
                  Issue, ExecAny, ExecFencedWrite, CreateAgent, PutAgent
    <2> QED
      BY Zenon, <2>1, <2>2, <2>3
  <1> QED
    BY <1>1, FencingInvariant, PTL DEF FencingSpec, HandoverOnlyAfterExpiry

-----------------------------------------------------------------------------
(* The durable agent.                                                         *)

\* Splitting a sequence after its first n elements loses nothing.
LEMMA SplitAt ==
  ASSUME NEW S, NEW s \in Seq(S), NEW n \in 0 .. Len(s)
  PROVE  /\ SubSeq(s, 1, n) \in Seq(S)
         /\ SubSeq(s, n + 1, Len(s)) \in Seq(S)
         /\ Len(SubSeq(s, 1, n)) = n
         /\ SubSeq(s, 1, n) \o SubSeq(s, n + 1, Len(s)) = s
  <1> Len(s) \in Nat
    BY Zenon, LenProperties
  <1>1. SubSeq(s, 1, n) \in Seq(S) /\ Len(SubSeq(s, 1, n)) = n
    BY SubSeqProperties
  <1>2. SubSeq(s, n + 1, Len(s)) \in Seq(S)
    BY SubSeqProperties
  <1>3. SubSeq(s, 1, n) \o SubSeq(s, n + 1, Len(s)) = s
    <2>1. 1 \in 1 .. Len(s) + 1 /\ n \in 1 - 1 .. Len(s) /\ Len(s) \in n .. Len(s)
      OBVIOUS
    <2>2. SubSeq(s, 1, n) \o SubSeq(s, n + 1, Len(s)) = SubSeq(s, 1, Len(s))
      BY Zenon, <2>1, ConcatAdjacentSubSeq
    <2> QED
      BY Zenon, <2>2, SubSeqFull
  <1> QED
    BY Zenon, <1>1, <1>2, <1>3

\* Appending leaves a prefix where it was.
LEMMA AppendKeepsPrefix ==
  ASSUME NEW S, NEW s \in Seq(S), NEW e \in S, NEW n \in 0 .. Len(s)
  PROVE  SubSeq(Append(s, e), 1, n) = SubSeq(s, 1, n)
  BY SMT

\* The first of two concatenated sequences is a prefix of the result.
LEMMA PrefixOfConcat ==
  ASSUME NEW h \in Seq(Messages), NEW r \in Seq(Messages), NEW s, h \o r = s
  PROVE  h = SubSeq(s, 1, Len(h))
  BY SMT

\* Moving the front of the mailbox to the end of the handled log conserves both.
LEMMA SpliceConserves ==
  ASSUME NEW h \in Seq(Messages), NEW g \in Seq(Messages), NEW r \in Seq(Messages)
  PROVE  (h \o g) \o r = h \o (g \o r)
  BY ConcatAssociative

\* The mailbox is the queue of MailboxLog when the workflow starts.
LEMMA InitIInv == Init => IInv
  <1> SUFFICES ASSUME Init PROVE IInv
    BY Zenon
  <1>1. mailbox \in Seq(Messages)
    <2>1. <<>> \in Seq(Messages)
      OBVIOUS
    <2>2. ASSUME NEW m \in Messages PROVE <<m>> \in Seq(Messages)
      OBVIOUS
    <2> QED
      BY Zenon, <2>1, <2>2 DEF Init
  <1>2. ControlTypeOK
    <2>1. wake \in BOOLEAN /\ cancelled \in BOOLEAN
      BY Zenon DEF Init
    <2>2. attempt \in 1 .. MaximumAttempts /\ parkAttempt \in Nat
      BY DurableAgentAssumption DEF Init
    <2> QED
      BY <1>1, <2>1, <2>2 DEF Init, ControlTypeOK, Statuses
  <1>3. MailboxConserved
    BY Zenon, <1>1, ConcatEmptySeq DEF Init, MailboxConserved
  <1> QED
    BY Zenon, <1>2, <1>3 DEF Init, IInv, GivenStaysQueued

\* A signal appends to both the mailbox and the log of what was sent, and
\* leaves the prefix a running turn was given in place.
LEMMA SendPreservesIInv ==
  ASSUME IInv, NEW m \in Messages, SendMessage(m)
  PROVE  IInv'
  <1> USE DEF IInv, ControlTypeOK
  <1>1. /\ mailbox' = Append(mailbox, m) /\ sent' = Append(sent, m) /\ wake' = TRUE
        /\ UNCHANGED <<pc, status, parkBackoff, cancelled, parkAttempt, given, attempt, handled>>
    BY Zenon DEF SendMessage
  <1>2. ControlTypeOK'
    BY Zenon, <1>1, AppendProperties
  <1>3. MailboxConserved'
    <2>1. handled \o Append(mailbox, m) = Append(handled \o mailbox, m)
      BY SMT
    <2> QED
      BY Zenon, <1>1, <2>1 DEF MailboxConserved
  <1>4. GivenStaysQueued'
    <2> SUFFICES ASSUME pc = "turn" \/ status = "waiting"
                 PROVE  given # <<>> /\ Len(given) <= Len(mailbox') /\ given = SubSeq(mailbox', 1, Len(given))
      BY Zenon, <1>1 DEF GivenStaysQueued
    <2>1. given # <<>> /\ Len(given) \in 0 .. Len(mailbox) /\ given = SubSeq(mailbox, 1, Len(given))
      BY LenProperties DEF GivenStaysQueued
    <2>2. Len(mailbox') = Len(mailbox) + 1 /\ Len(mailbox) \in Nat
      BY Zenon, <1>1, AppendProperties, LenProperties
    <2>3. SubSeq(mailbox', 1, Len(given)) = SubSeq(mailbox, 1, Len(given))
      BY Zenon, <1>1, <2>1, AppendKeepsPrefix
    <2> QED
      BY <2>1, <2>2, <2>3
  <1> QED
    BY Zenon, <1>2, <1>3, <1>4

\* A turn is given the whole mailbox.
LEMMA StartTurnPreservesIInv ==
  ASSUME IInv, StartTurn
  PROVE  IInv'
  <1> USE DurableAgentAssumption DEF IInv, ControlTypeOK
  <1>1. UNCHANGED <<mailbox, parkBackoff, cancelled, parkAttempt, sent, handled>> /\ wake' = FALSE
    BY Zenon DEF StartTurn
  <1>2. \/ UNCHANGED <<pc, status, given, attempt>> /\ pc = "idle"
        \/ mailbox # <<>> /\ pc' = "turn" /\ status' = "running" /\ given' = mailbox /\ attempt' = 1
    BY Zenon DEF StartTurn
  <1>3. ControlTypeOK'
    <2>1. attempt' \in 1 .. MaximumAttempts
      BY <1>2
    <2>2. wake' \in BOOLEAN /\ cancelled' \in BOOLEAN
      BY Zenon, <1>1
    <2> QED
      BY Zenon, <1>1, <1>2, <2>1, <2>2 DEF Statuses
  <1>4. MailboxConserved'
    BY Zenon, <1>1 DEF MailboxConserved
  <1>5. GivenStaysQueued'
    BY <1>1, <1>2, SubSeqFull, LenProperties DEF GivenStaysQueued
  <1> QED
    BY Zenon, <1>3, <1>4, <1>5

\* The splice removes exactly what the turn was given, because that was a
\* prefix of the mailbox when the turn began and signals only append.
LEMMA TurnIdlePreservesIInv ==
  ASSUME IInv, TurnIdle
  PROVE  IInv'
  <1> USE DEF IInv, ControlTypeOK
  <1> DEFINE rest == SubSeq(mailbox, Len(given) + 1, Len(mailbox))
  <1>1. /\ mailbox' = rest /\ handled' = handled \o given /\ parkAttempt' = 0
        /\ UNCHANGED <<parkBackoff, cancelled, wake, given, attempt, sent>>
    BY Zenon DEF TurnIdle
  <1>2. pc' \in {"idle", "done"} /\ status' \in {"idle", "cancelled"}
    BY Zenon DEF TurnIdle, LoopOrEnd, Statuses
  <1>3. Len(given) \in 0 .. Len(mailbox) /\ given = SubSeq(mailbox, 1, Len(given))
    BY LenProperties DEF TurnIdle, GivenStaysQueued
  <1>4. given \o rest = mailbox /\ rest \in Seq(Messages)
    BY Zenon, <1>3, SplitAt
  <1>5. ControlTypeOK'
    BY Zenon, <1>1, <1>2, <1>4, ConcatProperties DEF Statuses
  <1>6. MailboxConserved'
    <2>1. (handled \o given) \o rest = handled \o mailbox
      <3> HIDE DEF rest, IInv, ControlTypeOK
      <3>1. handled \in Seq(Messages) /\ given \in Seq(Messages)
        BY Zenon DEF IInv, ControlTypeOK
      <3>2. (handled \o given) \o rest = handled \o (given \o rest)
        BY Zenon, <1>4, <3>1, SpliceConserves
      <3> QED
        BY <1>4, <3>2, Zenon
    <2>2. handled' \o mailbox' = (handled \o given) \o rest
      BY Zenon, <1>1
    <2>3. handled \o mailbox = sent /\ sent' = sent
      BY Zenon, <1>1 DEF MailboxConserved
    <2>4. handled' \o mailbox' = sent'
      BY Zenon, <2>1, <2>2, <2>3
    <2> QED
      BY Zenon, <2>4 DEF MailboxConserved
  <1> QED
    BY Zenon, <1>2, <1>5, <1>6 DEF GivenStaysQueued

\* The remaining steps leave the mailbox and the two logs alone.
LEMMA OthersPreserveIInv ==
  ASSUME IInv,
         \/ CancelAgent \/ LeaveCancelled \/ TurnCompleted \/ TurnFailsPermanently
         \/ TurnWaiting \/ AttemptFails \/ Unpark \/ Closed
         \/ \E hint \in Hints \cup {NoHint} : TurnFailsTransiently(hint)
  PROVE  IInv'
  <1> USE DurableAgentAssumption DEF IInv, ControlTypeOK
  <1>1. UNCHANGED <<mailbox, parkBackoff, given, sent, handled>> /\ wake' \in BOOLEAN /\ cancelled' \in BOOLEAN
    BY Zenon DEF CancelAgent, LeaveCancelled, TurnCompleted, TurnFailsPermanently, TurnWaiting,
           AttemptFails, Unpark, Closed, vars, TurnFailsTransiently
  <1>2. /\ pc' \in {"idle", "turn", "parked", "done"}
        /\ pc' = "turn" \/ status' = "waiting" => pc = "turn" \/ status = "waiting"
        /\ status' \in Statuses
    BY Zenon DEF CancelAgent, LeaveCancelled, TurnCompleted, TurnFailsPermanently, TurnWaiting,
           AttemptFails, Unpark, Closed, vars, TurnFailsTransiently, LoopOrEnd, Park, Statuses
  <1>3. parkAttempt' \in Nat /\ attempt' \in 1 .. MaximumAttempts
    BY DEF CancelAgent, LeaveCancelled, TurnCompleted, TurnFailsPermanently, TurnWaiting,
           AttemptFails, Unpark, Closed, vars, TurnFailsTransiently
  <1>4. ControlTypeOK'
    BY Zenon, <1>1, <1>2, <1>3
  <1>5. MailboxConserved' /\ GivenStaysQueued'
    BY Zenon, <1>1, <1>2 DEF MailboxConserved, GivenStaysQueued
  <1> QED
    BY Zenon, <1>4, <1>5

\* Every step of the workflow preserves the invariant.
LEMMA NextPreservesIInv == IInv /\ [Next]_vars => IInv'
  <1> SUFFICES ASSUME IInv, [Next]_vars PROVE IInv'
    BY Zenon
  <1>1. CASE Next
    BY Zenon, <1>1, SendPreservesIInv, StartTurnPreservesIInv, TurnIdlePreservesIInv, OthersPreserveIInv
    DEF Next, TurnEnds, TurnReturns
  <1>2. CASE UNCHANGED vars
    BY Zenon, <1>2 DEF vars, IInv, ControlTypeOK, GivenStaysQueued, MailboxConserved
  <1> QED
    BY Zenon, <1>1, <1>2

\* durableAgentWorkflow keeps the invariant, so that in particular no message
\* is lost, duplicated or reordered (MailboxConserved).
THEOREM MailboxInvariant == Spec => []IInv
  <1> QED
    BY InitIInv, NextPreservesIInv, PTL DEF Spec

\* What idle turns were given, followed by what is queued, is what was sent.
THEOREM MailboxIsConserved == Spec => []MailboxConserved
  <1>1. IInv => MailboxConserved
    BY Zenon DEF IInv
  <1> QED
    BY <1>1, MailboxInvariant, PTL

-----------------------------------------------------------------------------
(* Action properties and the mailbox contract. *)

\* A turn that goes straight back to the loop consumed at least one message:
\* it was given a nonempty batch, and every other ending parks or closes.
LEMMA StepConsumes ==
  ASSUME IInv, [Next]_vars, pc = "turn", pc' = "idle"
  PROVE  Len(handled') > Len(handled)
  <1>1. TurnIdle
    BY Zenon DEF Next, vars, SendMessage, CancelAgent, StartTurn, LeaveCancelled, TurnEnds, TurnReturns,
           TurnCompleted, TurnFailsPermanently, TurnWaiting, AttemptFails, TurnFailsTransiently,
           Unpark, Closed, LoopOrEnd, Park
  <1>2. handled' = handled \o given /\ given # <<>>
    BY Zenon, <1>1 DEF TurnIdle, IInv, GivenStaysQueued
  <1>3. Len(handled \o given) = Len(handled) + Len(given) /\ Len(given) > 0 /\ Len(handled) \in Nat
    BY <1>2, ConcatProperties, LenProperties, EmptySeq DEF IInv, ControlTypeOK
  <1> QED
    BY <1>2, <1>3

\* The workflow never runs a turn again on the same messages without a park.
THEOREM NeverBusyLoops == Spec => NoBusyLoop
  <1>1. IInv /\ [Next]_vars => [pc = "turn" /\ pc' = "idle" => Len(handled') > Len(handled)]_vars
    BY Zenon, StepConsumes
  <1> QED
    BY <1>1, MailboxInvariant, PTL DEF Spec, NoBusyLoop

\* The turn retried after a park is given what the failed one was given, first.
THEOREM ParkRetriesSameTurn == Spec => RetryKeepsTurn
  <1>1. ASSUME IInv, StartTurn, status = "waiting"
        PROVE  given = SubSeq(given', 1, Len(given))
    <2>1. given = SubSeq(mailbox, 1, Len(given)) /\ given # <<>> /\ Len(given) <= Len(mailbox)
      BY Zenon, <1>1 DEF IInv, GivenStaysQueued
    <2>2. mailbox # <<>>
      BY <2>1, EmptySeq, LenProperties DEF IInv, ControlTypeOK
    <2>3. given' = mailbox
      BY Zenon, <1>1, <2>2 DEF StartTurn
    <2> QED
      BY Zenon, <2>1, <2>3
  <1>2. IInv /\ [Next]_vars => [StartTurn /\ status = "waiting" => given = SubSeq(given', 1, Len(given))]_vars
    BY Zenon, <1>1
  <1> QED
    BY <1>2, MailboxInvariant, PTL DEF Spec, RetryKeepsTurn

\* An idle turn takes a nonempty batch off the front of the log, and closes the
\* mailbox in the same step when a cancel arrived during the turn.
LEMMA TurnIdleTakes ==
  ASSUME IInv, TurnIdle
  PROVE  Mailbox!Next
  <1>1. pc = "turn" /\ sent' = sent /\ handled' = handled \o given
    BY Zenon DEF TurnIdle
  <1>2. pc' = "idle" \/ pc' = "done"
    BY Zenon DEF TurnIdle, LoopOrEnd
  <1>3. given # <<>> /\ Len(given) <= Len(mailbox)
    BY Zenon, <1>1 DEF IInv, GivenStaysQueued
  <1>4. Len(given) \in Nat \ {0} /\ Len(mailbox) \in Nat /\ Len(handled) \in Nat
    BY Zenon, <1>3, EmptySeq, LenProperties DEF IInv, ControlTypeOK
  <1>5. Len(handled \o given) = Len(handled) + Len(given)
    BY Zenon, ConcatProperties DEF IInv, ControlTypeOK
  <1>6. Len(sent) = Len(handled) + Len(mailbox)
    BY Zenon, ConcatProperties DEF IInv, ControlTypeOK, MailboxConserved
  <1>7. Len(handled') \in Len(handled) + 1 .. Len(sent)
    BY <1>1, <1>3, <1>4, <1>5, <1>6
  <1>8. handled' = SubSeq(sent', 1, Len(handled'))
    BY Zenon, TurnIdlePreservesIInv, PrefixOfConcat DEF IInv, ControlTypeOK, MailboxConserved
  <1>9. Mailbox!Take
    BY Zenon, <1>1, <1>7, <1>8 DEF Mailbox!Take
  <1> QED
    BY Zenon, <1>1, <1>2, <1>9 DEF Mailbox!Next, Mailbox!Close

\* The remaining steps close the mailbox or do nothing to it.
LEMMA OthersCloseOrStutter ==
  ASSUME IInv,
         \/ CancelAgent \/ StartTurn \/ LeaveCancelled \/ TurnCompleted \/ TurnFailsPermanently
         \/ TurnWaiting \/ AttemptFails \/ Unpark \/ Closed
         \/ \E hint \in Hints \cup {NoHint} : TurnFailsTransiently(hint)
  PROVE  [Mailbox!Next]_<<sent, handled, pc = "done">>
  <1>1. sent' = sent /\ handled' = handled
    BY Zenon DEF CancelAgent, StartTurn, LeaveCancelled, TurnCompleted, TurnFailsPermanently, TurnWaiting,
           AttemptFails, Unpark, Closed, vars, TurnFailsTransiently
  <1>2. pc = "done" => pc' = "done"
    BY Zenon DEF CancelAgent, StartTurn, LeaveCancelled, TurnCompleted, TurnFailsPermanently, TurnWaiting,
           AttemptFails, Unpark, Closed, vars, TurnFailsTransiently
  <1>3. CASE (pc = "done") = (pc' = "done")
    BY Zenon, <1>1, <1>3
  <1>4. CASE pc # "done" /\ pc' = "done"
    BY Zenon, <1>1, <1>4 DEF Mailbox!Next, Mailbox!Close
  <1> QED
    BY Zenon, <1>2, <1>3, <1>4

\* durableAgentWorkflow implements the mailbox contract: the log is what was
\* signalled, the delivered prefix is what idle turns consumed, and the mailbox is
\* closed when the workflow has returned.
THEOREM WorkflowImplementsMailbox == Spec => ImplementsMailbox
  <1>1. Init => Mailbox!Init
    <2> SUFFICES ASSUME Init PROVE Mailbox!Init
      BY Zenon
    <2>1. sent \in Seq(Messages) /\ handled = <<>> /\ pc = "idle"
      BY Zenon, InitIInv DEF Init, IInv, ControlTypeOK
    <2> QED
      BY Zenon, <2>1, EmptySeq DEF Mailbox!Init
  <1>2. IInv /\ [Next]_vars => [Mailbox!Next]_<<sent, handled, pc = "done">>
    <2> SUFFICES ASSUME IInv, [Next]_vars
                 PROVE  [Mailbox!Next]_<<sent, handled, pc = "done">>
      BY Zenon
    <2>1. ASSUME NEW m \in Messages, SendMessage(m) PROVE Mailbox!Next
      BY Zenon, <2>1 DEF SendMessage, Mailbox!Next, Mailbox!Accept
    <2>2. CASE UNCHANGED vars
      BY Zenon, <2>2 DEF vars
    <2> QED
      BY Zenon, <2>1, <2>2, TurnIdleTakes, OthersCloseOrStutter DEF Next, TurnEnds, TurnReturns
  <1> QED
    BY <1>1, <1>2, MailboxInvariant, PTL DEF Spec, ImplementsMailbox, Mailbox!Spec

=============================================================================
