---------------------------- MODULE GatewayProofs ----------------------------
(***************************************************************************)
(* Proofs about the gateway's routers: which accounts take its requests,   *)
(* for every number of requests and routes, and what a stream that fails   *)
(* over leaves behind, for every number of accounts, fallbacks and         *)
(* streams.                                                                *)
(***************************************************************************)
EXTENDS ProfileRouter, StackRouter, FiniteSetTheorems, SequenceTheorems, TLAPS

-----------------------------------------------------------------------------
(* The profile router.                                                       *)


\* A step of request c that is no final answer: others stay as they are, and c has
\* not been accepted before or after it.
LEMMA RequestGoesOn ==
  ASSUME RouterIInv, NEW c \in Calls, NEW where, Goto(c, where), accepted' = accepted, threw' = threw,
         DOMAIN todo' = Calls, \A d \in Calls : d # c => todo'[d] = todo[d],
         \/ at[c] \notin Answered /\ where \notin Answered
         \/ at[c] \in Answered /\ where \in Answered /\ todo'[c] = todo[c]
  PROVE  RouterIInv'
<1>1. at' = [at EXCEPT ![c] = where]
  BY Zenon DEF Goto
<1>2. DOMAIN at' = Calls /\ at'[c] = where /\ \A d \in Calls : d # c => at'[d] = at[d]
  BY Zenon, <1>1 DEF RouterIInv
<1>3. ASSUME NEW d \in Calls \ threw
      PROVE  AcceptedByCurrent(d)'
  <2>1. AcceptedByCurrent(d)
    BY Zenon DEF RouterIInv
  <2>2. CASE d = c
    BY Zenon, <1>2, <2>1, <2>2 DEF AcceptedByCurrent, Current
  <2>3. CASE d # c
    BY ZenonT(30), <1>2, <2>1, <2>3 DEF AcceptedByCurrent, Current
  <2> QED
    BY Zenon, <2>2, <2>3
<1> QED
  BY Zenon, <1>2, <1>3 DEF RouterIInv

\* Every step keeps the accepting upstream the one the request stands at.
LEMMA RouterKeeps == RouterIInv /\ [RouterNext]_routerVars => RouterIInv'
<1> SUFFICES ASSUME RouterIInv, [RouterNext]_routerVars
             PROVE  RouterIInv'
  BY Zenon
<1>t. DOMAIN at = Calls /\ DOMAIN todo = Calls /\ DOMAIN accepted = Calls
  BY Zenon DEF RouterIInv
<1>1. ASSUME NEW c \in Calls, Lookup(c)
      PROVE  RouterIInv'
  BY Zenon, <1>t, <1>1, RequestGoesOn DEF Lookup, Answered
<1>2. ASSUME NEW c \in Calls, Check(c)
      PROVE  RouterIInv'
  <2>1. at[c] = "check" /\ UNCHANGED <<at, accepted, threw>> /\ DOMAIN todo' = Calls /\ \A d \in Calls : d # c => todo'[d] = todo[d]
    BY Zenon, <1>t, <1>2 DEF Check
  <2> QED
    BY Zenon, <1>t, <2>1 DEF RouterIInv, AcceptedByCurrent, Answered, Current
<1>3. ASSUME NEW c \in Calls, Checked(c)
      PROVE  RouterIInv'
  <2>1. PICK where \in {"failed", "try"} : Goto(c, where)
    BY Zenon, <1>3 DEF Checked
  <2>2. at[c] = "check" /\ UNCHANGED <<accepted, threw>> /\ DOMAIN todo' = Calls /\ \A d \in Calls : d # c => todo'[d] = todo[d]
    BY Zenon, <1>t, <1>3 DEF Checked
  <2> QED
    BY Zenon, <2>1, <2>2, RequestGoesOn DEF Answered
<1>4. ASSUME NEW c \in Calls, Try(c)
      PROVE  RouterIInv'
  <2>1. PICK where \in {"failed", "calling"} : Goto(c, where)
    BY Zenon, <1>4 DEF Try
  <2>2. at[c] = "try" /\ UNCHANGED <<accepted, threw, todo>>
    BY Zenon, <1>4 DEF Try
  <2> QED
    BY Zenon, <1>t, <2>1, <2>2, RequestGoesOn DEF Answered
<1>5. ASSUME NEW c \in Calls, PutGood(c) \/ Stick(c)
      PROVE  RouterIInv'
  <2>1. PICK where \in {"stick", "answered"} : Goto(c, where)
    BY Zenon, <1>5 DEF PutGood, Stick
  <2>2. at[c] \in {"good", "refused", "stick"} /\ UNCHANGED <<accepted, threw, todo>>
    BY Zenon, <1>5 DEF PutGood, Stick, local
  <2> QED
    BY Zenon, <1>t, <2>1, <2>2, RequestGoesOn DEF Answered
<1>6. ASSUME NEW c \in Calls, PutBad(c) \/ Unstick(c)
      PROVE  RouterIInv'
  <2>1. PICK where \in {"unstick", "failed", "try"} : Goto(c, where)
    BY Zenon, <1>6 DEF PutBad, Unstick, NextCandidate, After
  <2>2. at[c] \in {"bad", "unstick"} /\ UNCHANGED <<accepted, threw>> /\ DOMAIN todo' = Calls
        /\ \A d \in Calls : d # c => todo'[d] = todo[d]
    BY Zenon, <1>t, <1>6 DEF PutBad, Unstick, NextCandidate
  <2> QED
    BY Zenon, <2>1, <2>2, RequestGoesOn DEF Answered
<1>7. ASSUME NEW c \in Calls, NEW ok \in BOOLEAN, Final(c, ok)
      PROVE  RouterIInv'
  <2>1. PICK where \in {"good", "refused"} : Goto(c, where)
    BY Zenon, <1>7 DEF Final
  <2>2. at[c] = "calling" /\ UNCHANGED <<todo, threw>> /\ accepted' = [accepted EXCEPT ![c] = @ \cup {Current(c)}]
    BY Zenon, <1>7 DEF Final, local
  <2>3. /\ DOMAIN at' = Calls /\ at'[c] = where /\ \A d \in Calls : d # c => at'[d] = at[d]
        /\ DOMAIN accepted' = Calls /\ accepted'[c] = accepted[c] \cup {Current(c)}
        /\ \A d \in Calls : d # c => accepted'[d] = accepted[d]
    BY Zenon, <1>t, <2>1, <2>2 DEF Goto
  <2>4. ASSUME NEW d \in Calls \ threw
        PROVE  AcceptedByCurrent(d)'
    <3>1. AcceptedByCurrent(d)
      BY Zenon DEF RouterIInv
    <3> QED
      BY Zenon, <2>2, <2>3, <3>1 DEF AcceptedByCurrent, Current, Answered
  <2> QED
    BY Zenon, <1>t, <2>2, <2>3, <2>4 DEF RouterIInv
<1>8. ASSUME NEW c \in Calls, NEW d \in 1 .. MaxCool, Retryable(c, d) \/ BackendThrows(c, d)
      PROVE  RouterIInv'
  <2>1. PICK where \in {"bad", "failed"} : Goto(c, where)
    BY Zenon, <1>8 DEF Retryable, BackendThrows, Catch
  <2>2. at[c] = "calling" /\ UNCHANGED <<accepted, threw, todo>>
    BY Zenon, <1>8 DEF Retryable, BackendThrows, Catch
  <2> QED
    BY Zenon, <1>t, <2>1, <2>2, RequestGoesOn DEF Answered
<1>9. ASSUME NEW c \in Calls, NEW d \in 1 .. MaxCool, StoreThrows(c, d)
      PROVE  RouterIInv'
  <2>1. PICK where : Goto(c, where)
    BY Zenon, <1>9 DEF StoreThrows, Catch
  <2>2. threw' = threw \cup {c} /\ UNCHANGED <<accepted, todo>>
    BY Zenon, <1>9 DEF StoreThrows, Catch, local
  <2>3. DOMAIN at' = Calls /\ \A x \in Calls : x # c => at'[x] = at[x]
    BY Zenon, <1>t, <2>1 DEF Goto
  <2> QED
    BY Zenon, <1>t, <2>2, <2>3 DEF RouterIInv, AcceptedByCurrent, Current
<1>10. ASSUME UNCHANGED <<at, todo, accepted, threw>>
       PROVE  RouterIInv'
  BY Zenon, <1>10 DEF RouterIInv, AcceptedByCurrent, Current
<1>11. ASSUME NEW c \in Calls, Disconnect(c)
       PROVE  RouterIInv'
  BY Zenon, <1>10, <1>11 DEF Disconnect, local
<1>12. ASSUME NEW k \in Keys, Forget(k)
       PROVE  RouterIInv'
  BY Zenon, <1>10, <1>12 DEF Forget, local
<1>13. CASE ClockAdvances
  BY Zenon, <1>10, <1>13 DEF ClockAdvances, local
<1>14. CASE UNCHANGED routerVars
  BY Zenon, <1>10, <1>14 DEF routerVars
<1> QED
  BY ZenonT(30), <1>1, <1>2, <1>3, <1>4, <1>5, <1>6, <1>7, <1>8, <1>9, <1>11, <1>12, <1>13, <1>14 DEF RouterNext, Route

\* A request that the store did not fail is accepted by one upstream at most, and
\* its answer is that upstream's, for every number of requests, routes and gateway
\* replicas (the loop of ProfileRouterBackend.handle).
THEOREM RequestAcceptedOnce == RouterSpec => []AcceptedOnce
<1>1. RouterInit => RouterIInv
  BY Zenon DEF RouterInit, RouterIInv, AcceptedByCurrent, Answered
<1>2. RouterIInv => AcceptedOnce
  <2> SUFFICES ASSUME RouterIInv, NEW c \in Calls \ threw
               PROVE  /\ Cardinality(accepted[c]) <= 1
                      /\ at[c] = "answered" => accepted[c] = {Current(c)}
                      /\ at[c] \in {"try", "calling", "failed"} => accepted[c] = {}
    BY Zenon DEF AcceptedOnce
  <2>1. AcceptedByCurrent(c)
    BY Zenon DEF RouterIInv
  <2>2. Cardinality({}) = 0 /\ Cardinality({Current(c)}) = 1
    BY Zenon, FS_EmptySet, FS_Singleton
  <2> QED
    BY <2>1, <2>2 DEF AcceptedByCurrent, Answered
<1> QED
  BY <1>1, <1>2, RouterKeeps, PTL DEF RouterSpec

-----------------------------------------------------------------------------
(* The account stack router.                                                  *)

\* There are finitely many accounts.
LEMMA AccountsFinite == IsFiniteSet(AccountSet)
<1>1. DOMAIN Accounts = 1 .. Len(Accounts) /\ Len(Accounts) \in Nat
  BY StackAssumption
<1>2. IsFiniteSet(DOMAIN Accounts)
  BY <1>1, FS_Interval
<1> DEFINE f == [i \in DOMAIN Accounts |-> Accounts[i]]
<1>3. f \in Surjection(DOMAIN Accounts, AccountSet)
  BY Zenon DEF Surjection, AccountSet
<1> HIDE DEF f
<1> QED
  BY Zenon, <1>2, <1>3, FS_Surjection

\* What a call may try is a list of accounts and fallbacks.
LEMMA RoutesListed ==
  ASSUME NEW s, NEW q \in CandidateAccounts(s)
  PROVE  q \o Fallbacks \in Seq(Everywhere)
<1>1. Healthy \in SUBSET AccountSet
  BY Zenon DEF Healthy
<1>2. IsFiniteSet(Healthy)
  BY Zenon, <1>1, AccountsFinite, FS_Subset
<1>3. Cardinality(Healthy) \in Nat
  BY Zenon, <1>2, FS_CardinalityType
<1>4. q \in [1 .. Cardinality(Healthy) -> Healthy]
  BY Zenon DEF CandidateAccounts
<1>5. Healthy \subseteq Everywhere
  BY Zenon, <1>1 DEF Everywhere
<1>6. q \in Seq(Everywhere)
  BY <1>3, <1>4, <1>5
<1>7. Fallbacks \in Seq(Everywhere)
  BY StackAssumption DEF Everywhere
<1> QED
  BY Zenon, <1>6, <1>7, ConcatProperties

\* A route put before a list.
LEMMA Prefixed ==
  ASSUME NEW S, NEW x \in S, NEW q \in Seq(S)
  PROVE  <<x>> \o q \in Seq(S) /\ <<x>> \o q # <<>> /\ Head(<<x>> \o q) = x
OBVIOUS

\* What follows an entry of a list.
LEMMA Following ==
  ASSUME NEW S, NEW q \in Seq(S), NEW i \in DOMAIN q
  PROVE  q[i] \in S /\ SubSeq(q, i + 1, Len(q)) \in Seq(S)
OBVIOUS

\* The attempts that stream on account a, but for that of call s.
Others(s, a) == {t \in Streams \ {s} : phase[t] = "open" /\ Here(t) = a}

\* The attempts that stream on account a.
On(a) == {t \in Streams : phase[t] = "open" /\ Here(t) = a}

\* Without the attempt of s, if it streams, the load is that of the others.
LEMMA LoadOfOthers ==
  ASSUME StackIInv, NEW s \in Streams, NEW a \in AccountSet
  PROVE  /\ IsFiniteSet(Others(s, a))
         /\ phase[s] = "new" => flying[a] = Cardinality(Others(s, a))
         /\ phase[s] = "open" => Landed(s)[a] = Cardinality(Others(s, a))
<1>1. On(a) \in SUBSET StreamOpen
  BY Zenon DEF On, StreamOpen
<1>2. IsFiniteSet(On(a))
  BY Zenon, <1>1, FS_Subset DEF StackIInv
<1>3. Others(s, a) = On(a) \ {s}
  BY Zenon DEF Others, On
<1>4. flying[a] = Cardinality(On(a)) /\ flying \in [AccountSet -> Nat]
  BY Zenon DEF StackIInv, StackTypes, InFlightExact, On
<1>5. IsFiniteSet(Others(s, a)) /\ Cardinality(Others(s, a)) = IF s \in On(a) THEN Cardinality(On(a)) - 1 ELSE Cardinality(On(a))
  <2>1. IsFiniteSet(On(a) \ {s}) /\ Cardinality(On(a) \ {s}) = IF s \in On(a) THEN Cardinality(On(a)) - 1 ELSE Cardinality(On(a))
    BY Zenon, <1>2, FS_RemoveElement
  <2> QED
    BY Zenon, <1>3, <2>1
<1>6. phase[s] = "new" => flying[a] = Cardinality(Others(s, a))
  BY Zenon, <1>4, <1>5 DEF On
<1>7. ASSUME phase[s] = "open"
      PROVE  Landed(s)[a] = Cardinality(Others(s, a))
  <2>1. CASE Here(s) = a
    <3>1. s \in On(a)
      BY Zenon, <1>7, <2>1 DEF On
    <3>2. Cardinality(On(a)) # 0
      BY Zenon, <1>2, <3>1, FS_EmptySet
    <3>3. flying[a] > 0 /\ flying[a] \in Nat
      BY <1>4, <3>2
    <3>4. Landed(s)[a] = flying[a] - 1
      BY <1>4, <2>1, <3>3 DEF Landed, IsAccount
    <3> QED
      BY Zenon, <1>4, <1>5, <3>1, <3>4
  <2>2. CASE Here(s) # a
    <3>1. Landed(s)[a] = flying[a]
      BY Zenon, <1>4, <2>2 DEF Landed, IsAccount
    <3> QED
      BY Zenon, <1>4, <1>5, <2>2, <3>1 DEF On
  <2> QED
    BY Zenon, <2>1, <2>2
<1> QED
  BY Zenon, <1>5, <1>6, <1>7

\* A load is a number for each account.
LEMMA LandedIsLoad ==
  ASSUME StackIInv, NEW s \in Streams
  PROVE  Landed(s) \in [AccountSet -> Nat]
<1>1. flying \in [AccountSet -> Nat]
  BY Zenon DEF StackIInv, StackTypes
<1>2. CASE Here(s) \in AccountSet
  <2> DEFINE n == IF flying[Here(s)] > 0 THEN flying[Here(s)] - 1 ELSE 0
  <2>1. n \in Nat
    BY <1>1, <1>2
  <2>2. Landed(s) = [flying EXCEPT ![Here(s)] = n]
    BY Zenon, <1>2 DEF Landed, IsAccount
  <2> HIDE DEF n
  <2> QED
    BY Zenon, <1>1, <1>2, <2>1, <2>2
<1>3. CASE Here(s) \notin AccountSet
  BY Zenon, <1>1, <1>3 DEF Landed, IsAccount
<1> QED
  BY Zenon, <1>2, <1>3

\* One call moves from one account to another, or to none: the loads stay exact.
LEMMA OneMoves ==
  ASSUME StackIInv, NEW s \in Streams, NEW load \in [AccountSet -> Nat],
         \A a \in AccountSet : load[a] = Cardinality(Others(s, a)),
         \A t \in Streams \ {s} : phase'[t] = phase[t] /\ left'[t] = left[t],
         \/ phase'[s] = "open" /\ flying' = IF Here(s)' \in AccountSet THEN [load EXCEPT ![Here(s)'] = @ + 1] ELSE load
         \/ phase'[s] # "open" /\ flying' = load
  PROVE  InFlightExact' /\ flying' \in [AccountSet -> Nat] /\ IsFiniteSet(StreamOpen')
<1>1. ASSUME NEW a \in AccountSet
      PROVE  flying'[a] = Cardinality(On(a)') /\ flying'[a] \in Nat
  <2>1. IsFiniteSet(Others(s, a)) /\ s \notin Others(s, a)
    BY Zenon, LoadOfOthers DEF Others
  <2>2. load[a] = Cardinality(Others(s, a)) /\ load[a] \in Nat
    BY Zenon
  <2>3. CASE phase'[s] = "open" /\ Here(s)' = a
    <3>1. On(a)' = Others(s, a) \cup {s}
      BY Zenon, <2>3 DEF On, Others, Here
    <3>2. Cardinality(On(a)') = Cardinality(Others(s, a)) + 1
      BY Zenon, <2>1, <3>1, FS_AddElement
    <3>3. flying'[a] = load[a] + 1
      BY Zenon, <2>3
    <3> QED
      BY <2>2, <3>2, <3>3
  <2>4. CASE ~(phase'[s] = "open" /\ Here(s)' = a)
    <3>1. On(a)' = Others(s, a)
      BY Zenon, <2>4 DEF On, Others, Here
    <3>2. flying'[a] = load[a]
      BY Zenon, <2>4
    <3> QED
      BY Zenon, <2>2, <3>1, <3>2
  <2> QED
    BY Zenon, <2>3, <2>4
<1>2. DOMAIN flying' = AccountSet /\ flying' = [a \in AccountSet |-> flying'[a]]
  BY Zenon
<1>3. flying' \in [AccountSet -> Nat]
  BY Zenon, <1>1, <1>2
<1>4. StreamOpen' \in SUBSET (StreamOpen \cup {s})
  BY Zenon DEF StreamOpen
<1>5. IsFiniteSet(StreamOpen')
  <2>1. IsFiniteSet(StreamOpen \cup {s})
    BY Zenon, FS_AddElement DEF StackIInv
  <2> QED
    BY Zenon, <1>4, <2>1, FS_Subset
<1> QED
  BY Zenon, <1>1, <1>3, <1>5 DEF InFlightExact, On

\* The next attempt, or the end of a call with an error, keeps the invariant: a
\* call that goes on has shown nothing yet, or was cut off.
LEMMA AttemptKeeps ==
  ASSUME StackIInv, NEW s \in Streams, phase[s] \in {"new", "open"},
         NEW q \in Seq(Everywhere), NEW load \in [AccountSet -> Nat],
         \A a \in AccountSet : load[a] = Cardinality(Others(s, a)),
         Attempt(s, q, load), visible' = visible,
         cutOff \subseteq cutOff', cutOff' \subseteq cutOff \cup {s}, s \in cutOff' \/ visible[s] = {}
  PROVE  StackIInv'
<1>t. /\ phase \in [Streams -> {"new", "open", "over"}] /\ left \in [Streams -> Seq(Everywhere)]
      /\ DOMAIN committed = Streams /\ DOMAIN visible = Streams /\ terminals \in [Streams -> Nat]
  BY Zenon DEF StackIInv, StackTypes
<1>z. terminals[s] = 0
  BY Zenon DEF StackIInv, EndsOnce
<1>c. DOMAIN committed' = Streams /\ committed'[s] = FALSE /\ \A t \in Streams \ {s} : committed'[t] = committed[t]
  BY Zenon, <1>t DEF Attempt
<1>1. ASSUME NEW x \in Everywhere, NEW r \in Seq(Everywhere), StartOn(s, x, r, load)
      PROVE  StackIInv'
  <2>1. phase' = [phase EXCEPT ![s] = "open"] /\ left' = [left EXCEPT ![s] = <<x>> \o r] /\ terminals' = terminals
    BY Zenon, <1>1 DEF StartOn
  <2>2. <<x>> \o r \in Seq(Everywhere) /\ <<x>> \o r # <<>> /\ Head(<<x>> \o r) = x
    BY Zenon, Prefixed
  <2>3. /\ phase' \in [Streams -> {"new", "open", "over"}] /\ left' \in [Streams -> Seq(Everywhere)]
        /\ phase'[s] = "open" /\ left'[s] = <<x>> \o r
        /\ \A t \in Streams \ {s} : phase'[t] = phase[t] /\ left'[t] = left[t]
    BY Zenon, <1>t, <2>1, <2>2
  <2>4. Here(s)' = x /\ left'[s] # <<>>
    BY Zenon, <2>2, <2>3 DEF Here
  <2>5. flying' = IF Here(s)' \in AccountSet THEN [load EXCEPT ![Here(s)'] = @ + 1] ELSE load
    BY Zenon, <1>1, <2>4 DEF StartOn, IsAccount
  <2>6. InFlightExact' /\ flying' \in [AccountSet -> Nat] /\ IsFiniteSet(StreamOpen')
    BY Zenon, <2>3, <2>5, OneMoves
  <2>7. EndsOnce'
    BY Zenon, <1>z, <2>1, <2>3 DEF StackIInv, EndsOnce
  <2>8. ASSUME NEW t \in Streams PROVE SeenIsCommitted(t)'
    <3>1. CASE t = s
      BY Zenon, <3>1, <1>c, <2>3, <2>4 DEF SeenIsCommitted
    <3>2. CASE t # s
      <4>1. SeenIsCommitted(t)
        BY Zenon DEF StackIInv
      <4>2. Here(t)' = Here(t)
        BY Zenon, <3>2, <1>c, <2>3, <2>4 DEF Here
      <4> QED
        BY Zenon, <3>2, <4>1, <4>2, <1>c, <2>3, <2>4 DEF SeenIsCommitted
    <3> QED
      BY Zenon, <3>1, <3>2
  <2> QED
    BY Zenon, <1>t, <1>c, <2>1, <2>3, <2>6, <2>7, <2>8 DEF StackIInv, StackTypes
<1>2. ASSUME phase' = [phase EXCEPT ![s] = "over"], left' = [left EXCEPT ![s] = <<>>],
             terminals' = [terminals EXCEPT ![s] = @ + 1], flying' = load
      PROVE  StackIInv'
  <2>1. <<>> \in Seq(Everywhere)
    OBVIOUS
  <2>2. terminals[s] + 1 = 1
    BY <1>z
  <2>3. /\ phase' \in [Streams -> {"new", "open", "over"}] /\ left' \in [Streams -> Seq(Everywhere)]
        /\ phase'[s] = "over" /\ terminals'[s] = 1
        /\ \A t \in Streams \ {s} : phase'[t] = phase[t] /\ left'[t] = left[t] /\ terminals'[t] = terminals[t]
    BY Zenon, <1>t, <1>2, <2>1, <2>2
  <2>4. terminals' \in [Streams -> Nat]
    BY <1>t, <1>2
  <2>6. InFlightExact' /\ flying' \in [AccountSet -> Nat] /\ IsFiniteSet(StreamOpen')
    BY ZenonT(30), <1>2, <2>3, OneMoves
  <2>7. EndsOnce'
    BY Zenon, <2>3 DEF StackIInv, EndsOnce
  <2>8. ASSUME NEW t \in Streams PROVE SeenIsCommitted(t)'
    <3>1. CASE t = s
      BY Zenon, <3>1, <1>c, <2>3 DEF SeenIsCommitted
    <3>2. CASE t # s
      <4>1. SeenIsCommitted(t)
        BY Zenon DEF StackIInv
      <4>2. Here(t)' = Here(t)
        BY Zenon, <3>2, <1>c, <2>3 DEF Here
      <4> QED
        BY Zenon, <3>2, <4>1, <4>2, <1>c, <2>3 DEF SeenIsCommitted
    <3> QED
      BY Zenon, <3>1, <3>2
  <2> QED
    BY Zenon, <1>t, <1>c, <2>3, <2>4, <2>6, <2>7, <2>8 DEF StackIInv, StackTypes
<1>3. CASE \E i \in DOMAIN q : StartOn(s, q[i], SubSeq(q, i + 1, Len(q)), load)
  <2>1. PICK i \in DOMAIN q : StartOn(s, q[i], SubSeq(q, i + 1, Len(q)), load)
    BY Zenon, <1>3
  <2>2. q[i] \in Everywhere /\ SubSeq(q, i + 1, Len(q)) \in Seq(Everywhere)
    BY Zenon, Following
  <2> QED
    BY Zenon, <1>1, <2>1, <2>2
<1> QED
  BY Zenon, <1>2, <1>3 DEF Attempt

\* The end of a call whose attempt streamed keeps the invariant.
LEMMA OverKeeps ==
  ASSUME StackIInv, NEW s \in Streams, phase[s] = "open", Over(s, 1),
         DOMAIN visible' = Streams, \A t \in Streams \ {s} : visible'[t] = visible[t],
         cutOff \subseteq cutOff'
  PROVE  StackIInv'
<1>t. /\ phase \in [Streams -> {"new", "open", "over"}] /\ left \in [Streams -> Seq(Everywhere)]
      /\ DOMAIN committed = Streams /\ terminals \in [Streams -> Nat]
  BY Zenon DEF StackIInv, StackTypes
<1>z. terminals[s] = 0
  BY Zenon DEF StackIInv, EndsOnce
<1>c. DOMAIN committed' = Streams /\ \A t \in Streams \ {s} : committed'[t] = committed[t]
  BY Zenon, <1>t DEF Over
<1>2. phase' = [phase EXCEPT ![s] = "over"] /\ left' = [left EXCEPT ![s] = <<>>]
      /\ terminals' = [terminals EXCEPT ![s] = @ + 1] /\ flying' = Landed(s)
  BY Zenon DEF Over
<1>3. <<>> \in Seq(Everywhere)
  OBVIOUS
<1>4. terminals[s] + 1 = 1
  BY <1>z
<1>5. /\ phase' \in [Streams -> {"new", "open", "over"}] /\ left' \in [Streams -> Seq(Everywhere)]
      /\ phase'[s] = "over" /\ terminals'[s] = 1
      /\ \A t \in Streams \ {s} : phase'[t] = phase[t] /\ left'[t] = left[t] /\ terminals'[t] = terminals[t]
  BY Zenon, <1>t, <1>2, <1>3, <1>4
<1>6. terminals' \in [Streams -> Nat]
  BY <1>t, <1>2
<1>7. \A a \in AccountSet : Landed(s)[a] = Cardinality(Others(s, a))
  BY Zenon, LoadOfOthers
<1>8. Landed(s) \in [AccountSet -> Nat]
  BY Zenon, LandedIsLoad
<1>9. InFlightExact' /\ flying' \in [AccountSet -> Nat] /\ IsFiniteSet(StreamOpen')
  <2> DEFINE load == Landed(s)
  <2>1. load \in [AccountSet -> Nat] /\ (\A a \in AccountSet : load[a] = Cardinality(Others(s, a))) /\ flying' = load
    BY Zenon, <1>2, <1>7, <1>8
  <2> HIDE DEF load
  <2> QED
    BY Zenon, <1>5, <2>1, OneMoves
<1>10. EndsOnce'
  <2>1. EndsOnce
    BY Zenon DEF StackIInv
  <2>2. ASSUME NEW t \in Streams
        PROVE  terminals'[t] = IF phase'[t] = "over" THEN 1 ELSE 0
    <3>1. CASE t = s
      BY Zenon, <1>5, <3>1
    <3>2. CASE t # s
      BY Zenon, <1>5, <2>1, <3>2 DEF EndsOnce
    <3> QED
      BY Zenon, <3>1, <3>2
  <2> QED
    BY Zenon, <2>2 DEF EndsOnce
<1>11. ASSUME NEW t \in Streams PROVE SeenIsCommitted(t)'
  <2>1. CASE t = s
    BY Zenon, <2>1, <1>c, <1>5 DEF SeenIsCommitted
  <2>2. CASE t # s
    <3>1. SeenIsCommitted(t)
      BY Zenon DEF StackIInv
    <3>2. Here(t)' = Here(t)
      BY Zenon, <2>2, <1>c, <1>5 DEF Here
    <3> QED
      BY Zenon, <2>2, <3>1, <3>2, <1>c, <1>5 DEF SeenIsCommitted
  <2> QED
    BY Zenon, <2>1, <2>2
<1> QED
  BY Zenon, <1>c, <1>5, <1>6, <1>9, <1>10, <1>11 DEF StackIInv, StackTypes

\* Every event of every call keeps the invariant.
LEMMA StackKeeps == StackIInv /\ [StackNext]_stackVars => StackIInv'
<1> SUFFICES ASSUME StackIInv, [StackNext]_stackVars
             PROVE  StackIInv'
  BY Zenon
<1>t. /\ phase \in [Streams -> {"new", "open", "over"}] /\ left \in [Streams -> Seq(Everywhere)]
      /\ DOMAIN committed = Streams /\ DOMAIN visible = Streams /\ flying \in [AccountSet -> Nat]
  BY Zenon DEF StackIInv, StackTypes
<1>1. ASSUME NEW s \in Streams, StreamSimple(s)
      PROVE  StackIInv'
  <2>1. PICK q \in CandidateAccounts(s) : Attempt(s, q \o Fallbacks, flying)
    BY Zenon, <1>1 DEF StreamSimple
  <2>2. q \o Fallbacks \in Seq(Everywhere)
    BY Zenon, RoutesListed
  <2>3. phase[s] = "new" /\ visible' = visible /\ cutOff' = cutOff
    BY Zenon, <1>1 DEF StreamSimple
  <2>4. visible[s] = {} /\ \A a \in AccountSet : flying[a] = Cardinality(Others(s, a))
    BY Zenon, <2>3, LoadOfOthers DEF StackIInv, SeenIsCommitted
  <2> QED
    BY Zenon, <1>t, <2>1, <2>2, <2>3, <2>4, AttemptKeeps
<1>2. ASSUME NEW s \in Streams, SemanticEvent(s)
      PROVE  StackIInv'
  <2>1. /\ phase' = phase /\ left' = left /\ flying' = flying /\ terminals' = terminals /\ cutOff' = cutOff
        /\ phase[s] = "open" /\ committed[s] # TRUE
    BY Zenon, <1>2 DEF SemanticEvent
  <2>2. /\ DOMAIN committed' = Streams /\ DOMAIN visible' = Streams
        /\ committed'[s] = TRUE /\ visible'[s] = visible[s] \cup {Here(s)}
        /\ \A t \in Streams \ {s} : committed'[t] = committed[t] /\ visible'[t] = visible[t]
    BY Zenon, <1>t, <1>2 DEF SemanticEvent
  <2>3. ASSUME NEW t \in Streams PROVE SeenIsCommitted(t)'
    <3>1. SeenIsCommitted(t) /\ Here(t)' = Here(t)
      BY Zenon, <2>1 DEF StackIInv, Here
    <3>2. CASE t = s
      <4>1. s \notin cutOff => visible[s] = {}
        BY Zenon, <2>1, <3>1, <3>2 DEF SeenIsCommitted
      <4>2. s \notin cutOff => visible'[s] = {Here(s)}
        BY Zenon, <2>2, <4>1
      <4> QED
        BY Zenon, <2>1, <2>2, <3>1, <3>2, <4>2 DEF SeenIsCommitted
    <3>3. CASE t # s
      BY Zenon, <2>1, <2>2, <3>1, <3>3 DEF SeenIsCommitted
    <3> QED
      BY Zenon, <3>2, <3>3
  <2> QED
    BY ZenonT(30), <2>1, <2>2, <2>3 DEF StackIInv, StackTypes, StreamOpen, EndsOnce, InFlightExact, Here
<1>3. ASSUME NEW s \in Streams, DoneEvent(s)
      PROVE  StackIInv'
  <2>1. phase[s] = "open" /\ Over(s, 1) /\ cutOff' = cutOff
    BY Zenon, <1>3 DEF DoneEvent
  <2>2. DOMAIN visible' = Streams /\ \A t \in Streams \ {s} : visible'[t] = visible[t]
    BY Zenon, <1>t, <1>3 DEF DoneEvent
  <2> QED
    BY Zenon, <2>1, <2>2, OverKeeps
<1>4. ASSUME NEW s \in Streams, NEW class, FailOver(s, class), phase[s] = "open", visible' = visible,
             cutOff \subseteq cutOff', cutOff' \subseteq cutOff \cup {s}, committed[s] # TRUE \/ s \in cutOff'
      PROVE  StackIInv'
  <2>1. SeenIsCommitted(s)
    BY Zenon DEF StackIInv
  <2>2. s \in cutOff' \/ visible[s] = {}
    BY Zenon, <1>4, <2>1 DEF SeenIsCommitted
  <2>3. left[s] \in Seq(Everywhere) /\ left[s] # <<>>
    BY Zenon, <1>t, <1>4, <2>1 DEF SeenIsCommitted
  <2>4. CASE Over(s, 1)
    BY Zenon, <1>t, <1>4, <2>4, OverKeeps
  <2>5. CASE Attempt(s, Tail(left[s]), Landed(s))
    <3> DEFINE q == Tail(left[s])
               load == Landed(s)
    <3>1. q \in Seq(Everywhere)
      BY Zenon, <2>3, HeadTailProperties
    <3>2. load \in [AccountSet -> Nat] /\ \A a \in AccountSet : load[a] = Cardinality(Others(s, a))
      BY Zenon, <1>4, LandedIsLoad, LoadOfOthers
    <3>3. Attempt(s, q, load)
      BY Zenon, <2>5
    <3> HIDE DEF q, load
    <3> QED
      BY Zenon, <1>4, <2>2, <3>1, <3>2, <3>3, AttemptKeeps
  <2> QED
    BY Zenon, <1>4, <2>4, <2>5 DEF FailOver
<1>5. ASSUME NEW s \in Streams, NEW class, NEW d, ErrorEvent(s, class, d)
      PROVE  StackIInv'
  <2>1. phase[s] = "open" /\ visible' = visible /\ cutOff' = cutOff
    BY Zenon, <1>5 DEF ErrorEvent, MarkFailure
  <2>2. CASE committed[s] = TRUE
    <3>1. Over(s, 1)
      BY Zenon, <1>5, <2>2 DEF ErrorEvent
    <3> QED
      BY Zenon, <1>t, <2>1, <3>1, OverKeeps
  <2>3. CASE committed[s] # TRUE
    <3>1. Over(s, 1) \/ FailOver(s, class)
      BY Zenon, <1>5 DEF ErrorEvent
    <3>2. CASE Over(s, 1)
      BY Zenon, <1>t, <2>1, <3>2, OverKeeps
    <3>3. CASE FailOver(s, class)
      BY Zenon, <1>4, <2>1, <2>3, <3>3
    <3> QED
      BY Zenon, <3>1, <3>2, <3>3
  <2> QED
    BY Zenon, <2>2, <2>3
<1>6. ASSUME NEW s \in Streams, NEW class, NEW d, CutOff(s, class, d)
      PROVE  StackIInv'
  <2>1. phase[s] = "open" /\ visible' = visible /\ FailOver(s, class)
    BY Zenon, <1>6 DEF CutOff, MarkFailure
  <2>2. cutOff \subseteq cutOff' /\ cutOff' \subseteq cutOff \cup {s} /\ (committed[s] # TRUE \/ s \in cutOff')
    BY Zenon, <1>6 DEF CutOff
  <2> QED
    BY Zenon, <1>4, <2>1, <2>2
<1>7. CASE TimePasses \/ UNCHANGED stackVars
  <2>1. /\ phase' = phase /\ left' = left /\ flying' = flying /\ terminals' = terminals /\ cutOff' = cutOff
        /\ committed' = committed /\ visible' = visible
    BY Zenon, <1>7 DEF TimePasses, stackVars
  <2> QED
    BY ZenonT(30), <2>1 DEF StackIInv, StackTypes, StreamOpen, EndsOnce, InFlightExact, SeenIsCommitted, Here
<1> QED
  BY Zenon, <1>1, <1>2, <1>3, <1>5, <1>6, <1>7 DEF StackNext

\* For any number of calls, accounts and fallbacks and under every strategy: a
\* failover replays no committed output that was not cut off, ends the caller's
\* stream once and leaves no account counted as busy (streamOpenCodeStack,
\* pipeAttempt).
THEOREM FailoverLeavesNothing == StackSpec => []FailoverIsClean
<1>1. StackInit => StackIInv
  <2> SUFFICES ASSUME StackInit PROVE StackIInv
    BY Zenon
  <2>1. phase = [s \in Streams |-> "new"] /\ left = [s \in Streams |-> <<>>] /\ terminals = [s \in Streams |-> 0]
        /\ flying = [a \in AccountSet |-> 0] /\ visible = [s \in Streams |-> {}] /\ committed = [s \in Streams |-> FALSE]
    BY Zenon DEF StackInit
  <2>2. <<>> \in Seq(Everywhere) /\ 0 \in Nat
    OBVIOUS
  <2>3. StackTypes
    BY Zenon, <2>1, <2>2 DEF StackTypes
  <2>4. StreamOpen = {} /\ \A a \in AccountSet : {s \in Streams : phase[s] = "open" /\ Here(s) = a} = {}
    BY Zenon, <2>1 DEF StreamOpen
  <2>5. IsFiniteSet(StreamOpen) /\ InFlightExact
    BY Zenon, <2>1, <2>4, FS_EmptySet DEF InFlightExact
  <2>6. EndsOnce /\ \A s \in Streams : SeenIsCommitted(s)
    BY Zenon, <2>1 DEF EndsOnce, SeenIsCommitted
  <2> QED
    BY Zenon, <2>3, <2>5, <2>6 DEF StackIInv
<1>2. StackIInv => FailoverIsClean
  <2> SUFFICES ASSUME StackIInv PROVE CommittedNotReplayed
    BY Zenon DEF StackIInv, FailoverIsClean
  <2> SUFFICES ASSUME NEW s \in Streams \ cutOff, visible[s] # {}, phase[s] = "open"
               PROVE  visible[s] = {Here(s)}
    BY Zenon DEF CommittedNotReplayed
  <2>1. SeenIsCommitted(s)
    BY Zenon DEF StackIInv
  <2> QED
    BY Zenon, <2>1 DEF SeenIsCommitted
<1> QED
  BY <1>1, <1>2, StackKeeps, PTL DEF StackSpec
==============================================================================
