----------------------------- MODULE WorldStore -----------------------------
(***************************************************************************)
(* The canonical world in Postgres (postgres/persistence.ts): projects,     *)
(* tasks and artifacts that writers read, change and write back, by compare *)
(* and swap on a revision or by a plain put.  A record is its revision and  *)
(* the set of changes its contents incorporate.                             *)
(***************************************************************************)
EXTENDS Naturals

CONSTANTS
    Writers,
    MaxChanges   \* bound on the writes of a writer

Kinds == {"project", "task", "artifact"}

VARIABLES
    world,    \* per kind: the stored record
    seen,     \* per writer: the kind and record it read, kind "none" when it holds none
    made,     \* per writer: how many changes it has written
    accepted, \* history, per kind: the changes whose writers were told they are in
    blind     \* history: the kinds that were put without looking at the revision

worldVars == <<world, seen, made, accepted, blind>>

Nothing == [kind |-> "none", revision |-> 0, has |-> {}]

WorldInit ==
    /\ world = [k \in Kinds |-> [revision |-> 0, has |-> {}]]
    /\ seen = [w \in Writers |-> Nothing]
    /\ made = [w \in Writers |-> 0]
    /\ accepted = [k \in Kinds |-> {}]
    /\ blind = {}

\* getProject, getTask, getArtifact: a record without a revision has revision 0.
GetBody(w, k) ==
    /\ made[w] < MaxChanges
    /\ seen' = [seen EXCEPT ![w] = [kind |-> k, revision |-> world[k].revision, has |-> world[k].has]]
    /\ UNCHANGED <<world, made, accepted, blind>>

Revised(w, revision) == [revision |-> revision, has |-> seen[w].has \cup {<<w, made[w] + 1>>}]

Wrote(w, k) ==
    /\ made' = [made EXCEPT ![w] = @ + 1]
    /\ accepted' = [accepted EXCEPT ![k] = @ \cup {<<w, made[w] + 1>>}]

\* Mutated: any older or equal revision is taken for the expected one.
CurrentOrNewer(w, k) == world[k].revision >= seen[w].revision

Current(w, k) == world[k].revision = seen[w].revision

\* compareAndSwapProject, compareAndSwapTask, compareAndSwapArtifact: one UPDATE;
\* a writer that lost is given the current record and reads it.
CompareAndSwap(w, k) ==
    /\ seen[w].kind = k
    /\ \/ /\ Current(w, k)
          /\ world' = [world EXCEPT ![k] = Revised(w, seen[w].revision + 1)]
          /\ Wrote(w, k)
          /\ seen' = [seen EXCEPT ![w] = Nothing]
       \/ /\ ~Current(w, k)
          /\ seen' = [seen EXCEPT ![w] = [kind |-> k, revision |-> world[k].revision, has |-> world[k].has]]
          /\ UNCHANGED <<world, made, accepted>>
    /\ blind' = blind

\* putProject takes a newer revision only and throws otherwise; a writer numbers
\* its version one past the one it read.
PutProject(w) ==
    /\ seen[w].kind = "project"
    /\ seen' = [seen EXCEPT ![w] = Nothing]
    /\ \/ /\ seen[w].revision + 1 > world["project"].revision
          /\ world' = [world EXCEPT !["project"] = Revised(w, seen[w].revision + 1)]
          /\ Wrote(w, "project")
       \/ /\ seen[w].revision + 1 <= world["project"].revision
          /\ UNCHANGED <<world, made, accepted>>
    /\ blind' = blind

\* putTask and putArtifact are upserts: what is stored is replaced, whatever its revision.
UpsertBody(w, k) ==
    /\ seen[w].kind = k /\ k # "project"
    /\ world' = [world EXCEPT ![k] = Revised(w, seen[w].revision)]
    /\ Wrote(w, k)
    /\ seen' = [seen EXCEPT ![w] = Nothing]
    /\ blind' = blind \cup {k}

WorldNext ==
    \E w \in Writers :
        \/ PutProject(w)
        \/ \E k \in Kinds : GetBody(w, k) \/ CompareAndSwap(w, k) \/ UpsertBody(w, k)

WorldSpec == WorldInit /\ [][WorldNext]_worldVars

-----------------------------------------------------------------------------
(* Properties *)

\* A change whose writer was told it is in stays in (compareAndSwapProject,
\* compareAndSwapTask, compareAndSwapArtifact, putProject): no writer that read
\* an older record overwrites it.  putTask and putArtifact ignore revisions, so
\* a task or artifact that was ever put plainly is excepted.
SwappedIsKept == \A k \in Kinds \ blind : accepted[k] \subseteq world[k].has

Change == Writers \X Nat
Body == [revision : Nat, has : SUBSET Change]

WorldTypeOK ==
    /\ world \in [Kinds -> Body]
    /\ seen \in [Writers -> [kind : Kinds \cup {"none"}, revision : Nat, has : SUBSET Change]]
    /\ made \in [Writers -> Nat]
    /\ accepted \in [Kinds -> SUBSET Change]
    /\ blind \subseteq Kinds

\* What a writer read is not ahead of what is stored, and has what is accepted
\* when it is as new.
SeenIsOld ==
    \A w \in Writers : seen[w].kind \in Kinds \ blind =>
        /\ seen[w].revision <= world[seen[w].kind].revision
        /\ Current(w, seen[w].kind) => accepted[seen[w].kind] \subseteq seen[w].has

\* Inductive: SwappedIsKept is part of it.
WorldIInv == WorldTypeOK /\ SeenIsOld /\ SwappedIsKept
=============================================================================
