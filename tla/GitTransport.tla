---------------------------- MODULE GitTransport ----------------------------
(***************************************************************************)
(* Git as the artifact transport: one bare repository of the runtime's that *)
(* sandboxes push to under one-shot grants (scoped-push.ts and its          *)
(* pre-receive hook), bundles are ingested into (git-transport.ts), and      *)
(* review refs are written in.  The hook of one push runs beside the hooks   *)
(* of others and beside the runtime; git itself is external: it applies a    *)
(* ref update atomically and only if the ref still is what the pusher was    *)
(* told, and a fetch only fast-forwards.                                     *)
(***************************************************************************)
EXTENDS Naturals, Sequences, FiniteSets

CONSTANTS
    Pushes, PushRef,     \* scopedPush calls, and the ref of each
    PushCommit,          \* the commit each pushes, or NoObject to delete the ref
    Grants, GrantRef,    \* grant files, and the ref of each
    Ingests, BundleHead, \* ingestBundle calls, and the HEAD of each one's bundle
    ParentOf,            \* per commit: its parent, or NoObject
    NoObject

PushRefs == {PushRef[p] : p \in Pushes} \cup {GrantRef[g] : g \in Grants}
Refs == PushRefs \cup {"transport", "review"}

VARIABLES
    refs,      \* the refs of the bare repository
    grants,    \* the grant files
    lapsedGrants, \* the grants whose expiresAt has passed
    hook,      \* the pre-receive hook is installed
    push,      \* per push: where it is
    told,      \* per push: the value of its ref that git advertised to it
    grant,     \* per push: the grant its hook found
    ingest,    \* per ingest: where it is
    got,       \* per ingest: the commit it returned
    issued,    \* history: the grants made
    creations, \* history: the pushes that created their ref
    crossed    \* history: the ingests that ran while another did

transportVars == <<refs, grants, lapsedGrants, hook, push, told, grant, ingest, got, issued, creations, crossed>>
pushVars == <<push, told, grant, creations>>
ingestVars == <<ingest, got, crossed>>

TransportInit ==
    /\ refs = [r \in Refs |-> NoObject]
    /\ grants = {} /\ lapsedGrants = {} /\ issued = {}
    /\ hook = FALSE
    /\ push = [p \in Pushes |-> "new"]
    /\ told = [p \in Pushes |-> NoObject]
    /\ grant = [p \in Pushes |-> NoObject]
    /\ ingest = [i \in Ingests |-> "new"]
    /\ got = [i \in Ingests |-> NoObject]
    /\ creations = <<>>
    /\ crossed = {}

-----------------------------------------------------------------------------
(* Grants *)

\* The hook is written before the grant, so there is no grant without the hook.
InstallHook ==
    /\ ~hook /\ hook' = TRUE
    /\ UNCHANGED <<refs, grants, lapsedGrants, pushVars, ingestVars, issued>>

CreateScopedPushGrant(g) ==
    /\ hook /\ g \notin issued
    /\ grants' = grants \cup {g}
    /\ issued' = issued \cup {g}
    /\ UNCHANGED <<refs, lapsedGrants, hook, pushVars, ingestVars>>

GrantExpires(g) ==
    /\ g \in issued \ lapsedGrants
    /\ lapsedGrants' = lapsedGrants \cup {g}
    /\ UNCHANGED <<refs, grants, hook, pushVars, ingestVars, issued>>

-----------------------------------------------------------------------------
(* scopedPush, the hook and git's update *)

PushAt(p, where) == push' = [push EXCEPT ![p] = where]

\* The remote is a repository a grant was made for, so the hook is there.
ScopedPush(p) ==
    /\ hook /\ push[p] = "new"
    /\ told' = [told EXCEPT ![p] = refs[PushRef[p]]]
    /\ PushAt(p, "grant")
    /\ UNCHANGED <<refs, grants, lapsedGrants, hook, grant, ingestVars, issued, creations>>

Valid(p) == {g \in grants \ lapsedGrants : GrantRef[g] = PushRef[p]}

\* One update, not a deletion, with a grant that has not expired.
FindGrant(p) ==
    /\ push[p] = "grant"
    /\ IF PushCommit[p] = NoObject \/ Valid(p) = {}
       THEN PushAt(p, "rejected") /\ grant' = grant
       ELSE PushAt(p, "exists") /\ \E g \in Valid(p) : grant' = [grant EXCEPT ![p] = g]
    /\ UNCHANGED <<refs, grants, lapsedGrants, hook, told, ingestVars, issued, creations>>

\* Mutated: a ref that exists may be overwritten.
RefFreeAlways(p) == TRUE

RefFree(p) == refs[PushRef[p]] = NoObject

RefExists(p) ==
    /\ push[p] = "exists"
    /\ PushAt(p, IF RefFree(p) THEN "consume" ELSE "rejected")
    /\ UNCHANGED <<refs, grants, lapsedGrants, hook, told, grant, ingestVars, issued, creations>>

\* The grant file is removed, or was already.
Consume(p) ==
    /\ push[p] = "consume"
    /\ grants' = grants \ {grant[p]}
    /\ PushAt(p, "update")
    /\ UNCHANGED <<refs, lapsedGrants, hook, told, grant, ingestVars, issued, creations>>

\* git applies the update when the ref is still what the pusher was told.
Update(p) ==
    /\ push[p] = "update"
    /\ \/ /\ refs[PushRef[p]] = told[p]
          /\ refs' = [refs EXCEPT ![PushRef[p]] = PushCommit[p]]
          /\ creations' = Append(creations, p)
          /\ PushAt(p, "ok")
       \/ /\ refs[PushRef[p]] # told[p]
          /\ PushAt(p, "rejected")
          /\ UNCHANGED <<refs, creations>>
    /\ UNCHANGED <<grants, lapsedGrants, hook, told, grant, ingestVars, issued>>

\* The pusher goes away, or git fails, after the hook has let it pass.
PushFails(p) ==
    /\ push[p] \in {"grant", "exists", "consume", "update"}
    /\ PushAt(p, "rejected")
    /\ UNCHANGED <<refs, grants, lapsedGrants, hook, told, grant, ingestVars, issued, creations>>

-----------------------------------------------------------------------------
(* Bundles and review refs *)

RECURSIVE History(_)
History(c) == IF c = NoObject THEN {NoObject} ELSE {c} \cup History(ParentOf[c])

\* The repository is initialised when it is not one.
IngestBundle(i) ==
    /\ ingest[i] = "new"
    /\ ingest' = [ingest EXCEPT ![i] = "fetch"]
    /\ LET others == {j \in Ingests \ {i} : ingest[j] \in {"fetch", "revparse"}}
       IN  crossed' = IF others = {} THEN crossed ELSE crossed \cup others \cup {i}
    /\ UNCHANGED <<refs, grants, lapsedGrants, hook, pushVars, got, issued>>

\* fetch HEAD:refs/transport/head, which fails when it is not a fast-forward.
FetchBundle(i) ==
    /\ ingest[i] = "fetch"
    /\ \/ /\ refs["transport"] \in History(BundleHead[i])
          /\ refs' = [refs EXCEPT !["transport"] = BundleHead[i]]
          /\ ingest' = [ingest EXCEPT ![i] = "revparse"]
       \/ /\ refs["transport"] \notin History(BundleHead[i])
          /\ ingest' = [ingest EXCEPT ![i] = "failed"]
          /\ refs' = refs
    /\ UNCHANGED <<grants, lapsedGrants, hook, pushVars, got, crossed, issued>>

RevParseHead(i) ==
    /\ ingest[i] = "revparse"
    /\ ingest' = [ingest EXCEPT ![i] = "done"]
    /\ got' = [got EXCEPT ![i] = refs["transport"]]
    /\ UNCHANGED <<refs, grants, lapsedGrants, hook, pushVars, crossed, issued>>

\* update-ref, with no expected value: the last writer of a ref is in it.  The
\* ref must be fully qualified.
CreateReviewRef(i, r) ==
    /\ ingest[i] = "done" /\ r = "review"
    /\ refs' = [refs EXCEPT ![r] = got[i]]
    /\ UNCHANGED <<grants, lapsedGrants, hook, pushVars, ingestVars, issued>>

ListReviewRefs == {r \in PushRefs \cup {"review"} : refs[r] # NoObject}

-----------------------------------------------------------------------------
TransportNext ==
    \/ InstallHook
    \/ \E g \in Grants : CreateScopedPushGrant(g) \/ GrantExpires(g)
    \/ \E p \in Pushes : ScopedPush(p) \/ FindGrant(p) \/ RefExists(p) \/ Consume(p) \/ Update(p) \/ PushFails(p)
    \/ \E i \in Ingests : IngestBundle(i) \/ FetchBundle(i) \/ RevParseHead(i) \/ CreateReviewRef(i, "review")

TransportSpec == TransportInit /\ [][TransportNext]_transportVars

-----------------------------------------------------------------------------
(* Properties *)

\* What is handed over is what arrives: a ref was created by one push, which had
\* a grant for it, and holds that push's commit, although hooks of several
\* pushes run at once and may find one grant (scoped-push.ts:48-57); and an
\* ingest that no other overlapped returns the HEAD of its own bundle
\* (git-transport.ts:110-111).
HandoffIsExact ==
    /\ \A r \in PushRefs :
          LET made == {n \in DOMAIN creations : PushRef[creations[n]] = r} IN
          /\ Cardinality(made) <= 1
          /\ \A n \in made : refs[r] = PushCommit[creations[n]] /\ GrantRef[grant[creations[n]]] = r
          /\ refs[r] # NoObject => made # {}
    /\ \A i \in Ingests \ crossed : ingest[i] = "done" => got[i] = BundleHead[i]

\* The same of every ingest: not true of two that overlap.
IngestReturnsItsBundle == \A i \in Ingests : ingest[i] = "done" => got[i] = BundleHead[i]
=============================================================================
