---------------------------- MODULE ArtifactStore ----------------------------
(***************************************************************************)
(* Content-addressed artifacts: FileSystemBlobStore and GuardedBlobStore   *)
(* (src/artifacts/blob-store.ts), the index of what was produced from what *)
(* (artifact-index.ts) and the sweep that prunes what the index cannot     *)
(* reach (retention.ts).                                                   *)
(*                                                                         *)
(* Writers put a blob and record it; sweeps run meanwhile.  An action is   *)
(* what happens between two file operations.  Time is relative to the      *)
(* grace period: a writer records what it put within it.                   *)
(***************************************************************************)
EXTENDS Integers, FiniteSets

CONSTANTS
    Writers,
    TenantOf,     \* a function: the tenant of each writer
    Digests,      \* the contents, by digest; each counts one unit of the quota
    MaxPerTenant, \* maxBytesPerTenant
    MaxWalk,    \* maxDepth of walkProvenance
    MaxPuts       \* puts and sweeps in a behaviour

ASSUME BlobAssumption == Digests # {}

VARIABLES
    stored,   \* the digests whose object is on disk
    sidecar,  \* the digests whose metadata is on disk
    aged,     \* the stored digests older than the grace period
    index,    \* #byDigest: recorded digests, each with its producedFrom
    used,     \* TenantWriteQuota.#used
    writer,   \* what each writer is doing
    sweep,    \* the sweep in progress
    puts,
    reused    \* history: digests that a put found on disk and did not write

blobVars == <<stored, sidecar, aged, index, used, writer, sweep, puts, reused>>

BlobTenants == {TenantOf[w] : w \in Writers}
NoPut == [at |-> "idle", digest |-> CHOOSE d \in Digests : TRUE, from |-> {}, new |-> FALSE]
NoSweep == [at |-> "idle", cut |-> {}, now |-> CHOOSE d \in Digests : TRUE]

BlobInit ==
    /\ stored = {} /\ sidecar = {} /\ aged = {} /\ index = << >> /\ puts = 0 /\ reused = {}
    /\ used = [t \in BlobTenants |-> 0] /\ writer = [w \in Writers |-> NoPut] /\ sweep = NoSweep

Doing(w, place) == writer[w].at = place
Digest(w) == writer[w].digest
Goes(w, place) == writer' = [writer EXCEPT ![w] = IF place = "idle" THEN NoPut ELSE [@ EXCEPT !.at = place]]

-----------------------------------------------------------------------------
(* GuardedBlobStore.put around FileSystemBlobStore.put, then record.           *)

\* stat finds the object of a digest; its metadata is not told apart.
StatBlob(d) == d \in stored
QuotaAllows(tenant) == used[tenant] + 1 <= MaxPerTenant

\* inner.stat, and the quota if the object is new.
Put(w, d, from) ==
    /\ Doing(w, "idle") /\ puts < MaxPuts /\ puts' = puts + 1
    /\ StatBlob(d) \/ QuotaAllows(TenantOf[w])
    /\ writer' = [writer EXCEPT ![w] = [at |-> "look", digest |-> d, from |-> from, new |-> ~StatBlob(d)]]
    /\ UNCHANGED <<stored, sidecar, aged, index, used, sweep, reused>>

\* readFile of the object: one that exists is not written again.
PutLook(w) ==
    /\ Doing(w, "look")
    /\ IF Digest(w) \in stored THEN Goes(w, "meta") /\ reused' = reused \cup {Digest(w)}
       ELSE Goes(w, "rename") /\ UNCHANGED reused
    /\ UNCHANGED <<stored, sidecar, aged, index, used, sweep, puts>>

\* writeFile of a temporary file and its rename: the object appears whole, and young.
PutRename(w) ==
    /\ Doing(w, "rename") /\ Goes(w, "meta")
    /\ stored' = stored \cup {Digest(w)} /\ aged' = aged \ {Digest(w)}
    /\ sweep' = [sweep EXCEPT !.cut = @ \ {Digest(w)}]
    /\ UNCHANGED <<sidecar, index, used, puts, reused>>

\* The sidecar; its error is ignored.
PutMeta(w) ==
    /\ Doing(w, "meta") /\ Goes(w, "commit")
    /\ sidecar' \in {sidecar, sidecar \cup {Digest(w)}}
    /\ UNCHANGED <<stored, aged, index, used, sweep, puts, reused>>

QuotaCommit(tenant) == [used EXCEPT ![tenant] = @ + 1]
Record(digest, from) == [d \in DOMAIN index \cup {digest} |-> IF d = digest THEN from ELSE index[d]]

\* The quota is charged, and the caller records the reference it got.
PutCommit(w) ==
    /\ Doing(w, "commit") /\ Goes(w, "idle")
    /\ used' = IF writer[w].new THEN QuotaCommit(TenantOf[w]) ELSE used
    /\ index' = Record(Digest(w), writer[w].from)
    /\ UNCHANGED <<stored, sidecar, aged, sweep, puts, reused>>

\* An error of a file operation, or the end of the writer.
PutStops(w) ==
    /\ ~Doing(w, "idle") /\ Goes(w, "idle")
    /\ UNCHANGED <<stored, sidecar, aged, index, used, sweep, puts, reused>>

-----------------------------------------------------------------------------
(* sweepUnreferencedBlobs.                                                     *)

\* walkProvenance: what depth steps of producedFrom reach; an unrecorded digest
\* is reached, and nothing from it.
WalkProvenance(d, depth) ==
    LET reach[n \in 0..depth] ==
          IF n = 0 THEN {d}
          ELSE reach[n - 1] \cup UNION {index[e] : e \in reach[n - 1] \cap DOMAIN index}
    IN  reach[depth]

ReachableDigests == DOMAIN index \cup UNION {WalkProvenance(d, MaxWalk) : d \in DOMAIN index}

\* Every object on disk whose stat finds it.
ListBlobs == {d \in Digests : StatBlob(d)}

\* Mutated: the sweep takes young objects too.
SweepIgnoresAge ==
    /\ sweep.at = "idle" /\ puts < MaxPuts /\ puts' = puts + 1
    /\ sweep' = [sweep EXCEPT !.at = "next", !.cut = ListBlobs \ ReachableDigests]
    /\ UNCHANGED <<stored, sidecar, aged, index, used, writer, reused>>

\* The keep set, the time and the listing are taken at the start.
SweepStarts ==
    /\ sweep.at = "idle" /\ puts < MaxPuts /\ puts' = puts + 1
    /\ sweep' = [sweep EXCEPT !.at = "next", !.cut = (ListBlobs \cap aged) \ ReachableDigests]
    /\ UNCHANGED <<stored, sidecar, aged, index, used, writer, reused>>

\* One object that is neither kept nor young, then its sidecar.
SweepObject(d) ==
    /\ sweep.at = "next" /\ d \in sweep.cut
    /\ stored' = stored \ {d} /\ aged' = aged \ {d}
    /\ sweep' = [at |-> "meta", cut |-> sweep.cut \ {d}, now |-> d]
    /\ UNCHANGED <<sidecar, index, used, writer, puts, reused>>

SweepMeta ==
    /\ sweep.at = "meta"
    /\ sidecar' = sidecar \ {sweep.now} /\ sweep' = [sweep EXCEPT !.at = "next"]
    /\ UNCHANGED <<stored, aged, index, used, writer, puts, reused>>

SweepEnds ==
    /\ sweep.at = "next" /\ sweep.cut = {} /\ sweep' = NoSweep
    /\ UNCHANGED <<stored, sidecar, aged, index, used, writer, puts, reused>>

\* The grace period of an object passes; whoever wrote it has recorded it by then.
Ages(d) ==
    /\ d \in stored \ aged
    /\ \A w \in Writers : Digest(w) = d => Doing(w, "idle")
    /\ aged' = aged \cup {d}
    /\ UNCHANGED <<stored, sidecar, index, used, writer, sweep, puts, reused>>

BlobNext ==
    \/ \E w \in Writers :
          \/ \E d \in Digests, from \in SUBSET Digests : Cardinality(from) <= 1 /\ Put(w, d, from)
          \/ PutLook(w) \/ PutRename(w) \/ PutMeta(w) \/ PutCommit(w) \/ PutStops(w)
    \/ SweepStarts \/ SweepMeta \/ SweepEnds
    \/ \E d \in Digests : SweepObject(d) \/ Ages(d)

BlobSpec == BlobInit /\ [][BlobNext]_blobVars

-----------------------------------------------------------------------------
\* What the index records is on disk, however sweeps and puts interleave, if no
\* put relied on an object it found there (put of blob-store.ts and
\* sweepUnreferencedBlobs of retention.ts).
RecordedIsStored == DOMAIN index \subseteq stored \cup reused

BlobTypeOK ==
    /\ writer \in [Writers -> [at : {"idle", "look", "rename", "meta", "commit"}, digest : Digests,
                             from : SUBSET Digests, new : BOOLEAN]]
    /\ sweep \in [at : {"idle", "next", "meta"}, cut : SUBSET Digests, now : Digests]

\* What a writer has put and not yet recorded is on disk, too young to be swept.
PutIsSafe ==
    \A w \in Writers : Doing(w, "meta") \/ Doing(w, "commit") =>
        Digest(w) \in reused \/ (Digest(w) \in stored /\ Digest(w) \notin aged /\ Digest(w) \notin sweep.cut)

\* The sweep in progress is to take nothing that has been recorded since it began.
SweepSpares == sweep.cut \cap DOMAIN index \subseteq reused

BlobIInv == BlobTypeOK /\ PutIsSafe /\ SweepSpares /\ RecordedIsStored

\* The grace period protects every writer in flight: what the index records is on
\* disk, also when the object was there before (retention.ts:34).
GraceProtectsWriters == DOMAIN index \subseteq stored

=============================================================================
