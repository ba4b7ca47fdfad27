--------------------------- MODULE SnapshotSource ---------------------------
(***************************************************************************)
(* The source tree that is paged in from GitHub (docs/history/museum/      *)
(* integrations/pi-synthetic-git-prototype, github-snapshot-source.ts):    *)
(* the ref is resolved to a commit when something is first asked, and      *)
(* metadata and blobs are fetched when they are needed, and cached.  Calls *)
(* interleave at every request; the branch may move meanwhile.             *)
(*                                                                         *)
(* A path is the sequence of its names, a blob is known by its sha.        *)
(***************************************************************************)
EXTENDS Integers, Sequences, SequencesExt, FiniteSets, TLC

CONSTANTS
    SnapFiles,       \* per commit of the branch, in order: path -> sha
    SparsePrefixes,  \* the sparse view, {} for all
    SnapCalls,       \* the calls
    CallOp,          \* per call: "stat", "list" or "read"
    CallPath         \* per call: its path

VARIABLES
    branchTip,   \* the commit the ref names at GitHub
    snapCommit,  \* #commit, 0 until it is known
    metaCache,   \* #meta
    listCache,   \* #children
    blobCache,   \* #blobs
    request,     \* per call: where it stands, what it resolved or asked, its answer
    overlapped   \* history: a call resolved the ref while another did

snapVars == <<branchTip, snapCommit, metaCache, listCache, blobCache, request, overlapped>>

Missing == [kind |-> "none", sha |-> "none"]
DirectoryMeta == [kind |-> "directory", sha |-> "none"]
FileMeta(sha) == [kind |-> "file", sha |-> sha]
NoAnswer == "none yet"

\* What GitHub has at a path of a commit, and below it.
ContentsAt(k, p) ==
    CASE p \in DOMAIN SnapFiles[k] -> FileMeta(SnapFiles[k][p])
      [] \E q \in DOMAIN SnapFiles[k] : IsStrictPrefix(p, q) -> DirectoryMeta
      [] OTHER -> Missing
EntriesAt(k, p) ==
    LET below == {SubSeq(q, 1, Len(p) + 1) : q \in {r \in DOMAIN SnapFiles[k] : IsStrictPrefix(p, r)}}
    IN  [q \in below |-> ContentsAt(k, q)]

isRelevant(p) ==
    \/ SparsePrefixes = {} \/ p = << >>
    \/ \E prefix \in SparsePrefixes : IsPrefix(prefix, p) \/ IsPrefix(p, prefix)

RelevantOf(entries) == [q \in {r \in DOMAIN entries : isRelevant(r)} |-> entries[q]]

SnapInit ==
    /\ branchTip = 1 /\ snapCommit = 0 /\ metaCache = << >> :> DirectoryMeta /\ listCache = << >> /\ blobCache = {} /\ overlapped = FALSE
    /\ request = [c \in SnapCalls |-> [at |-> "new", found |-> 0, answer |-> NoAnswer]]

SnapAt(c, place) == request[c].at = place
SnapGoes(c, place) == request' = [request EXCEPT ![c].at = place]
Answers(c, answer) == request' = [request EXCEPT ![c].at = "done", ![c].answer = answer]
Throws(c) == SnapGoes(c, "failed")
Cached(c) == IF CallOp[c] = "list" THEN CallPath[c] \in DOMAIN listCache ELSE CallPath[c] \in DOMAIN metaCache

\* The answer of stat, or what readFile does with it: only a file has a blob.
Told(c, meta) ==
    CASE CallOp[c] = "stat"  -> Answers(c, meta)
      [] meta.kind = "file"  -> SnapGoes(c, "blob")
      [] OTHER               -> Throws(c)

\* Outside the sparse view there is nothing; what is cached is not asked for.
AskSource(c) ==
    LET p == CallPath[c]
    IN  /\ SnapAt(c, "new")
        /\ CASE ~isRelevant(p) -> IF CallOp[c] = "read" THEN Throws(c) ELSE Answers(c, IF CallOp[c] = "stat" THEN Missing ELSE << >>)
             [] isRelevant(p) /\ ~Cached(c) -> SnapGoes(c, "commit")
             [] isRelevant(p) /\ Cached(c) -> IF CallOp[c] = "list" THEN Answers(c, listCache[p]) ELSE Told(c, metaCache[p])
        /\ UNCHANGED <<branchTip, snapCommit, metaCache, listCache, blobCache, overlapped>>

\* Mutated: the commit is resolved for every call.
EnsureCommitAgain(c) ==
    /\ SnapAt(c, "commit")
    /\ SnapGoes(c, "resolving")
    /\ overlapped' = (overlapped \/ \E d \in SnapCalls \ {c} : SnapAt(d, "resolving") \/ SnapAt(d, "resolved"))
    /\ UNCHANGED <<branchTip, snapCommit, metaCache, listCache, blobCache>>

\* A commit that is known is not resolved again; two calls that find none both ask.
EnsureCommit(c) ==
    /\ SnapAt(c, "commit")
    /\ SnapGoes(c, IF snapCommit # 0 THEN "contents" ELSE "resolving")
    /\ overlapped' = (overlapped \/ (snapCommit = 0 /\ \E d \in SnapCalls \ {c} : SnapAt(d, "resolving") \/ SnapAt(d, "resolved")))
    /\ UNCHANGED <<branchTip, snapCommit, metaCache, listCache, blobCache>>

\* GitHub names the commit of the ref ...
ResolveRef(c) ==
    /\ SnapAt(c, "resolving") /\ request' = [request EXCEPT ![c].at = "resolved", ![c].found = branchTip]
    /\ UNCHANGED <<branchTip, snapCommit, metaCache, listCache, blobCache, overlapped>>

\* ... and the answer is kept, over one that came before.
KeepCommit(c) ==
    /\ SnapAt(c, "resolved") /\ snapCommit' = request[c].found /\ SnapGoes(c, "contents")
    /\ UNCHANGED <<branchTip, metaCache, listCache, blobCache, overlapped>>

\* The contents are asked for at the commit that is kept now.
FetchContents(c) ==
    /\ SnapAt(c, "contents") /\ request' = [request EXCEPT ![c].at = "fetching", ![c].found = snapCommit]
    /\ UNCHANGED <<branchTip, snapCommit, metaCache, listCache, blobCache, overlapped>>

\* A directory caches its children with it, a file itself; what is not there is an error.
CacheContents(c) ==
    LET k == request[c].found  p == CallPath[c]  meta == ContentsAt(k, p)  entries == RelevantOf(EntriesAt(k, p))
        isDirectory == meta.kind = "directory"
    IN  /\ SnapAt(c, "fetching")
        /\ metaCache' = CASE isDirectory /\ CallOp[c] = "list" -> entries @@ metaCache
                          [] isDirectory                       -> entries @@ p :> meta @@ metaCache
                          [] meta.kind = "file" /\ CallOp[c] # "list" -> p :> meta @@ metaCache
                          [] OTHER                             -> metaCache
        /\ listCache' = IF isDirectory THEN p :> entries @@ listCache ELSE listCache
        /\ CASE meta = Missing      -> Throws(c)
             [] CallOp[c] = "list"  -> Answers(c, IF isDirectory THEN entries ELSE << >>)
             [] meta # Missing /\ CallOp[c] # "list" -> Told(c, meta)
        /\ UNCHANGED <<branchTip, snapCommit, blobCache, overlapped>>

\* readFile looks the sha up again, and asks for a blob that is not cached.
ReadBlob(c) ==
    LET sha == metaCache[CallPath[c]].sha
    IN  /\ SnapAt(c, "blob")
        /\ blobCache' = blobCache \cup {sha} /\ Answers(c, sha)
        /\ UNCHANGED <<branchTip, snapCommit, metaCache, listCache, overlapped>>

\* A request fails or is refused.
RequestFails(c) ==
    /\ SnapAt(c, "resolving") \/ SnapAt(c, "fetching") \/ (SnapAt(c, "blob") /\ metaCache[CallPath[c]].sha \notin blobCache)
    /\ Throws(c)
    /\ UNCHANGED <<branchTip, snapCommit, metaCache, listCache, blobCache, overlapped>>

\* Somebody pushes to the branch.
BranchMoves ==
    /\ branchTip < Len(SnapFiles) /\ branchTip' = branchTip + 1
    /\ UNCHANGED <<snapCommit, metaCache, listCache, blobCache, request, overlapped>>

SnapNext ==
    \/ BranchMoves
    \/ \E c \in SnapCalls : AskSource(c) \/ EnsureCommit(c) \/ ResolveRef(c) \/ KeepCommit(c) \/ FetchContents(c)
                            \/ CacheContents(c) \/ ReadBlob(c) \/ RequestFails(c)

-----------------------------------------------------------------------------
(* Properties.                                                                 *)

\* What a call has to answer at a commit.
TrueAnswer(c, k) ==
    LET p == CallPath[c]  meta == ContentsAt(k, p)
    IN  CASE CallOp[c] = "stat" -> meta
          [] CallOp[c] = "list" -> RelevantOf(EntriesAt(k, p))
          [] OTHER              -> meta.sha

\* Whatever is asked for in whatever order while the branch moves, every answer
\* is the one of a single commit, the one revision() reports; unless calls
\* resolved the ref at the same time (ensureCommit, stat, listDir and readFile of
\* github-snapshot-source.ts).
SnapshotIsOne ==
    \A c \in SnapCalls : SnapAt(c, "done") /\ isRelevant(CallPath[c]) /\ ~overlapped =>
        request[c].answer = TrueAnswer(c, snapCommit)

\* The commit is resolved once, also by concurrent calls (github-snapshot-source.ts:51).
ResolvedOnce == [][snapCommit # 0 => snapCommit' = snapCommit]_snapCommit

=============================================================================
