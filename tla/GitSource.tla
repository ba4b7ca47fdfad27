------------------------------ MODULE GitSource ------------------------------
(***************************************************************************)
(* NativeGitSource (native-git-source.ts): sources opened over a bare       *)
(* partial clone, which several may share, of remotes whose refs move; and  *)
(* GitCatFileBatch (git-batch.ts), the one long-lived `git cat-file --batch`*)
(* that serves the reads of a source in turn.  An object is named by its    *)
(* commit and path (git names it by its content), and "missing" is what the *)
(* batch says of one it does not have or cannot fetch.                      *)
(***************************************************************************)
EXTENDS Naturals, Sequences

CONSTANTS
    Sources, DirOf,  \* NativeGitSource instances, and the gitDir of each
    RemoteOf,        \* the remote of each; its ref is one per remote
    SourceCommits,   \* 1..n, the order in which the remotes' refs take them
    FirstTip,        \* per remote: the commit its ref names at first
    Reads, PathOf,   \* readFile calls, and the path each asks for
    SourceOf,        \* the source each asks
    Files, Links, Big,  \* blobs of the tree: files, symlinks, files over maxBlobBytes
    Sparse,          \* the paths inside the sparse view
    MaxGitFaults     \* bound on failing commands

NoCommit == 0
Dirs == {DirOf[s] : s \in Sources}
Remotes == {RemoteOf[s] : s \in Sources}

ASSUME SourceAssumption == SourceOf \in [Reads -> Sources] /\ FirstTip \in [Remotes -> SourceCommits]

VARIABLES
    tip,       \* the commit the ref of each remote names
    origin,    \* per gitDir: the url of origin, or "none"
    fetchHead, \* per gitDir: FETCH_HEAD
    opening,   \* per source: the step of #ensureRepo it is at
    commit,    \* per source: #commit
    batch,     \* per source: "none", "open", "closed" or "dead"
    chain,     \* per source: the reads in #chain, the first of them in #readOne
    pipe,      \* per source: what the batch wrote and nobody read
    reading,   \* per read: where it is
    result,    \* per read: the object it returned, or "none"
    gitFaults,
    since,     \* history, per source: the commits its ref named since it began to open
    shared     \* history: sources whose gitDir another source used while they opened

sourceVars == <<tip, origin, fetchHead, opening, commit, batch, chain, pipe, reading, result, gitFaults, since, shared>>
repoVars == <<tip, origin, fetchHead, opening, commit, since, shared>>
readVars == <<batch, chain, pipe, reading, result>>

SourceInit ==
    /\ tip = FirstTip
    /\ origin = [d \in Dirs |-> "none"]
    /\ fetchHead = [d \in Dirs |-> NoCommit]
    /\ opening = [s \in Sources |-> "new"]
    /\ commit = [s \in Sources |-> NoCommit]
    /\ batch = [s \in Sources |-> "none"]
    /\ chain = [s \in Sources |-> <<>>]
    /\ pipe = [s \in Sources |-> <<>>]
    /\ reading = [r \in Reads |-> "new"]
    /\ result = [r \in Reads |-> "none"]
    /\ gitFaults = 0
    /\ since = [s \in Sources |-> {}]
    /\ shared = {}

GitFault == gitFaults < MaxGitFaults /\ gitFaults' = gitFaults + 1

\* Somebody pushes to a remote: its ref moves to a commit no ref has had.
PushUpstream(r) ==
    /\ \E c \in SourceCommits :
          /\ c > tip[r]
          /\ \A q \in Remotes : c \notin {tip[q], FirstTip[q]}
          /\ tip' = [tip EXCEPT ![r] = c]
          /\ since' = [s \in Sources |-> IF RemoteOf[s] = r /\ opening[s] # "new" THEN since[s] \cup {c} ELSE since[s]]
    /\ UNCHANGED <<origin, fetchHead, opening, commit, shared, readVars, gitFaults>>

-----------------------------------------------------------------------------
(* open and #ensureRepo *)

Opening(s) == opening[s] \in {"remote", "fetch", "revparse"}
Step(s, where) == opening' = [opening EXCEPT ![s] = where]

\* open makes the directory and `git init`s it when it is not there.
Open(s) ==
    /\ opening[s] = "new"
    /\ Step(s, "remote")
    /\ since' = [since EXCEPT ![s] = {tip[RemoteOf[s]]}]
    /\ LET others == {t \in Sources : t # s /\ DirOf[t] = DirOf[s] /\ Opening(t)}
       IN  shared' = IF others = {} THEN shared ELSE shared \cup others \cup {s}
    /\ UNCHANGED <<tip, origin, fetchHead, commit, readVars, gitFaults>>

\* `remote set-url`, or `remote add` when the directory has no origin.
SetRemote(s) ==
    /\ opening[s] = "remote"
    /\ origin' = [origin EXCEPT ![DirOf[s]] = RemoteOf[s]]
    /\ Step(s, "fetch")
    /\ UNCHANGED <<tip, fetchHead, commit, since, shared, readVars, gitFaults>>

\* fetch takes what the ref of origin names now and leaves it in FETCH_HEAD.
Fetch(s) ==
    /\ opening[s] = "fetch"
    /\ fetchHead' = [fetchHead EXCEPT ![DirOf[s]] = tip[origin[DirOf[s]]]]
    /\ Step(s, "revparse")
    /\ UNCHANGED <<tip, origin, commit, since, shared, readVars, gitFaults>>

\* A failing command fails open; the caller may open again.
OpenFails(s) ==
    /\ GitFault /\ Opening(s)
    /\ Step(s, "new")
    /\ UNCHANGED <<tip, origin, fetchHead, commit, since, shared, readVars>>

RevParse(s) ==
    /\ opening[s] = "revparse"
    /\ commit' = [commit EXCEPT ![s] = fetchHead[DirOf[s]]]
    /\ Step(s, "open")
    /\ UNCHANGED <<tip, origin, fetchHead, since, shared, readVars, gitFaults>>

-----------------------------------------------------------------------------
(* readFile, through stat and the batch *)

Relevant(p) == p \in Sparse
StatEntry(p) == IF ~Relevant(p) THEN "none" ELSE IF p \in Files THEN "file" ELSE IF p \in Links THEN "symlink" ELSE "none"
Object(s, p) == <<commit[s], p>>

Rejects(r) == reading' = [reading EXCEPT ![r] = "rejected"]

\* stat finds the object (one `ls-tree`, and `cat-file -s` for a file); the
\* read then joins the chain of the source's batch, which it starts if need be.
ReadEntry(r) ==
    LET s == SourceOf[r] IN
    /\ opening[s] = "open" /\ reading[r] = "new"
    /\ \/ /\ \/ StatEntry(PathOf[r]) = "none" \/ PathOf[r] \in Big
             \/ batch[s] \in {"closed", "dead"}
          /\ Rejects(r)
          /\ UNCHANGED <<batch, chain>>
       \/ /\ StatEntry(PathOf[r]) # "none" /\ PathOf[r] \notin Big
          /\ batch[s] \in {"none", "open"}
          /\ batch' = [batch EXCEPT ![s] = "open"]
          /\ chain' = [chain EXCEPT ![s] = Append(@, r)]
          /\ reading' = [reading EXCEPT ![r] = "chained"]
    /\ UNCHANGED <<repoVars, pipe, result, gitFaults>>

\* #chain: a read runs when every earlier one has settled, well or badly.
Turn(r) == chain[SourceOf[r]] # <<>> /\ Head(chain[SourceOf[r]]) = r

HeaderOf(r) == [is |-> "header", of |-> Object(SourceOf[r], PathOf[r])]
BytesOf(r) == [is |-> "bytes", of |-> Object(SourceOf[r], PathOf[r])]
MissingLine == [is |-> "missing"]

\* #readOne writes the name; the batch answers with a header and the bytes, or
\* with a header that says the object is missing.
WriteName(r) ==
    LET s == SourceOf[r] IN
    /\ reading[r] = "chained" /\ Turn(r)
    /\ reading' = [reading EXCEPT ![r] = "header"]
    /\ \/ /\ gitFaults' = gitFaults
          /\ pipe' = [pipe EXCEPT ![s] = @ \o <<HeaderOf(r), BytesOf(r)>>]
       \/ /\ GitFault
          /\ pipe' = [pipe EXCEPT ![s] = Append(@, MissingLine)]
    /\ UNCHANGED <<repoVars, batch, chain, result>>

\* The read in #readOne is over, and the next in the chain may run.
Settle(r, how) ==
    /\ reading' = [reading EXCEPT ![r] = how]
    /\ chain' = [chain EXCEPT ![SourceOf[r]] = Tail(@)]

\* line(): the next of the pipe is taken for the header.
ReadHeader(r) ==
    LET s == SourceOf[r] IN
    /\ reading[r] = "header" /\ pipe[s] # <<>>
    /\ pipe' = [pipe EXCEPT ![s] = Tail(@)]
    /\ IF Head(pipe[s]).is = "header"
       THEN reading' = [reading EXCEPT ![r] = "bytes"] /\ chain' = chain
       ELSE Settle(r, "rejected")
    /\ UNCHANGED <<repoVars, batch, result, gitFaults>>

ReadBytes(r) ==
    LET s == SourceOf[r] IN
    /\ reading[r] = "bytes" /\ pipe[s] # <<>>
    /\ pipe' = [pipe EXCEPT ![s] = Tail(@)]
    /\ IF Head(pipe[s]).is = "bytes"
       THEN /\ Settle(r, "done")
            /\ result' = [result EXCEPT ![r] = Head(pipe[s]).of]
       ELSE /\ Settle(r, "rejected")
            /\ result' = result
    /\ UNCHANGED <<repoVars, batch, gitFaults>>

\* close ends the child's input.  A read already written is still answered, one
\* that was not fails to write.
CloseSource(s) ==
    /\ opening[s] = "open" /\ batch[s] \in {"open", "dead"}
    /\ batch' = [batch EXCEPT ![s] = "closed"]
    /\ LET lost == {r \in Reads : SourceOf[r] = s /\ reading[r] = "chained"} IN
       /\ reading' = [r \in Reads |-> IF r \in lost THEN "rejected" ELSE reading[r]]
       /\ chain' = [chain EXCEPT ![s] = IF @ # <<>> /\ Head(@) \notin lost THEN <<Head(@)>> ELSE <<>>]
    /\ UNCHANGED <<repoVars, pipe, result, gitFaults>>

\* Mutated: what the child had written is left for the next to find.
AbandonedUnread(s) ==
    LET lost == {r \in Reads : r \in {chain[s][i] : i \in DOMAIN chain[s]}} IN
    /\ \E how \in {"rejected", "hung"} : reading' = [r \in Reads |-> IF r \in lost THEN how ELSE reading[r]]
    /\ chain' = [chain EXCEPT ![s] = <<>>]
    /\ pipe' = pipe

\* The reads of a child that is gone.  A read that finds the pipe ended is
\* rejected, or waits for ever: #more looks at readableEnded, which is set only
\* after the last "readable".
Abandoned(s) ==
    LET lost == {r \in Reads : r \in {chain[s][i] : i \in DOMAIN chain[s]}} IN
    /\ \E how \in {"rejected", "hung"} : reading' = [r \in Reads |-> IF r \in lost THEN how ELSE reading[r]]
    /\ chain' = [chain EXCEPT ![s] = <<>>]
    /\ pipe' = [pipe EXCEPT ![s] = <<>>]

\* close has seen the child close, or killed it after a second.
SourceClosed(s) ==
    /\ batch[s] = "closed"
    /\ batch' = [batch EXCEPT ![s] = "none"]
    /\ Abandoned(s)
    /\ UNCHANGED <<repoVars, result, gitFaults>>

\* The child dies.  Its batch stays #batch until the source is closed.
BatchDies(s) ==
    /\ GitFault /\ batch[s] = "open"
    /\ batch' = [batch EXCEPT ![s] = "dead"]
    /\ Abandoned(s)
    /\ UNCHANGED <<repoVars, result>>

-----------------------------------------------------------------------------
SourceNext ==
    \/ \E r \in Remotes : PushUpstream(r)
    \/ \E s \in Sources : Open(s) \/ SetRemote(s) \/ Fetch(s) \/ RevParse(s) \/ OpenFails(s) \/ CloseSource(s) \/ SourceClosed(s) \/ BatchDies(s)
    \/ \E r \in Reads : ReadEntry(r) \/ WriteName(r) \/ ReadHeader(r) \/ ReadBytes(r)

SourceSpec == SourceInit /\ [][SourceNext]_sourceVars

-----------------------------------------------------------------------------
(* Properties *)

\* A read returns the file it asked for, as it is in the commit of its source,
\* whatever other reads share the batch (git-batch.ts:59); and that commit is one
\* the ref named since the source began to open, unless another source was
\* opening in the same gitDir (they share origin and FETCH_HEAD,
\* native-git-source.ts:168-185).
ReadsItsRef ==
    /\ \A r \in Reads : reading[r] = "done" => result[r] = Object(SourceOf[r], PathOf[r])
    /\ \A s \in Sources : opening[s] = "open" /\ s \notin shared => commit[s] \in since[s]

SourceTypeOK ==
    /\ tip \in [Remotes -> SourceCommits]
    /\ origin \in [Dirs -> Remotes \cup {"none"}]
    /\ fetchHead \in [Dirs -> SourceCommits \cup {NoCommit}]
    /\ opening \in [Sources -> {"new", "remote", "fetch", "revparse", "open"}]
    /\ commit \in [Sources -> SourceCommits \cup {NoCommit}]
    /\ since \in [Sources -> SUBSET SourceCommits] /\ shared \subseteq Sources
    /\ chain \in [Sources -> Seq(Reads)] /\ pipe = [s \in Sources |-> pipe[s]]
    /\ reading \in [Reads -> {"new", "chained", "header", "bytes", "done", "rejected", "hung"}]
    /\ result = [r \in Reads |-> result[r]]

\* A source that opens, alone in its gitDir, goes from its own remote to its own ref.
OpensItsRef ==
    \A s \in Sources :
       /\ \A t \in Sources : s # t /\ DirOf[s] = DirOf[t] /\ Opening(s) /\ Opening(t) => s \in shared
       /\ opening[s] = "fetch" => origin[DirOf[s]] \in Remotes
       /\ opening[s] # "new" => tip[RemoteOf[s]] \in since[s]
       /\ s \notin shared =>
             /\ opening[s] = "fetch" => origin[DirOf[s]] = RemoteOf[s]
             /\ opening[s] = "revparse" => fetchHead[DirOf[s]] \in since[s]
             /\ opening[s] = "open" => commit[s] \in since[s]

\* One read of a source is written at a time, the first of the chain.
ReadsAreOpened == \A r \in Reads : reading[r] # "new" => opening[SourceOf[r]] = "open"
WrittenIsFirst == \A r \in Reads : reading[r] \in {"header", "bytes"} => Turn(r)
ChainInOrder(s) ==
    \A i \in DOMAIN chain[s] :
       /\ SourceOf[chain[s][i]] = s
       /\ reading[chain[s][i]] \in IF i = 1 THEN {"chained", "header", "bytes"} ELSE {"chained"}
       /\ \A j \in DOMAIN chain[s] : chain[s][i] = chain[s][j] => i = j
OneAtATime == ReadsAreOpened /\ WrittenIsFirst /\ \A s \in Sources : ChainInOrder(s)

\* The pipe holds what is left of the answer to it, and nothing else.
AnswerIn(s, r) ==
    /\ reading[r] = "chained" => pipe[s] = <<>>
    /\ reading[r] = "header" => pipe[s] \in {<<HeaderOf(r), BytesOf(r)>>, <<MissingLine>>}
    /\ reading[r] = "bytes" => pipe[s] = <<BytesOf(r)>>
PipeInTurn(s) == IF chain[s] = <<>> THEN pipe[s] = <<>> ELSE AnswerIn(s, Head(chain[s]))
PipeIsItsAnswer == \A s \in Sources : PipeInTurn(s)

ReadsAreRight == \A r \in Reads : reading[r] = "done" => result[r] = Object(SourceOf[r], PathOf[r])

SourceIInv == SourceTypeOK /\ OpensItsRef /\ OneAtATime /\ PipeIsItsAnswer /\ ReadsAreRight

\* The same without the exception: not true of sources that share a gitDir.
SourceReadsItsRef == \A s \in Sources : opening[s] = "open" => commit[s] \in since[s]
=============================================================================
