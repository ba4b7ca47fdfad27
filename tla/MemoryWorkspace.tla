--------------------------- MODULE MemoryWorkspace ---------------------------
(***************************************************************************)
(* MemoryWorkspace (src/workspace/memory-workspace.ts): a RAM overlay over *)
(* a read-only source tree, as the synthetic rung uses it                  *)
(* (src/execution/synthetic.ts), with transactions (transaction.ts) and    *)
(* the diff that a checkpoint keeps.                                       *)
(*                                                                         *)
(* disk is the reference: an ordinary filesystem that starts as a checkout *)
(* of the source and to which every accepted effect is applied.  A path is *)
(* a sequence of names, <<>> the root.  The source holds files only.       *)
(***************************************************************************)
EXTENDS Integers, Sequences, FiniteSets, SequencesExt

CONSTANTS
    WsPaths,      \* the paths effects name, closed under non-empty prefixes
    Contents,     \* the bytes effects write
    EmptyFile,    \* the member of Contents of length zero
    Source,       \* a function from the paths of the source's files to their bytes
    LinkTargets,  \* targets of workspace.symlink: names and ".."
    MaxEdits      \* effects, rollbacks and reloads in a behaviour

VARIABLES
    ws,     \* the workspace: overlay, links, deleted, changed, dirs
    disk,   \* the reference filesystem: a path to "dir" or its bytes
    txs,    \* a transaction in progress: << >>, or the snapshot and the disk at its start
    edits,  \* how many steps were taken
    quirk   \* history: "none", or the first step after which only files are compared

wsVars == <<ws, disk, txs, edits, quirk>>

Parent(p) == Front(p)
Ancestors(p) == {SubSeq(p, 1, n) : n \in 1..(Len(p) - 1)}
Beneath(p, q) == IsStrictPrefix(p, q)
Set(f, p, v) == [q \in DOMAIN f \cup {p} |-> IF q = p THEN v ELSE f[q]]
Without(f, S) == [q \in DOMAIN f \ S |-> f[q]]

Absent == "absent"
FreshWorkspace == [overlay |-> << >>, links |-> << >>, deleted |-> {}, changed |-> {}, dirs |-> {}]

-----------------------------------------------------------------------------
(* The source. *)

SourceKind(p) ==
    CASE p \in DOMAIN Source -> "file"
      [] \E q \in DOMAIN Source : Beneath(p, q) -> "directory"
      [] OTHER -> Absent

-----------------------------------------------------------------------------
(* Symbolic links (src/workspace/symlink-target.ts). *)

Refused == [ok |-> FALSE]
MaxDepth == 16

\* One link, lexically, from its own parent.
ResolveLinkTarget(p, target) ==
    FoldLeft(LAMBDA at, name :
                IF ~at.ok THEN at
                ELSE IF name # ".." THEN [at EXCEPT !.path = Append(@, name)]
                ELSE IF at.path = <<>> THEN Refused ELSE [at EXCEPT !.path = Parent(@)],
             [ok |-> TRUE, path |-> Parent(p)], target)

\* The loop over the pending components; every component that is a link is followed.
RECURSIVE Follow(_, _, _, _)
Follow(links, dir, pending, visited) ==
    IF pending = <<>> THEN [ok |-> TRUE, path |-> dir]
    ELSE LET name == Head(pending)
             candidate == Append(dir, name) IN
         IF name = ".." THEN IF dir = <<>> THEN Refused ELSE Follow(links, Parent(dir), Tail(pending), visited)
         ELSE IF candidate \notin DOMAIN links THEN Follow(links, candidate, Tail(pending), visited)
         ELSE IF candidate \in visited \/ Cardinality(visited) = MaxDepth THEN Refused
         ELSE LET step == ResolveLinkTarget(candidate, links[candidate]) IN
              IF ~step.ok THEN Refused
              ELSE Follow(links, <<>>, step.path \o Tail(pending), visited \cup {candidate})

ResolveSymlinkTarget(links, p, target) == Follow(links, Parent(p), target, {})

-----------------------------------------------------------------------------
(* Reading. *)

\* Mutated: only the path itself counts, not its deleted ancestors.
IsDeletedExactly(w, p) == p \in w.deleted

IsDeleted(w, p) == \E d \in w.deleted : IsPrefix(d, p)

ReadPlain(w, p) ==
    IF p \in DOMAIN w.overlay THEN w.overlay[p]
    ELSE IF IsDeleted(w, p) \/ p \notin DOMAIN Source THEN Absent ELSE Source[p]

Read(w, p) ==
    IF p \in DOMAIN w.overlay \/ IsDeleted(w, p) \/ p \notin DOMAIN w.links THEN ReadPlain(w, p)
    ELSE LET r == ResolveSymlinkTarget(w.links, p, w.links[p]) IN
         IF r.ok THEN ReadPlain(w, r.path) ELSE Absent

Stat(w, p) ==
    CASE p = <<>> -> "directory"
      [] p \in DOMAIN w.overlay -> "file"
      [] p \in DOMAIN w.links -> "symlink"
      [] (\E q \in DOMAIN w.overlay : Beneath(p, q)) \/ p \in w.dirs -> "directory"
      [] IsDeleted(w, p) -> Absent
      [] OTHER -> SourceKind(p)

ListDir(w, dir) ==
    LET seen == {q \in DOMAIN w.overlay \cup w.dirs \cup DOMAIN w.links \cup DOMAIN Source : Beneath(dir, q)} IN
    {q[Len(dir) + 1] : q \in seen} \ {Last(d) : d \in {d \in w.deleted : Parent(d) = dir}}

-----------------------------------------------------------------------------
(* Writing. *)

Write(w, p, bytes) ==
    [w EXCEPT !.overlay = Set(@, p, bytes), !.deleted = @ \ {p}, !.changed = @ \cup {p},
              !.dirs = @ \cup Ancestors(p)]

PutLink(w, p, target) ==
    [w EXCEPT !.links = Set(@, p, target), !.deleted = @ \ {p}, !.changed = @ \cup {p}]

Delete(w, p) ==
    LET gone == {p} \cup {q \in DOMAIN w.overlay : Beneath(p, q)} IN
    [w EXCEPT !.overlay = Without(@, gone), !.deleted = @ \cup gone, !.changed = @ \cup gone,
              !.dirs = {d \in @ : ~IsPrefix(p, d)},
              !.links = Without(@, {q \in DOMAIN @ : IsPrefix(p, q)})]

-----------------------------------------------------------------------------
(* Snapshots, forks and the diff. *)

Snapshot(w) == [overlay |-> w.overlay, links |-> w.links, deleted |-> w.deleted, changed |-> w.changed]

\* restore leaves #dirs alone; fork starts without them.
Restore(w, s) == [overlay |-> s.overlay, links |-> s.links, deleted |-> s.deleted, changed |-> s.changed, dirs |-> w.dirs]
Fork(w) == Restore(FreshWorkspace, Snapshot(w))

BaseOf(p) == IF p \in DOMAIN Source THEN Source[p] ELSE Absent

Diff(w) == {[path |-> p, content |-> Read(w, p)] : p \in {q \in w.changed : Read(w, q) # BaseOf(q)}}

\* encodeWorkspaceDiff and decodeWorkspaceDiff: base64 of no bytes is the empty
\* string, which decodes to no content.
Decoded(change) ==
    [path |-> change.path, delete |-> change.content = Absent,
     content |-> IF change.content = EmptyFile THEN Absent ELSE change.content]

\* restoreSandboxWorkspace, change by change in the order of their paths.
Reapply(w, change) ==
    IF change.delete THEN Delete(w, change.path)
    ELSE IF change.content = Absent THEN w ELSE Write(w, change.path, change.content)

RestoredFrom(changes) ==
    FoldLeft(Reapply, FreshWorkspace,
             SetToSortSeq({Decoded(c) : c \in changes}, LAMBDA c, d : Len(c.path) < Len(d.path)))

-----------------------------------------------------------------------------
(* What the effects answer: synthetic.ts, and sandbox-workspace.ts over disk. *)

UnderFile(w, p) == \E a \in Ancestors(p) : Stat(w, a) = "file"

SynthRead(w, p) ==
    IF UnderFile(w, p) THEN "NOT_DIRECTORY"
    ELSE CASE Stat(w, p) = Absent -> "NOT_FOUND"
           [] Stat(w, p) = "directory" -> "IS_DIRECTORY"
           [] OTHER -> Read(w, p)
SynthWrite(w, p) ==
    IF UnderFile(w, p) THEN "NOT_DIRECTORY" ELSE IF Stat(w, p) = "directory" THEN "IS_DIRECTORY" ELSE "ok"
SynthDelete(w, p) ==
    IF UnderFile(w, p) THEN "NOT_DIRECTORY" ELSE IF Stat(w, p) = Absent THEN "NOT_FOUND" ELSE "ok"
SynthList(w, p) ==
    IF UnderFile(w, p) THEN {"NOT_DIRECTORY"}
    ELSE CASE Stat(w, p) = Absent -> {"NOT_FOUND"}
           [] Stat(w, p) # "directory" -> {"NOT_DIRECTORY"}
           [] OTHER -> ListDir(w, p)

DiskKind(p) == IF p = <<>> THEN "dir" ELSE IF p \in DOMAIN disk THEN (IF disk[p] = "dir" THEN "dir" ELSE "file") ELSE Absent
DiskUnderFile(p) == \E a \in Ancestors(p) : DiskKind(a) = "file"
DiskRead(p) ==
    IF DiskUnderFile(p) THEN "NOT_DIRECTORY"
    ELSE CASE DiskKind(p) = Absent -> "NOT_FOUND" [] DiskKind(p) = "dir" -> "IS_DIRECTORY" [] OTHER -> disk[p]
DiskWrite(p) == IF DiskUnderFile(p) THEN "NOT_DIRECTORY" ELSE IF DiskKind(p) = "dir" THEN "IS_DIRECTORY" ELSE "ok"
DiskDelete(p) == IF DiskUnderFile(p) THEN "NOT_DIRECTORY" ELSE IF DiskKind(p) = Absent THEN "NOT_FOUND" ELSE "ok"
DiskList(p) ==
    IF DiskUnderFile(p) THEN {"NOT_DIRECTORY"}
    ELSE CASE DiskKind(p) = Absent -> {"NOT_FOUND"} [] DiskKind(p) = "file" -> {"NOT_DIRECTORY"}
           [] OTHER -> {q[Len(p) + 1] : q \in {q \in DOMAIN disk : Beneath(p, q)}}

-----------------------------------------------------------------------------
(* Effects: SyntheticExecutor.execute.  workspace.replace is a write of a file *)
(* that exists; reading, listing and exporting change nothing.                 *)

Checkout == [p \in DOMAIN Source \cup UNION {Ancestors(q) : q \in DOMAIN Source} |->
                IF p \in DOMAIN Source THEN Source[p] ELSE "dir"]

WsInit == ws = FreshWorkspace /\ disk = Checkout /\ txs = << >> /\ edits = 0 /\ quirk = "none"

Edit == edits < MaxEdits /\ edits' = edits + 1

WriteEffect(p, bytes) ==
    /\ Edit /\ SynthWrite(ws, p) = "ok"
    /\ ws' = Write(ws, p, bytes)
    /\ disk' = [q \in DOMAIN disk \cup Ancestors(p) \cup {p} |->
                  IF q = p THEN bytes ELSE IF q \in DOMAIN disk THEN disk[q] ELSE "dir"]
    /\ UNCHANGED <<txs, quirk>>

DeleteEffect(p) ==
    /\ Edit /\ SynthDelete(ws, p) = "ok"
    /\ ws' = Delete(ws, p) /\ disk' = Without(disk, {q \in DOMAIN disk : IsPrefix(p, q)})
    /\ UNCHANGED <<txs, quirk>>

SymlinkEffect(p, target) ==
    /\ Edit /\ ~UnderFile(ws, p) /\ ResolveSymlinkTarget(ws.links, p, target).ok
    /\ ws' = PutLink(ws, p, target) /\ quirk' = "link"
    /\ UNCHANGED <<disk, txs>>

(* transaction.ts: begin, commit and rollback; withWorkspaceTransaction is the  *)
(* first and one of the others around a callback.                               *)
Begin == txs = << >> /\ Edit /\ txs' = <<[snapshot |-> Snapshot(ws), disk |-> disk]>> /\ UNCHANGED <<ws, disk, quirk>>
Commit == txs # << >> /\ Edit /\ txs' = << >> /\ UNCHANGED <<ws, disk, quirk>>
Rollback ==
    /\ txs # << >> /\ Edit
    /\ ws' = Restore(ws, txs[1].snapshot) /\ disk' = txs[1].disk /\ txs' = << >>
    /\ quirk' = IF quirk = "none" THEN "dirs" ELSE quirk

\* The child goes on where the parent was.
ForkChild ==
    /\ txs = << >> /\ Edit
    /\ ws' = Fork(ws) /\ quirk' = (IF quirk = "none" THEN "dirs" ELSE quirk)
    /\ UNCHANGED <<disk, txs>>

WsNext ==
    \/ \E p \in WsPaths : \/ \E bytes \in Contents : WriteEffect(p, bytes)
                          \/ DeleteEffect(p)
                          \/ \E target \in LinkTargets : SymlinkEffect(p, target)
    \/ Begin \/ Commit \/ Rollback \/ ForkChild

-----------------------------------------------------------------------------
FileIn(w, p) == IF ~UnderFile(w, p) /\ Stat(w, p) = "file" THEN Read(w, p) ELSE Absent
FileOnDisk(p) == IF DiskKind(p) = "file" THEN disk[p] ELSE Absent

(* Whatever the sequence of writes, deletes, rollbacks and forks, the overlay  *)
(* holds the files a real filesystem would hold, with their bytes              *)
(* (memory-workspace.ts:84-212), and the synthetic rung and a real filesystem  *)
(* give the same answer, errors included, to every read, write and delete      *)
(* (synthetic.ts:29-103, workspace-errors.ts:1).                               *)
RungsAgree ==
    /\ edits > 0 /\ quirk # "link" => \A p \in WsPaths : FileIn(ws, p) = FileOnDisk(p)
    /\ edits > 0 /\ quirk = "none" => \A p \in WsPaths :
          SynthRead(ws, p) = DiskRead(p) /\ SynthWrite(ws, p) = DiskWrite(p) /\ SynthDelete(ws, p) = DiskDelete(p)

(* Listings too agree (rung-parity.test.ts:48).                                *)
ListsAgree == quirk = "none" => \A p \in WsPaths \cup {<<>>} : SynthList(ws, p) = DiskList(p)

(* Every file that has bytes is still there, with the same bytes, in a         *)
(* workspace restored from the exported diff (memory-workspace.ts:262-277,     *)
(* sandbox-workspace.ts:278).                                                  *)
RestoreKeepsBytes ==
    edits > 0 /\ quirk # "link" => LET restored == RestoredFrom(Diff(ws)) IN
        \A p \in WsPaths : FileOnDisk(p) \notin {Absent, EmptyFile} => FileIn(restored, p) = FileOnDisk(p)

(* How a filesystem resolves a path, one component after the other.            *)
RECURSIVE Walk(_, _, _)
Walk(dir, pending, fuel) ==
    IF pending = <<>> THEN [ok |-> TRUE, path |-> dir]
    ELSE IF Head(pending) = ".." THEN IF dir = <<>> THEN Refused ELSE Walk(Parent(dir), Tail(pending), fuel)
    ELSE IF Append(dir, Head(pending)) \notin DOMAIN ws.links THEN Walk(Append(dir, Head(pending)), Tail(pending), fuel)
    ELSE IF fuel = 0 THEN Refused ELSE Walk(dir, ws.links[Append(dir, Head(pending))] \o Tail(pending), fuel - 1)

(* A link resolves as a filesystem resolves it, in whatever order links were   *)
(* made; one that would leave the workspace or run in a circle resolves to     *)
(* nothing (symlink-target.ts:71).  On a filesystem no link lies beneath       *)
(* another.                                                                    *)
LinksResolveInPlace ==
    (\A p, q \in DOMAIN ws.links : ~Beneath(p, q)) =>
        \A p \in DOMAIN ws.links : ResolveSymlinkTarget(ws.links, p, ws.links[p]) = Walk(Parent(p), ws.links[p], MaxDepth)

(* The overlay stands for a filesystem, links included, also after its diff    *)
(* has been exported and read back (memory-workspace.ts:84-277).               *)
WorkspaceIsFaithful == RungsAgree /\ RestoreKeepsBytes /\ LinksResolveInPlace

(* A restored workspace has exactly the files of the one that was exported     *)
(* (sandbox-workspace.ts:212).                                                 *)
RestoreIsFaithful ==
    quirk # "link" => \A p \in WsPaths : FileIn(RestoredFrom(Diff(ws)), p) = FileIn(ws, p)

=============================================================================
