------------------------------ MODULE MemoryEnv ------------------------------
(***************************************************************************)
(* The in-memory project a Pi agent works in (docs/history/museum/         *)
(* integrations/pi-synthetic-git-prototype, memory.ts, memory-git.ts and   *)
(* memory-source.ts): an immutable source tree under /workspace, an        *)
(* overlay of what was written, the set of what was deleted, a synthetic   *)
(* shell and a synthetic git over them, forks, and the artifact that says  *)
(* what the work changed.                                                  *)
(*                                                                         *)
(* A path is the sequence of its names.  A text is a sequence of words, NL *)
(* the end of a line.  A script comes already split at its operators and   *)
(* into words.  One file operation is one step, so the shells of two tool  *)
(* calls interleave between the files of a recursive rm or mv.             *)
(***************************************************************************)
EXTENDS Integers, Sequences, FiniteSets, SequencesExt, TLC

CONSTANTS
    Tree,        \* the files of the source: relative path -> text
    Alphabet,    \* the words there are, in localeCompare's order
    Shells,      \* tool calls that run bash at the same time
    Scripts,     \* what they may run
    Cwds,        \* where
    TempNames,   \* names createTempFile makes, in order
    MaxExecs     \* bound: scripts run

VARIABLES envs, shell, execs
envVars == <<envs, shell, execs>>

NL == "nl"
Root == << >>
WorkspaceRoot == <<"workspace">>
Tmp == <<"tmp">>
Directory == [kind |-> "directory", text |-> << >>]

Rank(word) == CHOOSE i \in 1..Len(Alphabet) : Alphabet[i] = word

\* Words one after the other, a prefix first: paths in this order are a depth-first walk.
Before(a, b) ==
    \E k \in 1..Len(b) :
        /\ \A i \in 1..(k - 1) : i <= Len(a) /\ a[i] = b[i]
        /\ k > Len(a) \/ Rank(a[k]) < Rank(b[k])

normalizeAbsolute(parts) ==
    FoldLeft(LAMBDA out, raw : CASE raw = "."  -> out
                                 [] raw = ".." -> SubSeq(out, 1, Len(out) - 1)
                                 [] OTHER      -> Append(out, raw), Root, parts)
resolveVirtual(cwd, path) ==
    IF path # << >> /\ path[1] = "/" THEN normalizeAbsolute(Tail(path)) ELSE normalizeAbsolute(cwd \o path)
virtualParent(p) == SubSeq(p, 1, Len(p) - 1)
pathInsideSyntheticRoots(p) == p = Root \/ IsPrefix(WorkspaceRoot, p) \/ IsPrefix(Tmp, p)

-----------------------------------------------------------------------------
(* The source tree.                                                            *)

SourceDirectories == UNION {{SubSeq(p, 1, n) : n \in 0..(Len(p) - 1)} : p \in DOMAIN Tree}
SourceStat(rel) ==
    CASE rel \in DOMAIN Tree        -> "file"
      [] rel \in SourceDirectories  -> "directory"
      [] OTHER                      -> "not_found"
SourceList(rel) ==
    {q \in DOMAIN Tree \cup SourceDirectories : Len(q) = Len(rel) + 1 /\ virtualParent(q) = rel}

-----------------------------------------------------------------------------
(* Reading an environment: the overlay first, then what is deleted, then the   *)
(* source.                                                                     *)

\* masked is history: a file was written over a directory.
FreshEnv ==
    [overlay |-> WorkspaceRoot :> Directory @@ Tmp :> Directory, deleted |-> {}, changed |-> {}, tempSeq |-> 0,
     masked |-> FALSE]

isDeleted(e, p) == \E d \in e.deleted : IsPrefix(d, p)

fileInfo(e, p) ==
    CASE ~pathInsideSyntheticRoots(p)  -> "permission_denied"
      [] p = Root                      -> "directory"
      [] p \in DOMAIN e.overlay        -> e.overlay[p].kind
      [] isDeleted(e, p)               -> "not_found"
      [] IsPrefix(WorkspaceRoot, p)    -> SourceStat(Tail(p))
      [] OTHER                         -> "not_found"

Readable(e, p) == fileInfo(e, p) = "file"
readBinaryFile(e, p) == IF p \in DOMAIN e.overlay THEN e.overlay[p].text ELSE Tree[Tail(p)]

\* The children of a directory, each by its path.
listDir(e, p) ==
    {q \in DOMAIN e.overlay : q # Root /\ virtualParent(q) = p /\ ~isDeleted(e, q)} \cup
    (IF IsPrefix(WorkspaceRoot, p) /\ ~isDeleted(e, p)
     THEN {q \in {WorkspaceRoot \o rel : rel \in SourceList(Tail(p))} : ~isDeleted(e, q)} ELSE {})

InOrder(paths) == SetToSortSeq(paths, Before)

walk(e, p) ==
    LET known == DOMAIN e.overlay \cup {WorkspaceRoot \o rel : rel \in DOMAIN Tree \cup SourceDirectories} \cup {p}
        up(q, n) == SubSeq(q, 1, n)
    IN  {q \in known : IsPrefix(p, q) /\ \A n \in Len(p)..(Len(q) - 1) :
                          fileInfo(e, up(q, n)) = "directory" /\ up(q, n + 1) \in listDir(e, up(q, n))}
walkFiles(e, p) == {q \in walk(e, p) : fileInfo(e, q) = "file"}

-----------------------------------------------------------------------------
(* Writing: the environment after the operation, and whether it succeeded.     *)

Done(e) == [ok |-> TRUE, env |-> e, todo |-> << >>]
Fail(e) == [ok |-> FALSE, env |-> e, todo |-> << >>]
Then(e, todo) == [ok |-> TRUE, env |-> e, todo |-> todo]

markChanged(e, p) ==
    IF IsPrefix(WorkspaceRoot, p) /\ p # WorkspaceRoot THEN [e EXCEPT !.changed = @ \cup {Tail(p)}] ELSE e

\* What was deleted above the path, at it and below it is deleted no more.
clearDeletedAncestors(e, p) == [e EXCEPT !.deleted = {d \in @ : ~IsPrefix(d, p) /\ ~IsPrefix(p, d)}]

\* Directories are made below the nearest path that exists, which has to be one.
ensureDirectory(e, p) ==
    LET up(n) == SubSeq(p, 1, n)
        near == CHOOSE n \in 0..Len(p) : /\ fileInfo(e, up(n)) # "not_found"
                                         /\ \A m \in (n + 1)..Len(p) : fileInfo(e, up(m)) = "not_found"
        made == {up(n) : n \in (near + 1)..Len(p)}
    IN  IF fileInfo(e, up(near)) # "directory" THEN Fail(e)
        ELSE IF made = {} THEN Done(e)
        ELSE Done([clearDeletedAncestors(e, up(near + 1)) EXCEPT !.overlay = [q \in made |-> Directory] @@ @])

writeFile(e, p, bytes) ==
    IF p \in {Root, WorkspaceRoot, Tmp} \/ ~pathInsideSyntheticRoots(p) THEN Fail(e)
    ELSE LET parent == ensureDirectory(e, virtualParent(p))
             cleared == clearDeletedAncestors(parent.env, p)
         IN  IF ~parent.ok THEN parent
             ELSE Done(markChanged([cleared EXCEPT !.overlay = p :> [kind |-> "file", text |-> bytes] @@ @,
                                                   !.masked = @ \/ fileInfo(e, p) = "directory"], p))

appendFile(e, p, tail) ==
    CASE fileInfo(e, p) = "file"      -> writeFile(e, p, readBinaryFile(e, p) \o tail)
      [] fileInfo(e, p) = "not_found" -> writeFile(e, p, tail)
      [] OTHER                        -> Fail(e)

createDir(e, p, recursive) ==
    IF ~pathInsideSyntheticRoots(p) \/ (~recursive /\ fileInfo(e, virtualParent(p)) # "directory") THEN Fail(e)
    ELSE ensureDirectory(e, p)

Unlink(e, p) ==
    Done(markChanged([e EXCEPT !.overlay = [q \in DOMAIN @ \ {p} |-> @[q]], !.deleted = @ \cup {p}], p))

RemovalOf(p) == [op |-> "remove", path |-> p, recursive |-> TRUE, force |-> TRUE]

\* Mutated: a directory is deleted as one entry, without its children.
removeTop(e, p, recursive, force) ==
    CASE p \in {Root, WorkspaceRoot, Tmp}    -> Fail(e)
      [] fileInfo(e, p) = "not_found"        -> IF force THEN Done(e) ELSE Fail(e)
      [] fileInfo(e, p) = "permission_denied" -> Fail(e)
      [] fileInfo(e, p) = "file"             -> Unlink(e, p)
      [] listDir(e, p) = {} \/ recursive     -> Unlink(e, p)
      [] OTHER                               -> Fail(e)

\* A directory's children are removed first, each by a step of its own.
remove(e, p, recursive, force) ==
    CASE p \in {Root, WorkspaceRoot, Tmp}    -> Fail(e)
      [] fileInfo(e, p) = "not_found"        -> IF force THEN Done(e) ELSE Fail(e)
      [] fileInfo(e, p) = "permission_denied" -> Fail(e)
      [] fileInfo(e, p) = "file"             -> Unlink(e, p)
      [] listDir(e, p) = {}                  -> Unlink(e, p)
      [] recursive -> LET children == InOrder(listDir(e, p))
                      IN  Then(e, [i \in 1..Len(children) |-> RemovalOf(children[i])] \o <<[op |-> "unlink", path |-> p]>>)
      [] OTHER                               -> Fail(e)

\* A directory is copied file by file and then removed; that it could not be made is not looked at.
renameFile(e, from, to) ==
    LET files == InOrder(walkFiles(e, from))
        copy(f) == [op |-> "copy", path |-> f, to |-> to \o SubSeq(f, Len(from) + 1, Len(f))]
        removal(recursive) == <<[op |-> "remove", path |-> from, recursive |-> recursive, force |-> FALSE]>>
    IN  CASE ~pathInsideSyntheticRoots(to) -> Fail(e)
          [] fileInfo(e, from) = "directory" ->
                Then(ensureDirectory(e, to).env, [i \in 1..Len(files) |-> copy(files[i])] \o removal(TRUE))
          [] fileInfo(e, from) = "file" -> Then(e, <<[op |-> "copy", path |-> from, to |-> to]>> \o removal(FALSE))
          [] OTHER -> Fail(e)

\* One file operation of a command.
Perform(e, x) ==
    CASE x.op = "mkdir"  -> createDir(e, x.path, x.recursive)
      [] x.op = "remove" -> remove(e, x.path, x.recursive, x.force)
      [] x.op = "unlink" -> Unlink(e, x.path)
      [] x.op = "copy"   -> IF Readable(e, x.path) THEN writeFile(e, x.to, readBinaryFile(e, x.path)) ELSE Fail(e)
      [] x.op = "rename" -> renameFile(e, x.path, x.to)
      [] x.op = "touch"  -> writeFile(e, x.path, IF Readable(e, x.path) THEN readBinaryFile(e, x.path) ELSE << >>)

-----------------------------------------------------------------------------
(* What the work changed, as the artifact and as git tell it.                  *)

SourceBytes(rel) == IF SourceStat(rel) = "file" THEN <<Tree[rel]>> ELSE << >>
CurrentBytes(e, rel) ==
    IF Readable(e, WorkspaceRoot \o rel) THEN <<readBinaryFile(e, WorkspaceRoot \o rel)>> ELSE << >>

\* Of the paths marked as changed, those whose bytes differ: the path and the bytes it has now.
exportArtifact(e) ==
    {[path |-> rel, kind |-> CASE CurrentBytes(e, rel) = << >> -> "delete"
                               [] SourceBytes(rel) = << >>     -> "add"
                               [] OTHER                        -> "modify", content |-> CurrentBytes(e, rel)] :
     rel \in {q \in e.changed : SourceBytes(q) # CurrentBytes(e, q)}}

classify(e, rel) ==
    CASE SourceBytes(rel) = << >> /\ CurrentBytes(e, rel) # << >> -> "A"
      [] SourceBytes(rel) # << >> /\ CurrentBytes(e, rel) = << >> -> "D"
      [] SourceBytes(rel) # CurrentBytes(e, rel)                  -> "M"
      [] OTHER                                                   -> "none"
gitStatus(e) == {<<classify(e, rel), rel>> : rel \in {q \in e.changed : classify(e, q) # "none"}}
\* A patch is told by its path: before it, the source's bytes, after it, the current ones.
gitDiff(e) == {rel \in e.changed : SourceBytes(rel) # CurrentBytes(e, rel)}
gitLsFiles(e) == DOMAIN Tree \cup {rel \in e.changed : SourceBytes(rel) # << >> \/ CurrentBytes(e, rel) # << >>}

-----------------------------------------------------------------------------
(* Text, and the commands that only print it.                                  *)

SplitLines(bytes) ==
    FoldLeft(LAMBDA lines, word : IF word = NL THEN Append(lines, << >>)
                                  ELSE [lines EXCEPT ![Len(lines)] = Append(@, word)], <<<< >>>>, bytes)
JoinLines(lines) ==
    IF lines = << >> THEN << >> ELSE FoldLeft(LAMBDA out, line : out \o <<NL>> \o line, lines[1], Tail(lines))
PrintLines(lines) == FoldLeft(LAMBDA out, line : out \o line \o <<NL>>, << >>, lines)
PathText(p) == FoldLeft(LAMBDA out, name : IF out = << >> THEN <<name>> ELSE out \o <<"/", name>>, << >>, p)

Printed(out, code) == [text |-> out, code |-> code]

\* A command that reads its standard input, or one file: its text, and whether it could be read.
InputOf(e, cwd, c, stdin) ==
    LET p == resolveVirtual(cwd, c.paths[1])
    IN  CASE c.paths = << >>  -> Printed(stdin, 0)
          [] Readable(e, p)   -> Printed(readBinaryFile(e, p), 0)
          [] OTHER            -> Printed(<< >>, 1)

cmdCat(e, cwd, c, stdin) ==
    LET ps == [i \in DOMAIN c.paths |-> resolveVirtual(cwd, c.paths[i])]
        bad == SelectInSeq(ps, LAMBDA p : ~Readable(e, p))
        upTo(n) == FoldLeft(LAMBDA out, p : out \o readBinaryFile(e, p), << >>, SubSeq(ps, 1, n))
    IN  CASE ps = << >>  -> Printed(stdin, 0)
          [] bad = 0     -> Printed(upTo(Len(ps)), 0)
          [] OTHER       -> Printed(upTo(bad - 1), 1)

cmdLs(e, cwd, c) ==
    LET p == resolveVirtual(cwd, IF c.paths = << >> THEN <<".">> ELSE c.paths[1])
        names == InOrder(listDir(e, p))
    IN  IF fileInfo(e, p) # "directory" THEN Printed(<< >>, 1)
        ELSE Printed(PrintLines([i \in DOMAIN names |-> <<Last(names[i])>>]), 0)

\* The last line of a text that ends with a newline is an empty one, for head, tail, sort and uniq alike.
cmdHeadTail(lines, n, head) ==
    IF head THEN SubSeq(lines, 1, n) ELSE SubSeq(lines, Len(lines) - n + 1, Len(lines))
cmdSort(lines) == SortSeq(lines, Before)
cmdUniq(lines) ==
    FoldLeft(LAMBDA out, line : IF out # << >> /\ Last(out) = line THEN out ELSE Append(out, line), << >>, lines)
cmdWc(bytes) == Len(SelectSeq(bytes, LAMBDA w : w = NL)) + (IF bytes # << >> /\ Last(bytes) # NL THEN 1 ELSE 0)

\* Lines with the word, of the input or, with -r, of every file below a directory (its label left out).
cmdGrep(e, cwd, c, stdin) ==
    LET p == resolveVirtual(cwd, c.paths[1])
        hits(bytes) == SelectSeq(SplitLines(bytes), LAMBDA line : Contains(line, c.word))
        below == InOrder(walkFiles(e, p))
        found == CASE c.paths = << >>                -> hits(stdin)
                   [] fileInfo(e, p) = "directory"   ->
                        IF "-r" \notin c.flags THEN << >>
                        ELSE FlattenSeq([i \in DOMAIN below |-> hits(readBinaryFile(e, below[i]))])
                   [] Readable(e, p)                 -> hits(readBinaryFile(e, p))
                   [] OTHER                          -> << >>
    IN  Printed(PrintLines(found), IF found = << >> THEN 1 ELSE 0)

cmdFind(e, cwd, c) ==
    LET p == resolveVirtual(cwd, IF c.paths = << >> THEN <<".">> ELSE c.paths[1])
        found == InOrder({q \in walk(e, p) : "-type f" \in c.flags => Readable(e, q)})
    IN  IF fileInfo(e, p) \notin {"file", "directory"} THEN Printed(<< >>, 1)
        ELSE Printed(PrintLines([i \in DOMAIN found |-> PathText(found[i])]), 0)

gitShow(rel) == IF SourceBytes(rel) = << >> THEN Printed(<< >>, 128) ELSE Printed(Tree[rel], 0)

\* git on the paths and the source; what cannot be asked of it is refused.
gitRun(e, c) ==
    LET listed(paths) == LET ps == InOrder(paths) IN PrintLines([i \in DOMAIN ps |-> PathText(ps[i])])
    IN  CASE c.word = "status"   -> Printed(listed({<<s[1]>> \o s[2] : s \in gitStatus(e)}), 0)
          [] c.word = "diff"     -> Printed(listed(gitDiff(e)), 0)
          [] c.word = "ls-files" -> Printed(listed(gitLsFiles(e)), 0)
          [] c.word = "show"     -> gitShow(c.paths[1])
          [] c.word \in {"rev-parse", "branch"} -> Printed(<<c.word, NL>>, 0)
          [] OTHER               -> Printed(<< >>, 2)

\* The commands that leave the environment and the shell as they are.
Output(e, cwd, c, stdin) ==
    LET input == InputOf(e, cwd, c, stdin)
        filtered(lines) == IF input.code # 0 THEN input ELSE Printed(JoinLines(lines), 0)
    IN  CASE c.name = "true"  -> Printed(<< >>, 0)
          [] c.name = "false" -> Printed(<< >>, 1)
          [] c.name = "pwd"   -> Printed(PathText(cwd) \o <<NL>>, 0)
          [] c.name = "echo"  -> Printed(<<c.word, NL>>, 0)
          [] c.name = "cat"   -> cmdCat(e, cwd, c, stdin)
          [] c.name = "ls"    -> cmdLs(e, cwd, c)
          [] c.name = "head"  -> filtered(cmdHeadTail(SplitLines(input.text), 1, TRUE))
          [] c.name = "tail"  -> filtered(cmdHeadTail(SplitLines(input.text), 1, FALSE))
          [] c.name = "sort"  -> filtered(cmdSort(SplitLines(input.text)))
          [] c.name = "uniq"  -> filtered(cmdUniq(SplitLines(input.text)))
          [] c.name = "wc"    -> filtered(<<<<ToString(cmdWc(input.text))>>, << >>>>)
          [] c.name = "grep"  -> cmdGrep(e, cwd, c, stdin)
          [] c.name = "find"  -> cmdFind(e, cwd, c)
          [] c.name = "git"   -> gitRun(e, c)
          [] OTHER            -> Printed(<< >>, 127)

\* What mkdir, rm, cp, mv and touch do to the files they name, one after the other.
Effects(cwd, c) ==
    LET p(i) == resolveVirtual(cwd, c.paths[i])
        each(x(_)) == [i \in DOMAIN c.paths |-> x(p(i))]
    IN  CASE c.name = "mkdir" -> each(LAMBDA q : [op |-> "mkdir", path |-> q, recursive |-> "-p" \in c.flags])
          [] c.name = "rm"    -> each(LAMBDA q : [op |-> "remove", path |-> q, recursive |-> "-r" \in c.flags,
                                                  force |-> "-f" \in c.flags])
          [] c.name = "touch" -> each(LAMBDA q : [op |-> "touch", path |-> q])
          [] c.name = "cp"    -> <<[op |-> "copy", path |-> p(1), to |-> p(2)]>>
          [] c.name = "mv"    -> <<[op |-> "rename", path |-> p(1), to |-> p(2)]>>

-----------------------------------------------------------------------------
(* Shells.  A script is a sequence of [operator, pipeline], a pipeline a       *)
(* sequence of commands [name, flags, paths, word, redirect].                  *)

Mutating == {"mkdir", "rm", "cp", "mv", "touch"}
IdleShell == [phase |-> "idle", env |-> 0, script |-> << >>, pipe |-> << >>, cwd |-> Root, code |-> 0, stdin |-> << >>, todo |-> << >>]

EnvInit == envs = 1 :> FreshEnv /\ shell = [s \in Shells |-> IdleShell] /\ execs = 0

\* A working directory that is none is refused before anything runs.
Exec(s) ==
    /\ shell[s] = IdleShell /\ execs < MaxExecs
    /\ \E script \in Scripts, cwd \in Cwds, i \in DOMAIN envs :
          /\ fileInfo(envs[i], cwd) = "directory"
          /\ shell' = [shell EXCEPT ![s] = [IdleShell EXCEPT !.phase = "script", !.env = i, !.script = script, !.cwd = cwd]]
    /\ execs' = execs + 1 /\ UNCHANGED envs

\* The next pipeline runs or, after && and ||, is passed over.
RunScript(s) ==
    LET sh == shell[s]  next == Head(sh.script)
        skipped == (next.operator = "&&" /\ sh.code # 0) \/ (next.operator = "||" /\ sh.code = 0)
    IN  /\ sh.phase = "script" /\ sh.script # << >>
        /\ shell' = [shell EXCEPT ![s] = IF skipped THEN [sh EXCEPT !.script = Tail(@)]
                         ELSE [sh EXCEPT !.script = Tail(@), !.pipe = next.pipeline, !.phase = "command", !.stdin = << >>]]
        /\ UNCHANGED <<envs, execs>>

\* The shell once its command has printed this and left with this code.
Left(sh, out) == [sh EXCEPT !.phase = "printed", !.stdin = out.text, !.code = out.code, !.todo = << >>]

RunCommand(s) ==
    LET sh == shell[s]  c == Head(sh.pipe)  e == envs[sh.env]
        there == resolveVirtual(sh.cwd, c.paths[1])
    IN  /\ sh.phase = "command"
        /\ shell' = [shell EXCEPT ![s] =
              CASE c.name \in Mutating -> [sh EXCEPT !.phase = "effects", !.todo = Effects(sh.cwd, c)]
                [] c.name = "cd"       -> IF fileInfo(e, there) = "directory"
                                          THEN [Left(sh, Printed(<< >>, 0)) EXCEPT !.cwd = there]
                                          ELSE Left(sh, Printed(<< >>, 1))
                [] OTHER               -> Left(sh, Output(e, sh.cwd, c, sh.stdin))]
        /\ UNCHANGED <<envs, execs>>

\* One file operation of the command; the first that fails ends it.
FileOperation(s) ==
    LET sh == shell[s]  r == Perform(envs[sh.env], Head(sh.todo))  todo == r.todo \o Tail(sh.todo)
    IN  /\ sh.phase = "effects"
        /\ envs' = [envs EXCEPT ![sh.env] = r.env]
        /\ shell' = [shell EXCEPT ![s] = CASE ~r.ok      -> Left(sh, Printed(<< >>, 1))
                                           [] todo = << >> -> Left(sh, Printed(<< >>, 0))
                                           [] OTHER        -> [sh EXCEPT !.todo = todo]]
        /\ UNCHANGED execs

\* What was printed goes to the file it is redirected to or to the next command, unless this one failed.
EndCommand(s) ==
    LET sh == shell[s]  c == Head(sh.pipe)  e == envs[sh.env]
        redirected == c.redirect # << >>
        p == resolveVirtual(sh.cwd, c.redirect)
        wrote == IF ~redirected THEN Done(e)
                 ELSE IF ">>" \in c.flags THEN appendFile(e, p, sh.stdin) ELSE writeFile(e, p, sh.stdin)
        over == ~wrote.ok \/ sh.code # 0 \/ Len(sh.pipe) = 1
    IN  /\ sh.phase = "printed"
        /\ envs' = [envs EXCEPT ![sh.env] = wrote.env]
        /\ shell' = [shell EXCEPT ![s] = [sh EXCEPT !.code = IF wrote.ok THEN @ ELSE 1,
                                                    !.stdin = IF redirected \/ over THEN << >> ELSE @,
                                                    !.pipe = IF over THEN << >> ELSE Tail(@),
                                                    !.phase = IF over THEN "script" ELSE "command"]]
        /\ UNCHANGED execs

createTempFile(e) ==
    LET n == CHOOSE i \in (e.tempSeq + 1)..Len(TempNames) :
                /\ fileInfo(e, Append(Tmp, TempNames[i])) = "not_found"
                /\ \A j \in (e.tempSeq + 1)..(i - 1) : fileInfo(e, Append(Tmp, TempNames[j])) # "not_found"
    IN  writeFile([e EXCEPT !.tempSeq = n], Append(Tmp, TempNames[n]), << >>).env

\* The script is over; an output too long for the capture is spilt to a file under /tmp.
EndExec(s) ==
    LET sh == shell[s]  e == envs[sh.env]
    IN  /\ sh.phase = "script" /\ sh.script = << >>
        /\ shell' = [shell EXCEPT ![s] = IdleShell]
        /\ envs' \in {envs, [envs EXCEPT ![sh.env] = createTempFile(e)]}
        /\ UNCHANGED execs

\* The signal aborts: every file operation and every check from here on answers "aborted".
AbortExec(s) ==
    /\ shell[s].phase # "idle" /\ shell' = [shell EXCEPT ![s] = IdleShell] /\ UNCHANGED <<envs, execs>>

ForkEnv ==
    /\ DOMAIN envs = {1}
    /\ envs' = envs @@ 2 :> envs[1]
    /\ UNCHANGED <<shell, execs>>

EnvNext ==
    \/ ForkEnv
    \/ \E s \in Shells : Exec(s) \/ RunScript(s) \/ RunCommand(s) \/ FileOperation(s) \/ EndCommand(s) \/ EndExec(s) \/ AbortExec(s)

-----------------------------------------------------------------------------
(* Properties.                                                                 *)

\* The files of the source with the artifact's changes applied to them.
Applied(e) ==
    LET changes == exportArtifact(e)
        gone == {x.path : x \in {y \in changes : y.kind = "delete"}}
        put == {x \in changes : x.kind # "delete"}
    IN  [rel \in (DOMAIN Tree \ gone) \cup {x.path : x \in put} |->
            IF \E x \in put : x.path = rel THEN (CHOOSE x \in put : x.path = rel).content[1] ELSE Tree[rel]]

\* The artifact that exportArtifact hands over, applied to the source, gives
\* the files that reading the environment gives, and git status lists exactly
\* the files that differ, whatever scripts, recursive removals and moves of two
\* shells and forks came before; except once a file was written over a
\* directory (memory.ts exportArtifact, writeFile, remove; memory-git.ts
\* status).
ArtifactIsTheWork ==
    execs > 0 => \A i \in DOMAIN envs : ~envs[i].masked =>
        LET e == envs[i]
            paths == DOMAIN Tree \cup {Tail(p) : p \in {q \in DOMAIN e.overlay : IsPrefix(WorkspaceRoot, q)}}
            bytes == [rel \in paths |-> CurrentBytes(e, rel)]
        IN  /\ Applied(e) = [rel \in {p \in paths : bytes[p] # << >>} |-> bytes[rel][1]]
            /\ {s[2] : s \in gitStatus(e)} = {rel \in paths : SourceBytes(rel) # bytes[rel]}

=============================================================================
